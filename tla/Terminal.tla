------------------------------ MODULE Terminal ------------------------------
(***************************************************************************)
(* What the console promises its readers: the keys typed form lines that   *)
(* can be edited until they are complete; complete input is a queue; a     *)
(* read takes at most one line of it, all that is there in one piece, and  *)
(* an end of file shows as a read that returns nothing.                    *)
(***************************************************************************)
EXTENDS Integers, Sequences, FiniteSetsExt

CONSTANTS Readers, Letters, Newline, EOF,
          Size,         \* how much can be typed ahead
          Idle          \* in no call

VARIABLES queue,        \* complete input that nobody has read
          edit,         \* the line being typed
          asked,        \* the n of each reader's call
          got           \* what the call has returned, or has so far; until the caller has it

vars == <<queue, edit, asked, got>>

Init ==
    /\ queue = <<>> /\ edit = <<>>
    /\ asked = [t \in Readers |-> Idle]
    /\ got = [t \in Readers |-> <<>>]

\* A line that is complete, or as much of one as there is room for.
Complete(s, ch) == ch \in {Newline, EOF} \/ Len(queue) + Len(s) = Size

Type(ch) ==
    /\ Len(queue) + Len(edit) < Size
    /\ LET s == Append(edit, ch) IN
       IF Complete(s, ch)
         THEN queue' = queue \o s /\ edit' = <<>>
         ELSE edit' = s /\ UNCHANGED queue
    /\ UNCHANGED <<asked, got>>

Erase(k) ==
    /\ k \in {1, Len(edit)} /\ edit # <<>>
    /\ edit' = SubSeq(edit, 1, Len(edit) - k)
    /\ UNCHANGED <<queue, asked, got>>

Start(t) ==
    /\ asked[t] = Idle /\ got[t] = <<>>
    /\ asked'[t] \in Nat
    /\ asked' = [asked EXCEPT ![t] = asked'[t]]
    /\ UNCHANGED <<queue, edit, got>>

\* The caller has what its call returned.
Collect(t) ==
    /\ asked[t] = Idle
    /\ got' = [got EXCEPT ![t] = <<>>]
    /\ UNCHANGED <<queue, edit, asked>>

\* The longest piece of one line that fits.
Piece(n) ==
    Max({k \in 0 .. n : /\ k <= Len(queue)
                        /\ \A i \in 1 .. k : queue[i] # EOF
                        /\ \A i \in 1 .. k - 1 : queue[i] # Newline})

\* The reader takes it, and goes on waiting if its line is not complete.
Take(t) ==
    /\ asked[t] # Idle
    /\ LET n    == asked[t] - Len(got[t])
           k    == Piece(n)
           mine == got[t] \o SubSeq(queue, 1, k)
           ends == k < n /\ k < Len(queue) /\ queue[k + 1] = EOF
           done == Len(mine) = asked[t] \/ ends \/ (k > 0 /\ queue[k] = Newline)
       IN  /\ got' = [got EXCEPT ![t] = mine]
           /\ asked' = IF done THEN [asked EXCEPT ![t] = Idle] ELSE asked
           /\ queue' = SubSeq(queue, (IF ends /\ mine = <<>> THEN k + 2 ELSE k + 1), Len(queue))
    /\ UNCHANGED edit

\* A call gives up for want of input.
GiveUp(t) ==
    /\ asked[t] # Idle
    /\ LET n == asked[t] - Len(got[t]) IN Piece(n) = Len(queue) /\ Len(queue) < n
    /\ \A i \in 1 .. Len(queue) : queue[i] # Newline
    /\ queue' = <<>>
    /\ asked' = [asked EXCEPT ![t] = Idle]
    /\ got' = [got EXCEPT ![t] = <<>>]
    /\ UNCHANGED edit

Next ==
    \/ \E ch \in Letters \cup {Newline, EOF} : Type(ch)
    \/ \E k \in 1 .. Size : Erase(k)
    \/ \E t \in Readers : Start(t) \/ Collect(t) \/ Take(t) \/ GiveUp(t)

Spec == Init /\ [][Next]_vars
=============================================================================
