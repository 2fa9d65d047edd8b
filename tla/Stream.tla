------------------------------- MODULE Stream -------------------------------
(***************************************************************************)
(* What a pipe promises its users: a queue of bytes of bounded length.     *)
(* A write puts its bytes in the order it has them, each once, and is      *)
(* interrupted by others only where the queue is full; if it says so it    *)
(* has put all of them.  Readers get the bytes in the order of the queue,  *)
(* and nothing only if they asked for nothing or after the last byte of    *)
(* the last writer.                                                        *)
(***************************************************************************)
EXTENDS Integers, Sequences

CONSTANTS Capacity,   \* how many bytes the queue holds
          Texts,      \* what there is to write
          MaxN,       \* the longest read
          Writers, Readers,
          Failed      \* the result of a read that gave up

VARIABLES queue,      \* written and not yet read
          eof,        \* nobody can write any more
          busy,       \* the processes that are reading or writing
          out,        \* what each write has still to put
          want,       \* how many bytes each read asks for
          wrote,      \* the writers whose last write was done in full
          res         \* what each reader's last read returned

vars == <<queue, eof, busy, out, want, wrote, res>>

Init ==
    /\ queue = <<>>
    /\ eof = FALSE
    /\ busy = {}
    /\ out = [w \in Writers |-> <<>>]
    /\ want = [r \in Readers |-> 0]
    /\ wrote = {}
    /\ res = [r \in Readers |-> Failed]

StartWrite(w) ==
    /\ w \notin busy /\ ~eof
    /\ busy' = busy \cup {w}
    /\ \E s \in Texts : out' = [out EXCEPT ![w] = s]
    /\ wrote' = wrote \ {w}
    /\ UNCHANGED <<queue, eof, want, res>>

\* The next k bytes of a write go to the end of the queue.
Enter(w, k) ==
    /\ w \in busy /\ ~eof
    /\ Len(queue) + k <= Capacity
    /\ queue' = queue \o SubSeq(out[w], 1, k)
    /\ UNCHANGED <<eof, want, res>>

Put(w) ==
    /\ Enter(w, Len(out[w]))
    /\ out' = [out EXCEPT ![w] = <<>>]
    /\ busy' = busy \ {w}
    /\ wrote' = wrote \cup {w}

\* The queue is full before the write is done: it goes on later, or gives up.
PutSome(w) ==
    \E k \in 0 .. Len(out[w]) - 1 :
        /\ Len(queue) + k = Capacity
        /\ Enter(w, k)
        /\ \/ /\ out' = [out EXCEPT ![w] = SubSeq(@, k + 1, Len(@))]
              /\ UNCHANGED busy
           \/ /\ out' = [out EXCEPT ![w] = <<>>]
              /\ busy' = busy \ {w}
        /\ UNCHANGED wrote

StartRead(r) ==
    /\ r \notin busy
    /\ busy' = busy \cup {r}
    /\ \E n \in 0 .. MaxN : want' = [want EXCEPT ![r] = n]
    /\ res' = [res EXCEPT ![r] = Failed]
    /\ UNCHANGED <<queue, eof, out, wrote>>

\* The read takes all it asks for, or all there is, from the front of the queue.
Take(r, k) ==
    /\ k = want[r] \/ (k < want[r] /\ k = Len(queue))
    /\ res' = [res EXCEPT ![r] = SubSeq(queue, 1, k)]
    /\ queue' = SubSeq(queue, k + 1, Len(queue))

EndRead(r) ==
    /\ r \in busy
    /\ busy' = busy \ {r}
    /\ want' = [want EXCEPT ![r] = 0]
    /\ UNCHANGED <<eof, out, wrote>>

Get(r) ==
    /\ queue # <<>> \/ eof
    /\ \E k \in 0 .. Len(queue) : Take(r, k)
    /\ EndRead(r)

GiveUp(r) ==
    /\ queue = <<>> /\ ~eof
    /\ res' = [res EXCEPT ![r] = Failed]
    /\ UNCHANGED queue
    /\ EndRead(r)

Close ==
    /\ ~eof /\ busy \cap Writers = {}
    /\ eof' = TRUE
    /\ UNCHANGED <<queue, busy, out, want, wrote, res>>

\* Both ends are closed, and the pipe makes place for another.
Renew == eof /\ busy = {} /\ Init'

Next ==
    \/ \E w \in Writers : StartWrite(w) \/ Put(w) \/ PutSome(w)
    \/ \E r \in Readers : StartRead(r) \/ Get(r) \/ GiveUp(r)
    \/ Close
    \/ Renew

Spec == Init /\ [][Next]_vars
=============================================================================
