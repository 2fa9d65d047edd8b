--------------------------- MODULE ConsoleProofs ---------------------------
(***************************************************************************)
(* Proofs about Console: for any number of processors, processes, readers  *)
(* and writers, the interrupt flag follows the locks and the traps wherever *)
(* the scheduler moves a process, and no lock operation panics.            *)
(*                                                                         *)
(* A step of a processor changes its own mask, the locks it takes or gives *)
(* up, and the stack it is on.  The lemmas up to LeaveStep say so once for *)
(* each shape a step has; each action is then one of those shapes.         *)
(***************************************************************************)
EXTENDS Console, SequenceTheorems, WellFoundedInduction, TLAPS

Threads == Procs \cup CPUs

\* The frame on top of a stack, and the one below it.
top == [x \in Threads |-> Head(stack[x])]
low == [x \in Threads |-> IF Len(stack[x]) = 1 THEN "none" ELSE stack[x][2]]

\* Where interrupts may be on, and where a handler may be.
OpenPCs    == {"user", "read", "write", "exit", "ret"}
KeyPCs     == {"kbd", "getc", "wakeup", "dump", "ret"}
HandlerPCs == KeyPCs \cup {"yield", "yielded", "exit"}

ConsPCs   == {"sleep", "getc", "wakeup"}                \* with cons.lock
PtablePCs == {"scan", "forkret", "slept", "yielded"}    \* with ptable.lock

ControlType ==
    /\ cpu \in [CPUs -> Masks]
    /\ holder \in [Locks -> CPUs \cup {NoCPU}]
    /\ spinning \subseteq CPUs
    /\ state \in [Procs -> {"RUNNABLE", "RUNNING", "SLEEPING", "ZOMBIE"}]
    /\ current \in [CPUs -> Procs \cup CPUs]
    /\ saved \in [Procs -> BOOLEAN]

StackType ==
    /\ stack \in [Threads -> Seq(PCs)]
    /\ \A x \in Threads : Len(stack[x]) \in {1, 2}
-----------------------------------------------------------------------------
(* Stacks.                                                                 *)

LEMMA Replace ==
    ASSUME NEW S, NEW s \in Seq(S), Len(s) \in {1, 2}, NEW p \in S
    PROVE  LET t == <<p>> \o Tail(s)
           IN  /\ t \in Seq(S) /\ Len(t) = Len(s) /\ Head(t) = p
               /\ Len(s) = 2 => t[2] = s[2]
<1>0. s # <<>>
  <2>1. CASE Len(s) = 1
    BY <2>1
  <2>2. CASE Len(s) = 2
    BY <2>2
  <2> QED BY <2>1, <2>2
<1> DEFINE u == Tail(s)   t == <<p>> \o u
<1>1. u \in Seq(S) /\ Len(u) = Len(s) - 1 /\ (Len(s) = 2 => u[1] = s[2])
  BY <1>0, HeadTailProperties
<1>2. <<p>> \in Seq(S) /\ Len(<<p>>) = 1 /\ <<p>>[1] = p
  OBVIOUS
<1> HIDE DEF u
<1>3. t \in Seq(S) /\ Len(t) = 1 + Len(u)
  BY <1>1, <1>2, ConcatProperties
<1>4. t[1] = p
  BY <1>1, <1>2, ConcatProperties
<1>5. Len(s) = 2 => t[2] = u[1]
  BY <1>1, <1>2, ConcatProperties
<1>6. Head(t) = t[1]
  BY <1>3
<1> QED BY <1>1, <1>3, <1>4, <1>5, <1>6 DEF u

LEMMA Push ==
    ASSUME NEW S, NEW s \in Seq(S), Len(s) = 1, NEW p \in S
    PROVE  LET t == <<p>> \o s
           IN  /\ t \in Seq(S) /\ Len(t) = 2 /\ Head(t) = p /\ t[2] = Head(s)
<1> DEFINE t == <<p>> \o s
<1>1. <<p>> \in Seq(S) /\ Len(<<p>>) = 1 /\ <<p>>[1] = p
  OBVIOUS
<1>2. t \in Seq(S) /\ Len(t) = 2
  BY <1>1, ConcatProperties
<1>3. t[1] = p /\ t[2] = s[1]
  BY <1>1, ConcatProperties
<1>4. Head(t) = t[1] /\ Head(s) = s[1]
  BY <1>2
<1> QED BY <1>2, <1>3, <1>4

LEMMA Pop ==
    ASSUME NEW S, NEW s \in Seq(S), Len(s) = 2
    PROVE  Tail(s) \in Seq(S) /\ Len(Tail(s)) = 1 /\ Head(Tail(s)) = s[2]
<1>1. s # <<>>
  OBVIOUS
<1>2. Tail(s) \in Seq(S) /\ Len(Tail(s)) = 1 /\ Tail(s)[1] = s[2]
  BY <1>1, HeadTailProperties
<1> QED BY <1>2

LEMMA MinFacts ==
    ASSUME NEW S \in SUBSET Nat, S # {}
    PROVE  Min(S) \in S /\ \A y \in S : Min(S) <= y
<1>1. PICK x \in S : \A y \in S : ~(<<y, x>> \in OpToRel(<, Nat))
  BY NatLessThanWellFounded, WFMin
<1>2. \A y \in S : ~(y < x)
  BY <1>1, Zenon DEF OpToRel
<1>3. \A y \in S : x <= y
  BY <1>2
<1> QED BY <1>1, <1>3 DEF Min

LEMMA PopcliFacts ==
    ASSUME NEW n \in Masks, n.ncli > 0
    PROVE  /\ Popcli(n) \in Masks /\ Popcli(n).ncli = n.ncli - 1
           /\ Popcli(n).intena = n.intena
           /\ Popcli(n).ints <=> n.ncli = 1 /\ n.intena
<1> DEFINE b == n.ncli = 1 /\ n.intena
<1>1. n \in [ints : BOOLEAN, ncli : Nat, intena : BOOLEAN] /\ b \in BOOLEAN
  BY DEF Masks
<1>2. Popcli(n) = [n EXCEPT !.ncli = n.ncli - 1, !.ints = b]
  BY DEF Popcli
<1> HIDE DEF b
<1> DEFINE k == n.ncli - 1
<1>3. k \in Nat
  BY <1>1
<1>4. Popcli(n) = [n EXCEPT !.ncli = k, !.ints = b]
  BY <1>2
<1> HIDE DEF k
<1>5. Popcli(n) = [ints |-> b, ncli |-> k, intena |-> n.intena]
  BY <1>1, <1>4
<1>6. n.intena \in BOOLEAN
  BY <1>1
<1>7. Popcli(n) \in [ints : BOOLEAN, ncli : Nat, intena : BOOLEAN]
  BY <1>1, <1>3, <1>5, <1>6
<1>8. Popcli(n).ncli = k /\ Popcli(n).intena = n.intena /\ Popcli(n).ints = b
  BY <1>5
<1> QED BY <1>7, <1>8 DEF b, k, Masks

LEMMA LowFacts ==
    ASSUME StackType
    PROVE  /\ top \in [Threads -> PCs] /\ low \in [Threads -> PCs \cup {"none"}]
           /\ \A x \in Threads : low[x] = "none" <=> Len(stack[x]) = 1
<1>1. "none" \notin PCs
  BY DEF PCs, Wants
<1>2. ASSUME NEW x \in Threads
      PROVE  /\ top[x] \in PCs /\ low[x] \in PCs \cup {"none"}
             /\ low[x] = "none" <=> Len(stack[x]) = 1
  <2>1. stack[x] \in Seq(PCs) /\ Len(stack[x]) \in {1, 2}
    BY DEF StackType
  <2>2. Head(stack[x]) \in PCs /\ (Len(stack[x]) = 2 => stack[x][2] \in PCs)
    BY <2>1
  <2> QED BY <1>1, <2>1, <2>2 DEF top, low
<1> QED BY <1>2 DEF top, low

LEMMA NewTop ==
    ASSUME StackType, NEW x \in Threads, NEW t \in Seq(PCs), Len(t) \in {1, 2},
           stack' = [stack EXCEPT ![x] = t]
    PROVE  /\ StackType'
           /\ top' = [top EXCEPT ![x] = Head(t)]
           /\ low' = [low EXCEPT ![x] = IF Len(t) = 1 THEN "none" ELSE t[2]]
<1>1. stack'[x] = t /\ \A y \in Threads : y # x => stack'[y] = stack[y]
  BY DEF StackType
<1>2. StackType'
  BY <1>1 DEF StackType
<1>3. top' = [top EXCEPT ![x] = Head(t)]
  <2>1. \A y \in Threads : Head(stack'[y]) = IF y = x THEN Head(t) ELSE Head(stack[y])
    BY <1>1
  <2> QED BY <2>1 DEF top
<1>4. low' = [low EXCEPT ![x] = IF Len(t) = 1 THEN "none" ELSE t[2]]
  <2>1. \A y \in Threads :
           (IF Len(stack'[y]) = 1 THEN "none" ELSE stack'[y][2])
           = IF y = x THEN (IF Len(t) = 1 THEN "none" ELSE t[2])
                      ELSE (IF Len(stack[y]) = 1 THEN "none" ELSE stack[y][2])
    BY <1>1
  <2> QED BY <2>1 DEF low
<1> QED BY <1>2, <1>3, <1>4

LEMMA GotoTop ==
    ASSUME StackType, NEW x \in Threads, NEW p \in PCs,
           stack' = [stack EXCEPT ![x] = <<p>> \o Tail(@)]
    PROVE  StackType' /\ top' = [top EXCEPT ![x] = p] /\ low' = low
<1> DEFINE t == <<p>> \o Tail(stack[x])
<1>1. stack[x] \in Seq(PCs) /\ Len(stack[x]) \in {1, 2}
  BY DEF StackType
<1>2. /\ t \in Seq(PCs) /\ Len(t) = Len(stack[x]) /\ Head(t) = p
      /\ Len(stack[x]) = 2 => t[2] = stack[x][2]
  BY <1>1, Replace
<1>3. stack' = [stack EXCEPT ![x] = t]
  OBVIOUS
<1> HIDE DEF t
<1>4. /\ StackType' /\ top' = [top EXCEPT ![x] = p]
      /\ low' = [low EXCEPT ![x] = IF Len(t) = 1 THEN "none" ELSE t[2]]
  BY <1>1, <1>2, <1>3, NewTop
<1>5. low[x] = IF Len(t) = 1 THEN "none" ELSE t[2]
  BY <1>1, <1>2 DEF low
<1>6. low' = low
  BY <1>4, <1>5, LowFacts
<1> QED BY <1>4, <1>6

LEMMA PushTop ==
    ASSUME StackType, NEW x \in Threads, NEW p \in PCs, low[x] = "none",
           stack' = [stack EXCEPT ![x] = <<p>> \o @]
    PROVE  /\ StackType' /\ top' = [top EXCEPT ![x] = p]
           /\ low' = [low EXCEPT ![x] = top[x]]
<1> DEFINE t == <<p>> \o stack[x]
<1>1. stack[x] \in Seq(PCs) /\ Len(stack[x]) = 1
  BY LowFacts DEF StackType
<1>2. /\ t \in Seq(PCs) /\ Len(t) = 2 /\ Head(t) = p /\ t[2] = Head(stack[x])
  BY <1>1, Push
<1>3. stack' = [stack EXCEPT ![x] = t]
  OBVIOUS
<1>4. top[x] = Head(stack[x])
  BY DEF top
<1> HIDE DEF t
<1>5. /\ StackType' /\ top' = [top EXCEPT ![x] = Head(t)]
      /\ low' = [low EXCEPT ![x] = IF Len(t) = 1 THEN "none" ELSE t[2]]
  BY <1>2, <1>3, NewTop
<1>6. (IF Len(t) = 1 THEN "none" ELSE t[2]) = top[x]
  BY <1>2, <1>4
<1> QED BY <1>2, <1>5, <1>6

LEMMA PopTop ==
    ASSUME StackType, NEW x \in Threads, low[x] # "none",
           stack' = [stack EXCEPT ![x] = Tail(@)]
    PROVE  /\ StackType' /\ top' = [top EXCEPT ![x] = low[x]]
           /\ low' = [low EXCEPT ![x] = "none"]
<1> DEFINE t == Tail(stack[x])
<1>1. stack[x] \in Seq(PCs) /\ Len(stack[x]) = 2
  BY LowFacts DEF StackType
<1>2. /\ t \in Seq(PCs) /\ Len(t) = 1 /\ Head(t) = stack[x][2]
  BY <1>1, Pop
<1>3. stack' = [stack EXCEPT ![x] = t]
  OBVIOUS
<1>4. low[x] = stack[x][2]
  BY <1>1 DEF low
<1> HIDE DEF t
<1>5. /\ StackType' /\ top' = [top EXCEPT ![x] = Head(t)]
      /\ low' = [low EXCEPT ![x] = IF Len(t) = 1 THEN "none" ELSE t[2]]
  BY <1>2, <1>3, NewTop
<1> QED BY <1>2, <1>4, <1>5

LEMMA SetTop ==
    ASSUME StackType, NEW x \in Threads, NEW p \in PCs,
           stack' = [stack EXCEPT ![x] = <<p>>]
    PROVE  /\ StackType' /\ top' = [top EXCEPT ![x] = p]
           /\ low' = [low EXCEPT ![x] = "none"]
<1>1. <<p>> \in Seq(PCs) /\ Len(<<p>>) = 1 /\ Head(<<p>>) = p
  OBVIOUS
<1> QED BY <1>1, NewTop
-----------------------------------------------------------------------------
(* Control.                                                                *)

\* Where t is, as far as its state tells.
ThreadOK(t) ==
    /\ low[t] \in OpenPCs \cup {"none"}
    /\ state[t] = "RUNNING" =>
          top[t] \in IF low[t] = "none" THEN OpenPCs \cup {"sleep", "slept", "forkret"}
                                        ELSE HandlerPCs
    /\ state[t] = "RUNNABLE" =>
          top[t] \in IF low[t] = "none" THEN {"slept", "forkret"} ELSE {"yielded"}
    /\ state[t] = "SLEEPING" => top[t] = "slept" /\ low[t] = "none"
    /\ state[t] = "ZOMBIE" => top[t] = "dead" /\ low[t] = "none"
    /\ top[t] \in {"slept", "yielded"} => (saved[t] <=> low[t] = "none")

\* Where the processor c is, and what it holds there.
PlaceOK(c) ==
    /\ current[c] \in Procs \cup {c}
    /\ IF current[c] = c
         THEN /\ low[c] \in {"none", "idle"}
              /\ top[c] \in IF low[c] = "none" THEN {"idle", "scan"} ELSE KeyPCs
         ELSE low[c] = "none" /\ top[c] = "scan"
    /\ holder["cons"] = c <=> top[current[c]] \in ConsPCs
    /\ holder["ptable"] = c <=> top[current[c]] \in PtablePCs
    /\ c \in spinning => top[current[c]] \in DOMAIN Wants

\* What pushcli, popcli and sched have made of its interrupt flag.
MaskOK(c) ==
    LET p == top[current[c]]   flat == low[current[c]] = "none" IN
    /\ cpu[c].ncli = (IF p \in ConsPCs \cup PtablePCs THEN 1 ELSE 0)
                     + (IF c \in spinning THEN 1 ELSE 0)
    /\ cpu[c].ints <=> cpu[c].ncli = 0 /\ flat
    /\ cpu[c].ncli > 0 /\ p \notin PtablePCs => (cpu[c].intena <=> flat)

\* A process runs on one processor.
RunningOK ==
    /\ \A c, d \in CPUs : current[c] = current[d] => c = d
    /\ \A t \in Procs : state[t] = "RUNNING" <=> \E c \in CPUs : current[c] = t

ControlInv ==
    /\ ControlType /\ StackType /\ ~panicked /\ RunningOK
    /\ \A t \in Procs : ThreadOK(t)
    /\ \A c \in CPUs : PlaceOK(c) /\ MaskOK(c)
-----------------------------------------------------------------------------
LEMMA Names == Procs \cap CPUs = {} /\ NoCPU \notin CPUs /\ Locks = {"cons", "ptable"}
  BY SpinLockConstants, ConsoleConstants

LEMMA TopFacts ==
    ASSUME ControlInv, NEW c \in CPUs
    PROVE  current[c] \in Threads /\ top[current[c]] = Top(c)
<1>1. current[c] \in Threads
  BY DEF ControlInv, PlaceOK, Threads
<1> QED BY <1>1 DEF top, Top

\* The processor's state when acquire tries the lock.
LEMMA MaskedFacts ==
    ASSUME ControlInv, NEW c \in CPUs, top[current[c]] \in DOMAIN Wants
    PROVE  /\ Masked(c) \in Masks /\ ~Masked(c).ints
           /\ Masked(c).ncli = IF top[current[c]] \in ConsPCs THEN 2 ELSE 1
           /\ Masked(c).intena <=> low[current[c]] = "none"
<1>1. cpu[c] \in Masks /\ top[current[c]] \notin PtablePCs /\ MaskOK(c)
  BY DEF ControlInv, ControlType, PtablePCs, Wants
<1> DEFINE m == cpu[c]
<1>2. m \in [ints : BOOLEAN, ncli : Nat, intena : BOOLEAN]
  BY <1>1 DEF Masks
<1>3. CASE c \in spinning
  BY <1>1, <1>2, <1>3 DEF Masked, MaskOK, Masks
<1>4. CASE c \notin spinning
  <2>1. Pushcli(m) = [ints |-> FALSE, ncli |-> m.ncli + 1,
                      intena |-> IF m.ncli = 0 THEN m.ints ELSE m.intena]
    BY DEF Pushcli
  <2>2. Pushcli(m) \in Masks
    BY <1>2, <2>1 DEF Masks
  <2>3. m.ncli = IF top[current[c]] \in ConsPCs THEN 1 ELSE 0
    BY <1>1, <1>4 DEF MaskOK
  <2>4. (IF m.ncli = 0 THEN m.ints ELSE m.intena) <=> low[current[c]] = "none"
    BY <1>1, <1>4, <2>3 DEF MaskOK
  <2> QED BY <1>2, <1>4, <2>1, <2>2, <2>3, <2>4 DEF Masked
<1> QED BY <1>3, <1>4

\* A step of one processor, which may leave its stack for another, disturbs nothing
\* of the others.
Elsewhere(c) ==
    LET there == {current[c], current'[c]} IN
    /\ \A x \in Threads \ there : top'[x] = top[x] /\ low'[x] = low[x]
    /\ \A d \in CPUs \ {c} :
          /\ current'[d] = current[d] /\ cpu'[d] = cpu[d]
          /\ d \in spinning' <=> d \in spinning
          /\ \A l \in Locks : holder'[l] = d <=> holder[l] = d
    /\ \A t \in Procs \ there :
          /\ saved'[t] = saved[t]
          /\ \/ state'[t] = state[t]
             \/ state[t] = "SLEEPING" /\ state'[t] = "RUNNABLE"

LEMMA LocalStep ==
    ASSUME ControlInv, NEW c \in CPUs, Elsewhere(c),
           StackType', ControlType', ~panicked', PlaceOK(c)', MaskOK(c)',
           \/ current'[c] \in {current[c], c}
           \/ current'[c] \in Procs /\ state[current'[c]] = "RUNNABLE",
           \A t \in {current[c], current'[c]} \cap Procs :
              ThreadOK(t)' /\ (state'[t] = "RUNNING" <=> t = current'[c])
    PROVE  ControlInv'
<1> DEFINE x == current[c]   y == current'[c]
<1>1. x \in Procs \cup {c} /\ x \in Threads /\ y \in Procs \cup {c} /\ y \in Threads
  BY DEF ControlInv, PlaceOK, Threads
<1>2. \A d \in CPUs \ {c} : current[d] # x /\ current[d] # y /\ current[d] # c
  <2> SUFFICES ASSUME NEW d \in CPUs \ {c}
               PROVE  current[d] # x /\ current[d] # y /\ current[d] # c
    OBVIOUS
  <2>1. current[d] # x
    BY DEF ControlInv, RunningOK
  <2>2. current[d] # c
    BY Names DEF ControlInv, PlaceOK
  <2>3. current[d] \in Procs => state[current[d]] = "RUNNING"
    BY DEF ControlInv, RunningOK
  <2> QED BY <2>1, <2>2, <2>3
<1>3. RunningOK'
  <2>1. ASSUME NEW a \in CPUs, NEW d \in CPUs, current'[a] = current'[d] PROVE a = d
    BY <1>2, <2>1 DEF ControlInv, RunningOK, Elsewhere
  <2>2. ASSUME NEW t \in Procs PROVE state'[t] = "RUNNING" <=> \E a \in CPUs : current'[a] = t
    <3>1. CASE t \in {x, y}
      <4>1. \A a \in CPUs : a # c => current'[a] # t
        BY <1>2, <3>1 DEF Elsewhere
      <4> QED BY <3>1, <4>1
    <3>2. CASE t \notin {x, y}
      <4>1. state'[t] = "RUNNING" <=> state[t] = "RUNNING"
        BY <3>2 DEF Elsewhere
      <4>2. \A a \in CPUs : current'[a] = t <=> current[a] = t
        BY <3>2 DEF Elsewhere
      <4> QED BY <4>1, <4>2 DEF ControlInv, RunningOK
    <3> QED BY <3>1, <3>2
  <2> QED BY <2>1, <2>2 DEF RunningOK
<1>4. ASSUME NEW t \in Procs PROVE ThreadOK(t)'
  <2>1. CASE t \in {x, y}
    BY <2>1
  <2>2. CASE t \notin {x, y}
    <3>1. /\ top'[t] = top[t] /\ low'[t] = low[t] /\ saved'[t] = saved[t]
          /\ \/ state'[t] = state[t]
             \/ state[t] = "SLEEPING" /\ state'[t] = "RUNNABLE"
      BY <2>2 DEF Elsewhere, Threads
    <3>2. ThreadOK(t)
      BY DEF ControlInv
    <3> QED BY <3>1, <3>2 DEF ThreadOK
  <2> QED BY <2>1, <2>2
<1>5. ASSUME NEW d \in CPUs, d # c PROVE PlaceOK(d)' /\ MaskOK(d)'
  <2>1. /\ current'[d] = current[d] /\ cpu'[d] = cpu[d]
        /\ d \in spinning' <=> d \in spinning
        /\ holder'["cons"] = d <=> holder["cons"] = d
        /\ holder'["ptable"] = d <=> holder["ptable"] = d
    BY <1>5, Names DEF Elsewhere
  <2>2. current[d] \in Threads /\ d \in Threads /\ d \notin {x, y}
    BY <1>1, <1>5, Names DEF ControlInv, PlaceOK, Threads
  <2>3. /\ top'[current[d]] = top[current[d]] /\ low'[current[d]] = low[current[d]]
        /\ top'[d] = top[d] /\ low'[d] = low[d]
    BY <1>2, <1>5, <2>2 DEF Elsewhere
  <2>4. PlaceOK(d) /\ MaskOK(d)
    BY DEF ControlInv
  <2>5. PlaceOK(d)'
    BY <2>1, <2>3, <2>4 DEF PlaceOK
  <2>6. MaskOK(d)'
    BY <2>1, <2>3, <2>4 DEF MaskOK
  <2> QED BY <2>5, <2>6
<1> QED BY <1>3, <1>4, <1>5 DEF ControlInv

\* c stays on its stack; its flag becomes m, the frame on top p, the one below l.
Stays(c, p, l, m) ==
    /\ StackType'
    /\ top' = [top EXCEPT ![current[c]] = p] /\ low' = [low EXCEPT ![current[c]] = l]
    /\ cpu' = [cpu EXCEPT ![c] = m] /\ m \in Masks
    /\ spinning' \in {spinning, spinning \ {c}, spinning \cup {c}}
    /\ holder' \in [Locks -> CPUs \cup {NoCPU}]
    /\ \A d \in CPUs \ {c}, k \in Locks : holder'[k] = d <=> holder[k] = d
    /\ UNCHANGED <<current, saved>>
    /\ state' \in [Procs -> {"RUNNABLE", "RUNNING", "SLEEPING", "ZOMBIE"}]
    /\ \A t \in Procs : \/ state'[t] = state[t]
                        \/ state[t] = "SLEEPING" /\ state'[t] = "RUNNABLE"
    /\ ~panicked'

\* ThreadOK and PlaceOK, of the new frames.
FrameOK(x, p, l) ==
    IF x \in Procs
      THEN /\ IF l = "none" THEN p \in OpenPCs \cup {"sleep"}
                            ELSE l \in OpenPCs /\ p \in HandlerPCs \ {"yielded"}
      ELSE IF l = "none" THEN p = "idle" ELSE l = "idle" /\ p \in KeyPCs

LEMMA StayStep ==
    ASSUME ControlInv, NEW c \in CPUs, NEW p \in PCs, NEW l, NEW m, Stays(c, p, l, m),
           FrameOK(current[c], p, l),
           holder'["cons"] = c <=> p \in ConsPCs,
           holder'["ptable"] # c,
           c \in spinning' => p \in DOMAIN Wants,
           m.ncli = (IF p \in ConsPCs THEN 1 ELSE 0) + (IF c \in spinning' THEN 1 ELSE 0),
           m.ints <=> m.ncli = 0 /\ l = "none",
           m.ncli > 0 => (m.intena <=> l = "none")
    PROVE  ControlInv'
<1> PICK x \in Threads : x = current[c]
  BY TopFacts
<1>1. x \in Procs \cup {c} /\ (x \in Procs => state[x] = "RUNNING")
  BY DEF ControlInv, PlaceOK, RunningOK
<1>2. /\ top \in [Threads -> PCs] /\ DOMAIN low = Threads
      /\ p \notin PtablePCs /\ p # "dead"
  BY LowFacts, Names DEF ControlInv, FrameOK, low, PtablePCs, OpenPCs, HandlerPCs, KeyPCs
<1>3. /\ current'[c] = x /\ top'[x] = p /\ low'[x] = l /\ cpu'[c] = m
      /\ \A y \in Threads : y # x => top'[y] = top[y] /\ low'[y] = low[y]
  BY <1>2 DEF Stays, ControlInv, ControlType
<1>4. ControlType'
  BY DEF Stays, ControlInv, ControlType
<1>5. Elsewhere(c)
  BY <1>3 DEF Stays, Elsewhere, ControlInv, ControlType
<1>6. ASSUME x \in Procs PROVE ThreadOK(x)' /\ state'[x] = "RUNNING"
  <2>1. state'[x] = "RUNNING"
    BY <1>1, <1>6 DEF Stays
  <2>2. p \notin {"slept", "yielded"}
    BY <1>2 DEF PtablePCs
  <2> QED BY <1>3, <1>6, <2>1, <2>2 DEF ThreadOK, FrameOK, OpenPCs, HandlerPCs
<1>7. PlaceOK(c)'
  <2>1. CASE x = c
    BY <1>2, <1>3, <2>1, Names DEF PlaceOK, FrameOK
  <2>2. CASE x # c
    <3>1. low'[c] = "none" /\ top'[c] = "scan"
      BY <1>3, <2>2 DEF ControlInv, PlaceOK, Threads
    <3> QED BY <1>1, <1>2, <1>3, <2>2, <3>1 DEF PlaceOK
  <2> QED BY <2>1, <2>2
<1>8. MaskOK(c)'
  BY <1>2, <1>3 DEF MaskOK
<1>9. \A s \in {current[c], current'[c]} \cap Procs :
         ThreadOK(s)' /\ (state'[s] = "RUNNING" <=> s = current'[c])
  <2> SUFFICES ASSUME NEW s \in {current[c], current'[c]} \cap Procs
               PROVE  ThreadOK(s)' /\ (state'[s] = "RUNNING" <=> s = current'[c])
    OBVIOUS
  <2>1. s = x
    BY <1>3
  <2> QED BY <1>3, <1>6, <2>1
<1> QED BY <1>3, <1>4, <1>5, <1>7, <1>8, <1>9, LocalStep DEF Stays

\* What is done under a lock that is taken and released in one step.
LEMMA SectionFacts ==
    ASSUME ControlInv, NEW c \in CPUs, top[current[c]] \in DOMAIN Wants,
           NEW k, Section(c, k), NEW m, m = Popcli(Masked(c))
    PROVE  /\ m \in Masks /\ cpu' = [cpu EXCEPT ![c] = m]
           /\ m.ncli = IF top[current[c]] \in ConsPCs THEN 1 ELSE 0
           /\ m.ints <=> m.ncli = 0 /\ low[current[c]] = "none"
           /\ m.intena <=> low[current[c]] = "none"
           /\ UNCHANGED holder /\ spinning' = spinning \ {c} /\ ~panicked'
<1> DEFINE n == Masked(c)
<1>1. /\ n \in [ints : BOOLEAN, ncli : Nat, intena : BOOLEAN] /\ ~n.ints
      /\ n.ncli = IF top[current[c]] \in ConsPCs THEN 2 ELSE 1
      /\ n.intena <=> low[current[c]] = "none"
  BY MaskedFacts DEF Masks
<1>2. cpu' = [cpu EXCEPT ![c] = m] /\ UNCHANGED holder /\ spinning' = spinning \ {c}
  BY DEF Section, Xchg
<1>3. ~panicked'
  BY <1>1 DEF Section, PopcliPanics, ControlInv
<1> HIDE DEF n
<1>4. /\ m \in Masks /\ m.ncli = n.ncli - 1 /\ m.intena = n.intena
      /\ m.ints <=> n.ncli = 1 /\ n.intena
  BY <1>1, PopcliFacts DEF n, Masks
<1> QED BY <1>1, <1>2, <1>3, <1>4

\* Where a processor can be.
LEMMA Here ==
    ASSUME ControlInv, NEW c \in CPUs, NEW x, x = current[c]
    PROVE  /\ x \in Threads /\ x \in Procs \cup {c} /\ top[x] = Top(c) /\ StackType
           /\ top \in [Threads -> PCs] /\ low \in [Threads -> PCs \cup {"none"}]
           /\ IF x \in Procs
                THEN IF low[x] = "none"
                       THEN top[x] \in OpenPCs \cup {"sleep", "slept", "forkret"}
                       ELSE low[x] \in OpenPCs /\ top[x] \in HandlerPCs
                ELSE IF low[x] = "none" THEN top[x] \in {"idle", "scan"}
                                        ELSE low[x] = "idle" /\ top[x] \in KeyPCs
           /\ c \in spinning => top[x] \in DOMAIN Wants
           /\ cpu[c] \in Masks
<1>1. x \in Threads /\ top[x] = Top(c) /\ x \in Procs \cup {c}
  BY TopFacts DEF ControlInv, PlaceOK
<1>2. x \in Procs => state[x] = "RUNNING" /\ ThreadOK(x)
  BY DEF ControlInv, RunningOK
<1>3. PlaceOK(c) /\ StackType /\ cpu[c] \in Masks
  BY DEF ControlInv, ControlType
<1> QED BY <1>1, <1>2, <1>3, LowFacts, Names DEF ThreadOK, PlaceOK

\* Locks and flag of a processor that a step leaves as they are.
LEMMA Undisturbed ==
    ASSUME ControlInv, NEW c \in CPUs, NEW p \in PCs, NEW l,
           StackType', top' = [top EXCEPT ![current[c]] = p],
           low' = [low EXCEPT ![current[c]] = l],
           UNCHANGED <<spinVars, current, saved, state>>,
           FrameOK(current[c], p, l), l = "none" <=> low[current[c]] = "none",
           top[current[c]] \notin PtablePCs,
           p \in ConsPCs <=> top[current[c]] \in ConsPCs,
           c \in spinning => p \in DOMAIN Wants
    PROVE  ControlInv'
<1>1. PlaceOK(c) /\ MaskOK(c) /\ cpu[c] \in Masks
  BY DEF ControlInv, ControlType
<1>2. Stays(c, p, l, cpu[c])
  BY <1>1 DEF Stays, ControlInv, ControlType, spinVars
<1>3. /\ holder'["cons"] = c <=> p \in ConsPCs
      /\ holder'["ptable"] # c
  BY <1>1 DEF PlaceOK, spinVars
<1> DEFINE m == cpu[c]
<1>4. /\ m.ncli = (IF p \in ConsPCs THEN 1 ELSE 0) + (IF c \in spinning' THEN 1 ELSE 0)
      /\ m.ints <=> m.ncli = 0 /\ l = "none"
      /\ m.ncli > 0 => (m.intena <=> l = "none")
      /\ c \in spinning' => p \in DOMAIN Wants
  BY <1>1 DEF MaskOK, spinVars
<1> HIDE DEF m
<1> QED BY <1>2, <1>3, <1>4, StayStep DEF m

LEMMA SectionStep ==
    ASSUME ControlInv, NEW c \in CPUs, NEW k, Section(c, k), NEW p \in PCs, Goto(c, p),
           top[current[c]] \in DOMAIN Wants, FrameOK(current[c], p, low[current[c]]),
           p \in ConsPCs <=> top[current[c]] \in ConsPCs,
           UNCHANGED <<current, saved>>,
           state' \in [Procs -> {"RUNNABLE", "RUNNING", "SLEEPING", "ZOMBIE"}],
           \A t \in Procs : \/ state'[t] = state[t]
                            \/ state[t] = "SLEEPING" /\ state'[t] = "RUNNABLE"
    PROVE  ControlInv'
<1> PICK x : x = current[c]
  OBVIOUS
<1> PICK m : m = Popcli(Masked(c))
  OBVIOUS
<1> PICK l : l = low[x]
  OBVIOUS
<1>1. /\ x \in Threads /\ StackType /\ low \in [Threads -> PCs \cup {"none"}]
  BY Here
<1>2. StackType' /\ top' = [top EXCEPT ![x] = p] /\ low' = low
  BY <1>1, GotoTop DEF Goto
<1>3. low' = [low EXCEPT ![x] = l]
  BY <1>1, <1>2
<1>4. /\ m \in Masks /\ cpu' = [cpu EXCEPT ![c] = m]
      /\ m.ncli = IF p \in ConsPCs THEN 1 ELSE 0
      /\ m.ints <=> m.ncli = 0 /\ l = "none"
      /\ m.intena <=> l = "none"
      /\ UNCHANGED holder /\ spinning' = spinning \ {c} /\ ~panicked'
  BY SectionFacts
<1>5. Stays(c, p, l, m)
  BY <1>2, <1>3, <1>4 DEF Stays, ControlInv, ControlType
<1>6. holder'["cons"] = c <=> p \in ConsPCs
  BY <1>4 DEF ControlInv, PlaceOK
<1>7. holder'["ptable"] # c
  BY <1>4 DEF ControlInv, PlaceOK, PtablePCs, Wants
<1>8. m.ncli = (IF p \in ConsPCs THEN 1 ELSE 0) + (IF c \in spinning' THEN 1 ELSE 0)
  BY <1>4
<1>9. c \notin spinning'
  BY <1>4
<1> QED BY <1>4, <1>5, <1>6, <1>7, <1>8, <1>9, StayStep

LEMMA EnterStep ==
    ASSUME ControlInv, NEW c \in CPUs, Enter(c, "cons"), NEW p \in ConsPCs, Goto(c, p),
           top[current[c]] \in DOMAIN Wants \ ConsPCs,
           FrameOK(current[c], p, low[current[c]]),
           UNCHANGED <<current, saved, state>>
    PROVE  ControlInv'
<1> PICK x : x = current[c]
  OBVIOUS
<1> PICK m : m = Masked(c)
  OBVIOUS
<1> PICK l : l = low[x]
  OBVIOUS
<1>1. /\ x \in Threads /\ StackType /\ low \in [Threads -> PCs \cup {"none"}] /\ p \in PCs
  BY Here DEF PCs, Wants, ConsPCs
<1>2. StackType' /\ top' = [top EXCEPT ![x] = p] /\ low' = low
  BY <1>1, GotoTop DEF Goto
<1>3. low' = [low EXCEPT ![x] = l]
  BY <1>1, <1>2
<1>4. /\ m \in Masks /\ ~m.ints /\ m.ncli = 1 /\ (m.intena <=> l = "none")
  BY MaskedFacts
<1>5. /\ cpu' = [cpu EXCEPT ![c] = m] /\ holder' = [holder EXCEPT !["cons"] = c]
      /\ holder["cons"] = NoCPU /\ spinning' = spinning \ {c} /\ ~panicked'
      /\ holder \in [Locks -> CPUs \cup {NoCPU}] /\ "cons" \in Locks
  BY Names DEF Enter, Xchg, ControlInv, ControlType
<1>6. Stays(c, p, l, m)
  BY <1>2, <1>3, <1>4, <1>5, Names DEF Stays, ControlInv, ControlType
<1>7. holder'["cons"] = c /\ holder'["ptable"] = holder["ptable"]
  BY <1>5, Names
<1>8. holder'["ptable"] # c
  BY <1>7 DEF ControlInv, PlaceOK, PtablePCs, Wants
<1>9. c \notin spinning' /\ m.ncli = 1 + 0
  BY <1>4, <1>5
<1> QED BY <1>1, <1>4, <1>6, <1>7, <1>8, <1>9, StayStep

LEMMA WriteControl == ASSUME ControlInv, NEW c \in CPUs, Write(c) PROVE ControlInv'
<1>1. /\ top[current[c]] = "write" /\ Section(c, "cons") /\ Goto(c, "ret")
      /\ UNCHANGED <<current, saved>>
  BY Here DEF Write, At, procVars
<1>2. FrameOK(current[c], "ret", low[current[c]])
  BY <1>1, Here DEF FrameOK, OpenPCs, HandlerPCs, KeyPCs
<1>3. /\ state' \in [Procs -> {"RUNNABLE", "RUNNING", "SLEEPING", "ZOMBIE"}]
      /\ \A t \in Procs : \/ state'[t] = state[t]
                          \/ state[t] = "SLEEPING" /\ state'[t] = "RUNNABLE"
  BY DEF Write, procVars, ControlInv, ControlType
<1>4. "ret" \in PCs /\ "write" \in DOMAIN Wants
  BY DEF PCs, Wants
<1>5. "ret" \in ConsPCs <=> "write" \in ConsPCs
  BY DEF ConsPCs
<1> QED BY <1>1, <1>2, <1>3, <1>4, <1>5, SectionStep

LEMMA ReadReturnsControl == ASSUME ControlInv, NEW c \in CPUs, ReadReturns(c) PROVE ControlInv'
<1>1. /\ top[current[c]] = "read" /\ Section(c, "cons") /\ Goto(c, "ret")
      /\ UNCHANGED <<current, saved>>
  BY Here DEF ReadReturns, InRead, OnProc, At, procVars
<1>2. FrameOK(current[c], "ret", low[current[c]])
  BY <1>1, Here DEF FrameOK, OpenPCs, HandlerPCs, KeyPCs
<1>3. /\ state' \in [Procs -> {"RUNNABLE", "RUNNING", "SLEEPING", "ZOMBIE"}]
      /\ \A t \in Procs : \/ state'[t] = state[t]
                          \/ state[t] = "SLEEPING" /\ state'[t] = "RUNNABLE"
  BY DEF ReadReturns, procVars, ControlInv, ControlType
<1>4. "ret" \in PCs /\ "read" \in DOMAIN Wants
  BY DEF PCs, Wants
<1>5. "ret" \in ConsPCs <=> "read" \in ConsPCs
  BY DEF ConsPCs
<1> QED BY <1>1, <1>2, <1>3, <1>4, <1>5, SectionStep

LEMMA ReadFailsControl == ASSUME ControlInv, NEW c \in CPUs, ReadFails(c) PROVE ControlInv'
<1>1. /\ top[current[c]] = "read" /\ Section(c, "cons") /\ Goto(c, "ret")
      /\ UNCHANGED <<current, saved>>
  BY Here DEF ReadFails, InRead, OnProc, At, procVars
<1>2. FrameOK(current[c], "ret", low[current[c]])
  BY <1>1, Here DEF FrameOK, OpenPCs, HandlerPCs, KeyPCs
<1>3. /\ state' \in [Procs -> {"RUNNABLE", "RUNNING", "SLEEPING", "ZOMBIE"}]
      /\ \A t \in Procs : \/ state'[t] = state[t]
                          \/ state[t] = "SLEEPING" /\ state'[t] = "RUNNABLE"
  BY DEF ReadFails, procVars, ControlInv, ControlType
<1>4. "ret" \in PCs /\ "read" \in DOMAIN Wants
  BY DEF PCs, Wants
<1>5. "ret" \in ConsPCs <=> "read" \in ConsPCs
  BY DEF ConsPCs
<1> QED BY <1>1, <1>2, <1>3, <1>4, <1>5, SectionStep

LEMMA WakeupControl == ASSUME ControlInv, NEW c \in CPUs, Wakeup(c) PROVE ControlInv'
<1>1. /\ top[current[c]] = "wakeup" /\ Section(c, "ptable") /\ Goto(c, "getc")
      /\ UNCHANGED <<current, saved>>
  BY Here DEF Wakeup, At, procVars
<1>2. FrameOK(current[c], "getc", low[current[c]])
  BY <1>1, Here DEF FrameOK, OpenPCs, HandlerPCs, KeyPCs
<1>3. /\ state' \in [Procs -> {"RUNNABLE", "RUNNING", "SLEEPING", "ZOMBIE"}]
      /\ \A t \in Procs : \/ state'[t] = state[t]
                          \/ state[t] = "SLEEPING" /\ state'[t] = "RUNNABLE"
  BY DEF Wakeup, WakeReaders, ControlInv, ControlType
<1>4. "getc" \in PCs /\ "wakeup" \in DOMAIN Wants
  BY DEF PCs, Wants
<1>5. "getc" \in ConsPCs <=> "wakeup" \in ConsPCs
  BY DEF ConsPCs
<1> QED BY <1>1, <1>2, <1>3, <1>4, <1>5, SectionStep

LEMMA DumpControl == ASSUME ControlInv, NEW c \in CPUs, Dump(c) PROVE ControlInv'
<1>1. /\ top[current[c]] = "dump" /\ Section(c, "cons") /\ Goto(c, "ret")
      /\ UNCHANGED <<current, saved>>
  BY Here DEF Dump, At, procVars
<1>2. FrameOK(current[c], "ret", low[current[c]])
  BY <1>1, Here DEF FrameOK, OpenPCs, HandlerPCs, KeyPCs
<1>3. /\ state' \in [Procs -> {"RUNNABLE", "RUNNING", "SLEEPING", "ZOMBIE"}]
      /\ \A t \in Procs : \/ state'[t] = state[t]
                          \/ state[t] = "SLEEPING" /\ state'[t] = "RUNNABLE"
  BY DEF Dump, procVars, ControlInv, ControlType
<1>4. "ret" \in PCs /\ "dump" \in DOMAIN Wants
  BY DEF PCs, Wants
<1>5. "ret" \in ConsPCs <=> "dump" \in ConsPCs
  BY DEF ConsPCs
<1> QED BY <1>1, <1>2, <1>3, <1>4, <1>5, SectionStep

LEMMA ReadWaitsControl == ASSUME ControlInv, NEW c \in CPUs, ReadWaits(c) PROVE ControlInv'
<1>1. /\ top[current[c]] = "read" /\ Enter(c, "cons") /\ Goto(c, "sleep")
      /\ UNCHANGED <<current, saved, state>>
  BY Here DEF ReadWaits, InRead, OnProc, At, procVars
<1>2. FrameOK(current[c], "sleep", low[current[c]])
  BY <1>1, Here DEF ReadWaits, InRead, OnProc, FrameOK, OpenPCs, HandlerPCs, KeyPCs
<1>3. "sleep" \in ConsPCs /\ "read" \in DOMAIN Wants \ ConsPCs
  BY DEF ConsPCs, Wants
<1> QED BY <1>1, <1>2, <1>3, EnterStep

LEMMA StartIntrControl == ASSUME ControlInv, NEW c \in CPUs, StartIntr(c) PROVE ControlInv'
<1>1. /\ top[current[c]] = "kbd" /\ Enter(c, "cons") /\ Goto(c, "getc")
      /\ UNCHANGED <<current, saved, state>>
  BY Here DEF StartIntr, At, procVars
<1>2. FrameOK(current[c], "getc", low[current[c]])
  BY <1>1, Here DEF StartIntr, FrameOK, OpenPCs, HandlerPCs, KeyPCs
<1>3. "getc" \in ConsPCs /\ "kbd" \in DOMAIN Wants \ ConsPCs
  BY DEF ConsPCs, Wants
<1> QED BY <1>1, <1>2, <1>3, EnterStep

LEMMA CallControl ==
    ASSUME ControlInv, NEW c \in CPUs, NEW p \in {"read", "write"}, Call(c, p)
    PROVE  ControlInv'
<1> PICK x : x = current[c]
  OBVIOUS
<1> PICK q : q = IF x \in killed THEN "exit" ELSE p
  OBVIOUS
<1>1. /\ x \in Threads /\ x \in Procs /\ top[x] = "user" /\ StackType /\ Goto(c, q)
      /\ q \in {"exit", "read", "write"} /\ q \in PCs
      /\ UNCHANGED <<spinVars, current, saved, state>>
  BY Here DEF Call, At, OnProc, procVars, PCs, Wants
<1>2. low[x] = "none" /\ low \in [Threads -> PCs \cup {"none"}] /\ c \notin spinning
  BY <1>1, Here DEF HandlerPCs, KeyPCs, Wants
<1>3. StackType' /\ top' = [top EXCEPT ![x] = q] /\ low' = low
  BY <1>1, GotoTop DEF Goto
<1>4. low' = [low EXCEPT ![x] = "none"]
  BY <1>1, <1>2, <1>3
<1>5. FrameOK(x, q, "none")
  BY <1>1 DEF FrameOK, OpenPCs
<1>6. "user" \notin PtablePCs /\ "user" \notin ConsPCs /\ q \notin ConsPCs
  BY <1>1 DEF PtablePCs, ConsPCs
<1> QED BY <1>1, <1>2, <1>3, <1>4, <1>5, <1>6, Undisturbed

LEMMA KeyControl == ASSUME ControlInv, NEW c \in CPUs, Key(c) PROVE ControlInv'
<1> PICK x : x = current[c]
  OBVIOUS
<1>1. /\ x \in Threads /\ top[x] = "getc" /\ StackType /\ top \in [Threads -> PCs]
      /\ low \in [Threads -> PCs \cup {"none"}] /\ c \notin spinning
      /\ UNCHANGED <<spinVars, current, saved, state>>
  BY Here DEF Key, List, EraseLine, EraseChar, EnterChar, Getc, At, procVars, Wants
<1>2. PICK q \in {"getc", "wakeup"} :
         \/ q = "getc" /\ UNCHANGED stack
         \/ Goto(c, q)
  BY DEF Key, List, EraseLine, EraseChar, EnterChar
<1>3. StackType' /\ top' = [top EXCEPT ![x] = q] /\ low' = low
  <2>1. q \in PCs
    BY DEF PCs, Wants
  <2>2. CASE Goto(c, q)
    BY <1>1, <2>1, <2>2, GotoTop DEF Goto
  <2>3. CASE q = "getc" /\ UNCHANGED stack
    BY <1>1, <2>3 DEF StackType, top, low
  <2> QED BY <1>2, <2>2, <2>3
<1>4. low' = [low EXCEPT ![x] = low[x]]
  BY <1>1, <1>3
<1>5. FrameOK(x, q, low[x])
  BY <1>1, Here DEF FrameOK, OpenPCs, HandlerPCs, KeyPCs
<1>6. {"getc", q} \cap PtablePCs = {} /\ {"getc", q} \subseteq ConsPCs /\ q \in PCs
  BY DEF PtablePCs, ConsPCs, PCs, Wants
<1> QED BY <1>1, <1>3, <1>4, <1>5, <1>6, Undisturbed

LEMMA WaitingControl == ASSUME ControlInv, NEW c \in CPUs, Waiting(c) PROVE ControlInv'
<1> PICK x : x = current[c]
  OBVIOUS
<1> PICK p : p = top[x]
  OBVIOUS
<1> PICK l : l = low[x]
  OBVIOUS
<1> PICK m : m = Masked(c)
  OBVIOUS
<1>1. /\ x \in Threads /\ StackType /\ p = Top(c) /\ p \in DOMAIN Wants /\ p \in PCs
      /\ top \in [Threads -> PCs] /\ low \in [Threads -> PCs \cup {"none"}]
      /\ FrameOK(x, p, l)
  BY Here DEF Waiting, FrameOK, PCs, Wants
<1>2. StackType' /\ top' = [top EXCEPT ![x] = p] /\ low' = [low EXCEPT ![x] = l]
  <2>1. top' = top /\ low' = low
    BY DEF Waiting, top, low
  <2> QED BY <1>1, <2>1 DEF Waiting, StackType
<1>3. holder[Wants[p]] # c
  <2>1. \A q \in DOMAIN Wants : \/ Wants[q] = "cons" /\ q \notin ConsPCs
                                \/ Wants[q] = "ptable" /\ q \notin PtablePCs
    BY DEF Wants, ConsPCs, PtablePCs
  <2>2. \/ Wants[p] = "cons" /\ p \notin ConsPCs
        \/ Wants[p] = "ptable" /\ p \notin PtablePCs
    BY <1>1, <2>1
  <2>3. /\ holder["cons"] = c <=> p \in ConsPCs
        /\ holder["ptable"] = c <=> p \in PtablePCs
    BY DEF ControlInv, PlaceOK
  <2> QED BY <2>2, <2>3
<1>4. /\ cpu' = [cpu EXCEPT ![c] = m] /\ spinning' = spinning \cup {c}
      /\ UNCHANGED holder /\ ~panicked' /\ UNCHANGED <<current, saved, state>>
  BY <1>1, <1>3 DEF Waiting, Spin, procVars, ControlInv
<1>5. /\ m \in Masks /\ ~m.ints /\ (m.intena <=> l = "none")
      /\ m.ncli = IF p \in ConsPCs THEN 2 ELSE 1
  BY <1>1, MaskedFacts
<1>6. Stays(c, p, l, m)
  BY <1>2, <1>4, <1>5 DEF Stays, ControlInv, ControlType
<1>7. (holder'["cons"] = c <=> p \in ConsPCs) /\ holder'["ptable"] # c
  BY <1>1, <1>4 DEF ControlInv, PlaceOK, PtablePCs, Wants
<1>8. m.ncli = (IF p \in ConsPCs THEN 1 ELSE 0) + (IF c \in spinning' THEN 1 ELSE 0)
  BY <1>4, <1>5
<1> QED BY <1>1, <1>5, <1>6, <1>7, <1>8, StayStep

\* A lock is given up; m is what the flag is then.
LEMMA ReleaseStep ==
    ASSUME ControlInv, NEW c \in CPUs, NEW p \in PCs, Goto(c, p), NEW m \in Masks,
           NEW k \in Locks, holder[k] = c, holder' = [holder EXCEPT ![k] = NoCPU],
           cpu' = [cpu EXCEPT ![c] = m], m.ncli = 0,
           m.ints <=> low[current[c]] = "none",
           top[current[c]] \notin DOMAIN Wants, p \notin ConsPCs,
           FrameOK(current[c], p, low[current[c]]), ~panicked',
           UNCHANGED <<spinning, current, saved, state>>
    PROVE  ControlInv'
<1> PICK x : x = current[c]
  OBVIOUS
<1> PICK l : l = low[x]
  OBVIOUS
<1>1. /\ x \in Threads /\ StackType /\ low \in [Threads -> PCs \cup {"none"}]
      /\ c \notin spinning
  BY Here
<1>2. StackType' /\ top' = [top EXCEPT ![x] = p] /\ low' = low
  BY <1>1, GotoTop DEF Goto
<1>3. low' = [low EXCEPT ![x] = l]
  BY <1>1, <1>2
<1>4. Stays(c, p, l, m)
  BY <1>2, <1>3, Names DEF Stays, ControlInv, ControlType
<1>5. holder'["cons"] # c /\ holder'["ptable"] # c
  <2>1. ~(holder["cons"] = c /\ holder["ptable"] = c)
    BY DEF ControlInv, PlaceOK, ConsPCs, PtablePCs
  <2> QED BY <2>1, Names DEF ControlInv, ControlType
<1>6. c \notin spinning' /\ m.ncli = 0 + 0
  BY <1>1
<1> QED BY <1>4, <1>5, <1>6, StayStep

LEMMA IntrEndsControl == ASSUME ControlInv, NEW c \in CPUs, IntrEnds(c) PROVE ControlInv'
<1> PICK x : x = current[c]
  OBVIOUS
<1> PICK q \in {"dump", "ret"} : Goto(c, q)
  BY DEF IntrEnds
<1>1. /\ top[x] = "getc" /\ cpu[c] \in Masks /\ c \notin spinning
      /\ low[x] # "none" /\ FrameOK(x, q, low[x])
      /\ Release(c, "cons", cpu[c])
      /\ UNCHANGED <<current, saved, state>>
  BY Here DEF IntrEnds, At, procVars, FrameOK, OpenPCs, HandlerPCs, KeyPCs, Wants
<1>2. holder["cons"] = c /\ cpu[c].ncli = 1 /\ ~cpu[c].ints /\ ~cpu[c].intena
  BY <1>1 DEF ControlInv, PlaceOK, MaskOK, ConsPCs, PtablePCs
<1> PICK m : m = Popcli(cpu[c])
  OBVIOUS
<1>3. m \in Masks /\ m.ncli = 0 /\ ~m.ints
  BY <1>1, <1>2, PopcliFacts
<1>4. /\ holder' = [holder EXCEPT !["cons"] = NoCPU] /\ cpu' = [cpu EXCEPT ![c] = m]
      /\ UNCHANGED spinning /\ ~panicked'
  <2>1. ~PopcliPanics(cpu[c])
    BY <1>2 DEF PopcliPanics
  <2> QED BY <1>1, <1>2, <2>1 DEF Release, ControlInv
<1>5. "getc" \notin DOMAIN Wants /\ q \notin ConsPCs /\ q \in PCs /\ "cons" \in Locks
  BY Names DEF Wants, ConsPCs, PCs
<1> QED BY <1>1, <1>2, <1>3, <1>4, <1>5, ReleaseStep

LEMMA ResumeControl ==
    ASSUME ControlInv, NEW c \in CPUs, YieldReturns(c) \/ SleepReturns(c)
    PROVE  ControlInv'
<1> PICK x : x = current[c]
  OBVIOUS
<1> PICK p, q : /\ <<p, q>> \in {<<"yielded", "ret">>, <<"slept", "read">>}
                /\ Resume(c, p, q)
  <2>1. CASE YieldReturns(c)
    BY <2>1 DEF YieldReturns
  <2>2. CASE SleepReturns(c)
    BY <2>2 DEF SleepReturns
  <2> QED BY <2>1, <2>2
<1>1. /\ x \in Procs /\ top[x] = p /\ cpu[c] \in Masks /\ Goto(c, q)
      /\ Release(c, "ptable", OfTheThread(c, x))
      /\ UNCHANGED <<current, saved, state>>
  BY Here DEF Resume, OnProc, At, procVars
<1>2. p \in PtablePCs /\ p \notin DOMAIN Wants /\ q \notin ConsPCs /\ q \in PCs /\ "ptable" \in Locks
  BY Names DEF Wants, ConsPCs, PtablePCs, PCs
<1>3. /\ holder["ptable"] = c /\ ~cpu[c].ints /\ c \notin spinning /\ cpu[c].ncli = 1
  BY <1>1, <1>2, Here DEF ControlInv, PlaceOK, MaskOK, ConsPCs
<1>4. saved[x] \in BOOLEAN /\ (saved[x] <=> low[x] = "none")
  BY <1>1 DEF ControlInv, ControlType, ThreadOK
<1>5. FrameOK(x, q, low[x])
  BY <1>1, Here DEF FrameOK, OpenPCs, HandlerPCs, KeyPCs
<1> PICK n : n = OfTheThread(c, x)
  OBVIOUS
<1>6. n = [cpu[c] EXCEPT !.intena = saved[x]]
  BY DEF OfTheThread
<1>7. n \in Masks /\ n.ncli = 1 /\ ~n.ints /\ n.intena = saved[x]
  BY <1>1, <1>3, <1>4, <1>6 DEF Masks
<1> PICK m : m = Popcli(n)
  OBVIOUS
<1>8. m \in Masks /\ m.ncli = 0 /\ (m.ints <=> saved[x])
  BY <1>7, PopcliFacts
<1>9. /\ holder' = [holder EXCEPT !["ptable"] = NoCPU] /\ cpu' = [cpu EXCEPT ![c] = m]
      /\ UNCHANGED spinning /\ ~panicked'
  <2>1. ~PopcliPanics(n)
    BY <1>7 DEF PopcliPanics
  <2> QED BY <1>1, <1>3, <2>1 DEF Release, ControlInv
<1> QED BY <1>1, <1>2, <1>3, <1>4, <1>5, <1>8, <1>9, ReleaseStep

LEMMA StiFacts ==
    ASSUME NEW n \in Masks
    PROVE  /\ Sti(n) \in Masks /\ Sti(n).ints
           /\ Sti(n).ncli = n.ncli /\ Sti(n).intena = n.intena
<1>1. n \in [ints : BOOLEAN, ncli : Nat, intena : BOOLEAN]
  BY DEF Masks
<1>2. Sti(n) = [n EXCEPT !.ints = TRUE]
  BY DEF Sti
<1> QED BY <1>1, <1>2 DEF Masks

LEMMA EndScanControl ==
    ASSUME ControlInv, NEW c \in CPUs, EndScan(c) \/ Forkret(c)
    PROVE  ControlInv'
<1> PICK x : x = current[c]
  OBVIOUS
<1> PICK p, q : /\ <<p, q>> \in {<<"scan", "idle">>, <<"forkret", "user">>}
                /\ p = "forkret" => x \in Procs
                /\ At(c, p) /\ Goto(c, q)
  <2>1. CASE EndScan(c)
    BY <2>1 DEF EndScan
  <2>2. CASE Forkret(c)
    BY <2>2 DEF Forkret, OnProc
  <2> QED BY <2>1, <2>2
<1>1. /\ top[x] = p /\ cpu[c] \in Masks
      /\ holder' = [holder EXCEPT !["ptable"] = NoCPU]
      /\ cpu' = [cpu EXCEPT ![c] = Sti(Popcli(@))]
      /\ ~panicked' /\ UNCHANGED <<spinning, current, saved, state>>
  BY Here DEF EndScan, Forkret, At, procVars, ControlInv
<1>2. p \in PtablePCs /\ p \notin DOMAIN Wants /\ q \notin ConsPCs /\ q \in PCs /\ "ptable" \in Locks
  BY Names DEF Wants, ConsPCs, PtablePCs, PCs
<1>3. holder["ptable"] = c /\ cpu[c].ncli = 1
  BY <1>1, <1>2, Here DEF ControlInv, PlaceOK, MaskOK, ConsPCs
<1>4. low[x] = "none" /\ FrameOK(x, q, low[x])
  BY <1>1, Here DEF FrameOK, OpenPCs, HandlerPCs, KeyPCs
<1> PICK n : n = Popcli(cpu[c])
  OBVIOUS
<1> PICK m : m = Sti(n)
  OBVIOUS
<1>5. m \in Masks /\ m.ncli = 0 /\ m.ints
  <2>1. n \in Masks /\ n.ncli = 0
    BY <1>1, <1>3, PopcliFacts
  <2> QED BY <2>1, StiFacts
<1>6. cpu' = [cpu EXCEPT ![c] = m]
  BY <1>1
<1> QED BY <1>1, <1>2, <1>3, <1>4, <1>5, <1>6, ReleaseStep

LEMMA NothingToRunControl ==
    ASSUME ControlInv, NEW c \in CPUs, NothingToRun(c)
    PROVE  ControlInv'
<1> PICK x : x = current[c]
  OBVIOUS
<1>1. /\ x \in Threads /\ StackType /\ top \in [Threads -> PCs] /\ top[x] = "idle"
      /\ low \in [Threads -> PCs \cup {"none"}]
      /\ low[x] = "none" /\ FrameOK(x, "idle", "none")
  BY Here DEF NothingToRun, At, FrameOK, OpenPCs, HandlerPCs, KeyPCs
<1> PICK n : n = Popcli(Masked(c))
  OBVIOUS
<1> PICK m : m = Sti(n)
  OBVIOUS
<1>2. /\ "idle" \in DOMAIN Wants /\ "idle" \notin ConsPCs /\ "idle" \notin PtablePCs
      /\ "idle" \in PCs
  BY DEF Wants, ConsPCs, PtablePCs, PCs
<1>3. m \in Masks /\ m.ncli = 0 /\ m.ints
  <2>1. Masked(c) \in Masks /\ Masked(c).ncli = 1
    BY <1>1, <1>2, MaskedFacts
  <2>2. n \in Masks /\ n.ncli = 0
    BY <2>1, PopcliFacts
  <2> QED BY <2>2, StiFacts
<1>4. /\ cpu' = [cpu EXCEPT ![c] = m] /\ spinning' = spinning \ {c} /\ ~panicked'
      /\ UNCHANGED <<holder, stack, current, saved, state>>
  BY DEF NothingToRun, Xchg, procVars, ControlInv
<1>5. StackType' /\ top' = top /\ low' = low
  BY <1>1, <1>4 DEF StackType, top, low
<1>6. top' = [top EXCEPT ![x] = "idle"] /\ low' = [low EXCEPT ![x] = "none"]
  BY <1>1, <1>5
<1>7. Stays(c, "idle", "none", m)
  BY <1>3, <1>4, <1>5, <1>6 DEF Stays, ControlInv, ControlType
<1>8. holder'["cons"] # c /\ holder'["ptable"] # c
  BY <1>1, <1>2, <1>4 DEF ControlInv, PlaceOK
<1>9. m.ncli = 0 + 0 /\ c \notin spinning'
  BY <1>3, <1>4
<1> QED BY <1>1, <1>2, <1>3, <1>7, <1>8, <1>9, StayStep

LEMMA InterruptControl ==
    ASSUME ControlInv, NEW c \in CPUs, (Keyboard /\ c = BootCPU) \/ Timer(c)
    PROVE  ControlInv'
<1> PICK x : x = current[c]
  OBVIOUS
<1> PICK p \in {"kbd", "exit", "yield"} : Interrupt(c, p) /\ (p # "kbd" => x \in Procs)
  BY DEF Keyboard, Timer, OnProc
<1>1. /\ x \in Threads /\ StackType /\ cpu[c] \in Masks /\ cpu[c].ints
      /\ UNCHANGED <<holder, spinning, current, saved, state>> /\ ~panicked'
  BY Here DEF Interrupt, procVars, ControlInv
<1>2. cpu[c].ncli = 0 /\ low[x] = "none" /\ c \notin spinning
      /\ top[x] \notin ConsPCs \cup PtablePCs
  <2>1. cpu[c].ncli = 0 /\ low[x] = "none"
    BY <1>1 DEF ControlInv, MaskOK
  <2> QED BY <2>1 DEF ControlInv, MaskOK
<1>3. FrameOK(x, p, top[x]) /\ top[x] # "none" /\ p \in PCs
  BY <1>1, <1>2, Here DEF FrameOK, OpenPCs, HandlerPCs, KeyPCs, ConsPCs, PtablePCs, PCs, Wants
<1> PICK l : l = top[x]
  OBVIOUS
<1>4. StackType' /\ top' = [top EXCEPT ![x] = p] /\ low' = [low EXCEPT ![x] = l]
  BY <1>1, <1>2, <1>3, PushTop DEF Interrupt
<1> PICK m : m = [cpu[c] EXCEPT !.ints = FALSE]
  OBVIOUS
<1>5. m \in Masks /\ m.ncli = 0 /\ ~m.ints
  BY <1>1, <1>2 DEF Masks
<1>6. cpu' = [cpu EXCEPT ![c] = m]
  BY DEF Interrupt
<1>7. Stays(c, p, l, m)
  BY <1>1, <1>4, <1>5, <1>6 DEF Stays, ControlInv, ControlType
<1>8. holder'["cons"] # c /\ holder'["ptable"] # c /\ p \notin ConsPCs
  BY <1>1, <1>2 DEF ControlInv, PlaceOK, ConsPCs
<1>9. /\ m.ncli = 0 + 0 /\ c \notin spinning' /\ ~(m.ncli > 0)
      /\ m.ints <=> m.ncli = 0 /\ l = "none"
      /\ FrameOK(x, p, l)
  BY <1>1, <1>2, <1>3, <1>5
<1>10. FrameOK(current[c], p, l)
  BY <1>9
<1>11. holder'["cons"] = c <=> p \in ConsPCs
  BY <1>8
<1>12. m.ncli = (IF p \in ConsPCs THEN 1 ELSE 0) + (IF c \in spinning' THEN 1 ELSE 0)
  BY <1>8, <1>9
<1>13. m.ints <=> m.ncli = 0 /\ l = "none"
  BY <1>9
<1>14. m.ncli > 0 => (m.intena <=> l = "none")
  BY <1>9
<1>15. c \in spinning' => p \in DOMAIN Wants
  BY <1>9
<1>16. p \in PCs
  BY <1>3
<1> QED BY <1>7, <1>8, <1>10, <1>11, <1>12, <1>13, <1>14, <1>15, <1>16, StayStep

LEMMA TrapEndsControl == ASSUME ControlInv, NEW c \in CPUs, TrapEnds(c) PROVE ControlInv'
<1> PICK x : x = current[c]
  OBVIOUS
<1>1. /\ x \in Threads /\ StackType /\ cpu[c] \in Masks /\ top[x] = "ret"
      /\ low \in [Threads -> PCs \cup {"none"}]
      /\ UNCHANGED <<holder, spinning, current, saved, state>> /\ ~panicked'
      /\ UNCHANGED panicked
  BY Here DEF TrapEnds, At, procVars, ControlInv
<1>2. "ret" \notin DOMAIN Wants /\ "ret" \notin ConsPCs \cup PtablePCs
  BY DEF Wants, ConsPCs, PtablePCs
<1>3. c \notin spinning /\ cpu[c].ncli = 0
  BY <1>1, <1>2, Here DEF ControlInv, MaskOK
<1>4. holder'["cons"] # c /\ holder'["ptable"] # c
  BY <1>1, <1>2 DEF ControlInv, PlaceOK
<1>5. CASE x \in Procs /\ Goto(c, "exit") /\ UNCHANGED cpu
  <2> PICK l : l = low[x]
    OBVIOUS
  <2>1. "exit" \in PCs /\ "exit" \notin ConsPCs
    BY DEF PCs, Wants, ConsPCs
  <2>2. StackType' /\ top' = [top EXCEPT ![x] = "exit"] /\ low' = low
    BY <1>1, <1>5, <2>1, GotoTop DEF Goto
  <2>3. low' = [low EXCEPT ![x] = l]
    BY <1>1, <2>2
  <2>4. FrameOK(x, "exit", l)
    BY <1>1, <1>5, Here DEF FrameOK, OpenPCs, HandlerPCs, KeyPCs
  <2>5. UNCHANGED <<spinVars, current, saved, state>>
    BY <1>1, <1>5 DEF spinVars
  <2> QED BY <1>1, <1>2, <1>3, <2>1, <2>2, <2>3, <2>4, <2>5, Undisturbed
<1>6. CASE Iret(c)
  <2> PICK m : m = Sti(cpu[c])
    OBVIOUS
  <2>1. m \in Masks /\ m.ints /\ m.ncli = 0
    BY <1>1, <1>3, StiFacts
  <2>2. cpu' = [cpu EXCEPT ![c] = m]
    BY <1>6 DEF Iret, Sti
  <2> PICK p : p = IF low[x] = "none" THEN "user" ELSE low[x]
    OBVIOUS
  <2>3. StackType' /\ top' = [top EXCEPT ![x] = p] /\ low' = [low EXCEPT ![x] = "none"]
    <3>1. low[x] = "none" <=> Len(stack[x]) = 1
      BY <1>1, LowFacts
    <3>2. CASE low[x] = "none"
      <4>1. stack' = [stack EXCEPT ![x] = <<"user">>] /\ "user" \in PCs
        BY <1>6, <3>1, <3>2 DEF Iret, PCs
      <4> QED BY <1>1, <3>2, <4>1, SetTop
    <3>3. CASE low[x] # "none"
      <4>1. stack' = [stack EXCEPT ![x] = Tail(@)]
        BY <1>6, <3>1, <3>3 DEF Iret
      <4> QED BY <1>1, <3>3, <4>1, PopTop
    <3> QED BY <3>2, <3>3
  <2>4. FrameOK(x, p, "none") /\ p \in PCs /\ p \notin ConsPCs
    BY <1>1, Here DEF FrameOK, OpenPCs, KeyPCs, PCs, Wants, ConsPCs
  <2>5. Stays(c, p, "none", m)
    BY <1>1, <2>1, <2>2, <2>3 DEF Stays, ControlInv, ControlType
  <2>6. m.ncli = 0 + 0 /\ c \notin spinning'
    BY <1>1, <1>3, <2>1
  <2> QED BY <1>4, <2>1, <2>4, <2>5, <2>6, StayStep
<1> QED BY <1>5, <1>6 DEF TrapEnds, OnProc

\* A process goes into the scheduler.
LEMMA LeaveStep ==
    ASSUME ControlInv, NEW c \in CPUs, NEW t \in Procs, t = current[c],
           NEW m \in Masks, Sched(c, t, m), m.ncli = 1, ~m.ints, m.intena <=> low[t] = "none",
           NEW p, NEW l, NEW st,
           StackType', top' = [top EXCEPT ![t] = p], low' = [low EXCEPT ![t] = l],
           state' = [state EXCEPT ![t] = st],
           <<st, p>> \in {<<"RUNNABLE", "yielded">>, <<"SLEEPING", "slept">>,
                         <<"ZOMBIE", "dead">>},
           l = "none" <=> p # "yielded", p # "dead" => l = low[t],
           holder' \in [Locks -> CPUs \cup {NoCPU}],
           holder'["ptable"] = c, holder'["cons"] # c,
           \A d \in CPUs \ {c}, k \in Locks : holder'[k] = d <=> holder[k] = d,
           spinning' = spinning \ {c}
    PROVE  ControlInv'
<1>1. /\ t \in Threads /\ c \in Threads /\ t # c /\ StackType
      /\ top \in [Threads -> PCs] /\ low \in [Threads -> PCs \cup {"none"}]
  BY Here, Names DEF Threads
<1>2. /\ cpu' = [cpu EXCEPT ![c] = m] /\ saved' = [saved EXCEPT ![t] = m.intena]
      /\ current' = [current EXCEPT ![c] = c] /\ ~panicked'
  BY DEF Sched, ControlInv
<1>3. m.intena \in BOOLEAN
  BY DEF Masks
<1>4. /\ top'[t] = p /\ low'[t] = l /\ state'[t] = st /\ saved'[t] = m.intena
      /\ current'[c] = c /\ cpu'[c] = m
      /\ \A y \in Threads \ {t} : top'[y] = top[y] /\ low'[y] = low[y]
  BY <1>1, <1>2 DEF ControlInv, ControlType
<1>5. ControlType'
  BY <1>1, <1>2, <1>3 DEF ControlInv, ControlType
<1>6. Elsewhere(c)
  BY <1>1, <1>2, <1>4 DEF Elsewhere, ControlInv, ControlType
<1>7. ThreadOK(t)' /\ state'[t] # "RUNNING"
  <2>1. low[t] \in OpenPCs \cup {"none"}
    BY DEF ControlInv, ThreadOK
  <2> QED BY <1>4, <2>1 DEF ThreadOK, OpenPCs
<1>8. low'[c] = "none" /\ top'[c] = "scan"
  BY <1>1, <1>4 DEF ControlInv, PlaceOK
<1>9. PlaceOK(c)'
  BY <1>4, <1>8 DEF PlaceOK, ConsPCs, PtablePCs
<1>10. MaskOK(c)'
  BY <1>4, <1>8 DEF MaskOK, ConsPCs, PtablePCs
<1>11. \A s \in {current[c], current'[c]} \cap Procs :
          ThreadOK(s)' /\ (state'[s] = "RUNNING" <=> s = current'[c])
  <2> SUFFICES ASSUME NEW s \in {current[c], current'[c]} \cap Procs
               PROVE  ThreadOK(s)' /\ (state'[s] = "RUNNING" <=> s = current'[c])
    OBVIOUS
  <2>1. s = t
    BY <1>4, Names
  <2> QED BY <1>1, <1>4, <1>7, <2>1
<1> QED BY <1>2, <1>4, <1>5, <1>6, <1>9, <1>10, <1>11, LocalStep

LEMMA YieldControl == ASSUME ControlInv, NEW c \in CPUs, Yield(c) PROVE ControlInv'
<1> PICK t : t = current[c]
  OBVIOUS
<1> PICK m : m = Masked(c)
  OBVIOUS
<1> PICK l, p, st : l = low[t] /\ p = "yielded" /\ st = "RUNNABLE"
  OBVIOUS
<1>1. /\ t \in Procs /\ t \in Threads /\ top[t] = "yield" /\ StackType
      /\ low \in [Threads -> PCs \cup {"none"}] /\ l # "none"
      /\ Goto(c, "yielded") /\ Sched(c, t, m) /\ Xchg(c, "ptable")
      /\ holder' = [holder EXCEPT !["ptable"] = c]
      /\ state' = [state EXCEPT ![t] = st]
  BY Here DEF Yield, OnProc, At, OpenPCs
<1>2. "yielded" \in PCs /\ "yield" \in DOMAIN Wants /\ "yield" \notin ConsPCs
  BY DEF PCs, Wants, ConsPCs
<1>3. StackType' /\ top' = [top EXCEPT ![t] = p] /\ low' = low
  BY <1>1, <1>2, GotoTop DEF Goto
<1>4. low' = [low EXCEPT ![t] = l]
  BY <1>1, <1>3
<1>5. m \in Masks /\ ~m.ints /\ m.ncli = 1 /\ (m.intena <=> low[t] = "none")
  BY <1>1, <1>2, MaskedFacts
<1>6. /\ holder' \in [Locks -> CPUs \cup {NoCPU}]
      /\ holder'["ptable"] = c /\ holder'["cons"] # c
      /\ \A d \in CPUs \ {c}, k \in Locks : holder'[k] = d <=> holder[k] = d
      /\ spinning' = spinning \ {c}
  <2>1. holder["cons"] # c
    BY <1>1, <1>2 DEF ControlInv, PlaceOK
  <2> QED BY <1>1, <2>1, Names DEF Xchg, ControlInv, ControlType
<1>7. <<st, p>> \in {<<"RUNNABLE", "yielded">>, <<"SLEEPING", "slept">>,
                         <<"ZOMBIE", "dead">>}
  OBVIOUS
<1>8. (l = "none" <=> p # "yielded") /\ (p # "dead" => l = low[t])
  BY <1>1
<1>9. StackType' /\ top' = [top EXCEPT ![t] = p]
  BY <1>3
<1>10. t \in Procs /\ Sched(c, t, m) /\ state' = [state EXCEPT ![t] = st]
  BY <1>1
<1> QED BY <1>4, <1>5, <1>6, <1>7, <1>8, <1>9, <1>10, LeaveStep

LEMMA ExitControl == ASSUME ControlInv, NEW c \in CPUs, Exit(c) PROVE ControlInv'
<1> PICK t : t = current[c]
  OBVIOUS
<1> PICK m : m = Masked(c)
  OBVIOUS
<1> PICK l, p, st : l = "none" /\ p = "dead" /\ st = "ZOMBIE"
  OBVIOUS
<1>1. /\ t \in Procs /\ t \in Threads /\ top[t] = "exit" /\ StackType
      /\ stack' = [stack EXCEPT ![t] = <<"dead">>]
      /\ Sched(c, t, m) /\ Xchg(c, "ptable")
      /\ holder' = [holder EXCEPT !["ptable"] = c]
      /\ state' = [state EXCEPT ![t] = st]
  BY Here DEF Exit, OnProc, At
<1>2. "dead" \in PCs /\ "exit" \in DOMAIN Wants /\ "exit" \notin ConsPCs
  BY DEF PCs, Wants, ConsPCs
<1>3. StackType' /\ top' = [top EXCEPT ![t] = p] /\ low' = [low EXCEPT ![t] = l]
  BY <1>1, <1>2, SetTop
<1>4. m \in Masks /\ ~m.ints /\ m.ncli = 1 /\ (m.intena <=> low[t] = "none")
  BY <1>1, <1>2, MaskedFacts
<1>5. /\ holder' \in [Locks -> CPUs \cup {NoCPU}]
      /\ holder'["ptable"] = c /\ holder'["cons"] # c
      /\ \A d \in CPUs \ {c}, k \in Locks : holder'[k] = d <=> holder[k] = d
      /\ spinning' = spinning \ {c}
  <2>1. holder["cons"] # c
    BY <1>1, <1>2 DEF ControlInv, PlaceOK
  <2> QED BY <1>1, <2>1, Names DEF Xchg, ControlInv, ControlType
<1>7. <<st, p>> \in {<<"RUNNABLE", "yielded">>, <<"SLEEPING", "slept">>,
                         <<"ZOMBIE", "dead">>}
  OBVIOUS
<1>8. (l = "none" <=> p # "yielded") /\ (p # "dead" => l = low[t])
  OBVIOUS
<1> QED BY <1>1, <1>3, <1>4, <1>5, <1>7, <1>8, LeaveStep

LEMMA SleepControl == ASSUME ControlInv, NEW c \in CPUs, Sleep(c) PROVE ControlInv'
<1> PICK t : t = current[c]
  OBVIOUS
<1> PICK n : n = Masked(c)
  OBVIOUS
<1> PICK m : m = Popcli(n)
  OBVIOUS
<1> PICK l, p, st : l = "none" /\ p = "slept" /\ st = "SLEEPING"
  OBVIOUS
<1>1. /\ t \in Procs /\ t \in Threads /\ top[t] = "sleep" /\ StackType
      /\ low \in [Threads -> PCs \cup {"none"}] /\ low[t] = "none"
      /\ Goto(c, "slept") /\ Sched(c, t, m) /\ Xchg(c, "ptable")
      /\ holder' = [holder EXCEPT !["ptable"] = c, !["cons"] = NoCPU]
      /\ state' = [state EXCEPT ![t] = st]
  BY Here DEF Sleep, OnProc, At, HandlerPCs, KeyPCs
<1>2. "slept" \in PCs /\ "sleep" \in DOMAIN Wants /\ "sleep" \in ConsPCs
  BY DEF PCs, Wants, ConsPCs
<1>3. StackType' /\ top' = [top EXCEPT ![t] = p] /\ low' = low
  BY <1>1, <1>2, GotoTop DEF Goto
<1>4. low' = [low EXCEPT ![t] = l]
  BY <1>1, <1>3
<1>5. m \in Masks /\ ~m.ints /\ m.ncli = 1 /\ (m.intena <=> low[t] = "none")
  <2>1. n \in Masks /\ n.ncli = 2 /\ (n.intena <=> low[t] = "none")
    BY <1>1, <1>2, MaskedFacts
  <2> QED BY <2>1, PopcliFacts
<1>6. /\ holder' \in [Locks -> CPUs \cup {NoCPU}]
      /\ holder'["ptable"] = c /\ holder'["cons"] # c
      /\ \A d \in CPUs \ {c}, k \in Locks : holder'[k] = d <=> holder[k] = d
      /\ spinning' = spinning \ {c}
  <2>1. holder["cons"] = c
    BY <1>1, <1>2 DEF ControlInv, PlaceOK
  <2> QED BY <1>1, <2>1, Names DEF Xchg, ControlInv, ControlType
<1>7. <<st, p>> \in {<<"RUNNABLE", "yielded">>, <<"SLEEPING", "slept">>,
                         <<"ZOMBIE", "dead">>}
  OBVIOUS
<1>8. (l = "none" <=> p # "yielded") /\ (p # "dead" => l = low[t])
  BY <1>1
<1>9. StackType' /\ top' = [top EXCEPT ![t] = p]
  BY <1>3
<1>10. t \in Procs /\ Sched(c, t, m) /\ state' = [state EXCEPT ![t] = st]
  BY <1>1
<1> QED BY <1>4, <1>5, <1>6, <1>7, <1>8, <1>9, <1>10, LeaveStep

\* The scheduler goes to a process.
LEMMA ArriveStep ==
    ASSUME ControlInv, NEW c \in CPUs, current[c] = c, low[c] = "none",
           NEW t \in Procs, state[t] = "RUNNABLE", SwitchTo(c, t),
           StackType', top' = [top EXCEPT ![c] = "scan"], low' = low,
           NEW m \in Masks, cpu' = [cpu EXCEPT ![c] = m], m.ncli = 1, ~m.ints,
           holder' \in [Locks -> CPUs \cup {NoCPU}],
           holder'["ptable"] = c, holder'["cons"] # c,
           \A d \in CPUs \ {c}, k \in Locks : holder'[k] = d <=> holder[k] = d,
           spinning' = spinning \ {c}, ~panicked'
    PROVE  ControlInv'
<1>1. /\ t \in Threads /\ c \in Threads /\ t # c /\ StackType
      /\ top \in [Threads -> PCs] /\ low \in [Threads -> PCs \cup {"none"}]
  BY Here, Names DEF Threads
<1>2. /\ state' = [state EXCEPT ![t] = "RUNNING"] /\ current' = [current EXCEPT ![c] = t]
      /\ UNCHANGED saved
  BY DEF SwitchTo
<1>3. /\ state'[t] = "RUNNING" /\ saved'[t] = saved[t] /\ current'[c] = t /\ cpu'[c] = m
      /\ top'[c] = "scan" /\ low'[c] = "none" /\ top'[t] = top[t] /\ low'[t] = low[t]
      /\ \A y \in Threads \ {c} : top'[y] = top[y] /\ low'[y] = low[y]
  BY <1>1, <1>2 DEF ControlInv, ControlType
<1>4. ControlType'
  BY <1>1, <1>2 DEF ControlInv, ControlType
<1>5. Elsewhere(c)
  BY <1>1, <1>2, <1>3 DEF Elsewhere, ControlInv, ControlType
<1>6. top[t] \in {"slept", "forkret", "yielded"} /\ (top[t] = "yielded" <=> low[t] # "none")
  BY DEF ControlInv, ThreadOK
<1>7. ThreadOK(t)'
  <2>1. ThreadOK(t)
    BY DEF ControlInv
  <2> QED BY <1>3, <1>6, <2>1 DEF ThreadOK, HandlerPCs, KeyPCs
<1>8. top[t] \in PtablePCs \ ConsPCs
  BY <1>6 DEF PtablePCs, ConsPCs
<1>9. PlaceOK(c)'
  BY <1>1, <1>3, <1>8 DEF PlaceOK
<1>10. MaskOK(c)'
  BY <1>3, <1>8 DEF MaskOK
<1>11. \A s \in {current[c], current'[c]} \cap Procs :
          ThreadOK(s)' /\ (state'[s] = "RUNNING" <=> s = current'[c])
  <2> SUFFICES ASSUME NEW s \in {current[c], current'[c]} \cap Procs
               PROVE  ThreadOK(s)' /\ (state'[s] = "RUNNING" <=> s = current'[c])
    OBVIOUS
  <2>1. s = t
    BY <1>3, Names
  <2> QED BY <1>3, <1>7, <2>1
<1> QED BY <1>3, <1>4, <1>5, <1>9, <1>10, <1>11, LocalStep

LEMMA CandidateFacts ==
    ASSUME ControlInv, NEW n, Candidates(n) # {}
    PROVE  Min(Candidates(n)) \in Procs /\ state[Min(Candidates(n))] = "RUNNABLE"
<1>1. Candidates(n) \in SUBSET Nat
  BY ConsoleConstants DEF Candidates, Procs
<1> QED BY <1>1, MinFacts DEF Candidates

LEMMA StartScanControl == ASSUME ControlInv, NEW c \in CPUs, StartScan(c) PROVE ControlInv'
<1> PICK t : t = Min(Candidates(1))
  OBVIOUS
<1> PICK m : m = Masked(c)
  OBVIOUS
<1>1. /\ top[current[c]] = "idle" /\ StackType /\ low[current[c]] = "none"
      /\ current[c] = c /\ c \in Threads
      /\ low \in [Threads -> PCs \cup {"none"}]
  BY Here DEF StartScan, At, OpenPCs, HandlerPCs, KeyPCs
<1>2. t \in Procs /\ state[t] = "RUNNABLE" /\ SwitchTo(c, t)
  BY CandidateFacts DEF StartScan
<1>3. /\ "idle" \in DOMAIN Wants /\ "idle" \notin ConsPCs /\ "scan" \in PCs
  BY DEF Wants, ConsPCs, PCs
<1>4. StackType' /\ top' = [top EXCEPT ![c] = "scan"] /\ low' = low
  <2>1. /\ StackType' /\ top' = [top EXCEPT ![c] = "scan"]
        /\ low' = [low EXCEPT ![c] = "none"]
    BY <1>1, <1>3, SetTop DEF StartScan
  <2> QED BY <1>1, <2>1
<1>5. m \in Masks /\ m.ncli = 1 /\ ~m.ints
  BY <1>1, <1>3, MaskedFacts
<1>6. /\ cpu' = [cpu EXCEPT ![c] = m] /\ holder' = [holder EXCEPT !["ptable"] = c]
      /\ holder["ptable"] = NoCPU /\ spinning' = spinning \ {c} /\ ~panicked'
  BY DEF StartScan, Enter, Xchg, ControlInv
<1>7. /\ holder' \in [Locks -> CPUs \cup {NoCPU}]
      /\ holder'["ptable"] = c /\ holder'["cons"] # c
      /\ \A d \in CPUs \ {c}, k \in Locks : holder'[k] = d <=> holder[k] = d
  <2>1. holder["cons"] # c
    BY <1>1, <1>3 DEF ControlInv, PlaceOK
  <2> QED BY <1>6, <2>1, Names DEF ControlInv, ControlType
<1>8. spinning' = spinning \ {c} /\ ~panicked' /\ cpu' = [cpu EXCEPT ![c] = m]
  BY <1>6
<1>9. current[c] = c /\ low[c] = "none"
  BY <1>1
<1> QED BY <1>2, <1>4, <1>5, <1>7, <1>8, <1>9, ArriveStep

LEMMA GoOnScanningControl ==
    ASSUME ControlInv, NEW c \in CPUs, GoOnScanning(c)
    PROVE  ControlInv'
<1> PICK t : t = Min(Candidates(idx[c]))
  OBVIOUS
<1> PICK m : m = cpu[c]
  OBVIOUS
<1>1. /\ top[current[c]] = "scan" /\ StackType /\ low[current[c]] = "none"
      /\ current[c] = c /\ c \in Threads /\ m \in Masks /\ c \notin spinning
      /\ top \in [Threads -> PCs]
  BY Here DEF GoOnScanning, At, OpenPCs, HandlerPCs, KeyPCs, Wants
<1>2. t \in Procs /\ state[t] = "RUNNABLE" /\ SwitchTo(c, t)
  BY CandidateFacts DEF GoOnScanning
<1>3. /\ "scan" \in PtablePCs /\ "scan" \notin ConsPCs
  BY DEF PtablePCs, ConsPCs
<1>4. UNCHANGED <<cpu, holder, spinning, panicked, stack>>
  BY DEF GoOnScanning, spinVars
<1>5. StackType' /\ top' = [top EXCEPT ![c] = "scan"] /\ low' = low
  <2>1. StackType' /\ top' = top /\ low' = low
    BY <1>1, <1>4 DEF StackType, top, low
  <2> QED BY <1>1, <2>1
<1>6. m.ncli = 1 /\ ~m.ints
  BY <1>1, <1>3 DEF ControlInv, MaskOK
<1>7. /\ holder' \in [Locks -> CPUs \cup {NoCPU}]
      /\ holder'["ptable"] = c /\ holder'["cons"] # c
      /\ \A d \in CPUs \ {c}, k \in Locks : holder'[k] = d <=> holder[k] = d
  BY <1>1, <1>3, <1>4 DEF ControlInv, ControlType, PlaceOK
<1>8. spinning' = spinning \ {c} /\ ~panicked' /\ cpu' = [cpu EXCEPT ![c] = m]
  BY <1>1, <1>4 DEF ControlInv, ControlType
<1>9. current[c] = c /\ low[c] = "none" /\ m \in Masks
  BY <1>1
<1> QED BY <1>2, <1>5, <1>6, <1>7, <1>8, <1>9, ArriveStep

LEMMA KillControl == ASSUME ControlInv, NEW t \in Procs, Kill(t) PROVE ControlInv'
<1>1. /\ UNCHANGED <<cpu, holder, spinning, panicked, current, saved, stack>>
      /\ state' = [state EXCEPT ![t] = IF @ = "SLEEPING" THEN "RUNNABLE" ELSE @]
  BY DEF Kill, spinVars
<1>2. StackType' /\ top' = top /\ low' = low
  BY <1>1 DEF ControlInv, StackType, top, low
<1>3. ControlType'
  BY <1>1 DEF ControlInv, ControlType
<1>4. \A s \in Procs : \/ state'[s] = state[s]
                       \/ state[s] = "SLEEPING" /\ state'[s] = "RUNNABLE"
  BY <1>1 DEF ControlInv, ControlType
<1>5. ASSUME NEW s \in Procs PROVE ThreadOK(s)'
  BY <1>1, <1>2, <1>4 DEF ControlInv, ThreadOK
<1>6. ASSUME NEW c \in CPUs PROVE PlaceOK(c)' /\ MaskOK(c)'
  BY <1>1, <1>2 DEF ControlInv, PlaceOK, MaskOK
<1>7. RunningOK'
  <2>1. \A s \in Procs : state'[s] = "RUNNING" <=> state[s] = "RUNNING"
    BY <1>4
  <2> QED BY <1>1, <2>1 DEF ControlInv, RunningOK
<1> QED BY <1>1, <1>2, <1>3, <1>5, <1>6, <1>7 DEF ControlInv

LEMMA InitControl == Init => ControlInv
<1> SUFFICES ASSUME Init PROVE ControlInv
  OBVIOUS
<1>1. ControlType
  <2>1. [ints |-> TRUE, ncli |-> 0, intena |-> FALSE] \in Masks
    BY DEF Masks
  <2> QED BY <2>1 DEF Init, SpinInit, ControlType
<1>2. /\ <<"forkret">> \in Seq(PCs) /\ Len(<<"forkret">>) = 1 /\ Head(<<"forkret">>) = "forkret"
      /\ <<"idle">> \in Seq(PCs) /\ Len(<<"idle">>) = 1 /\ Head(<<"idle">>) = "idle"
  BY DEF PCs, Wants
<1>3. \A x \in Threads : stack[x] = IF x \in Procs THEN <<"forkret">> ELSE <<"idle">>
  BY DEF Init, Threads
<1>4. StackType
  BY <1>2, <1>3 DEF Init, Threads, StackType
<1>5. \A x \in Threads : low[x] = "none" /\ top[x] = IF x \in Procs THEN "forkret" ELSE "idle"
  BY <1>2, <1>3 DEF top, low
<1>6. RunningOK
  BY Names DEF Init, RunningOK
<1>7. ASSUME NEW t \in Procs PROVE ThreadOK(t)
  BY <1>5 DEF Init, ThreadOK, Threads
<1>8. ASSUME NEW c \in CPUs PROVE PlaceOK(c) /\ MaskOK(c)
  <2>1. /\ current[c] = c /\ low[c] = "none" /\ top[c] = "idle" /\ c \notin spinning
        /\ cpu[c] = [ints |-> TRUE, ncli |-> 0, intena |-> FALSE]
        /\ holder["cons"] = NoCPU /\ holder["ptable"] = NoCPU
    BY <1>5, Names DEF Init, SpinInit, Threads
  <2>2. PlaceOK(c)
    BY <2>1, Names DEF PlaceOK, ConsPCs, PtablePCs
  <2> QED BY <2>1, <2>2 DEF MaskOK, ConsPCs, PtablePCs
<1>9. ~panicked
  BY DEF Init, SpinInit
<1> QED BY <1>1, <1>4, <1>6, <1>7, <1>8, <1>9 DEF ControlInv

LEMMA NextControl == ControlInv /\ [Next]_vars => ControlInv'
<1> SUFFICES ASSUME ControlInv, [Next]_vars PROVE ControlInv'
  OBVIOUS
<1>1. ASSUME NEW c \in CPUs, Waiting(c) PROVE ControlInv'
  BY <1>1, WaitingControl
<1>2. ASSUME NEW c \in CPUs, Scheduling(c) PROVE ControlInv'
  BY <1>2, StartScanControl, NothingToRunControl, GoOnScanningControl, EndScanControl,
     ResumeControl, YieldControl, ExitControl DEF Scheduling
<1>3. ASSUME NEW c \in CPUs, Reading(c) PROVE ControlInv'
  <2>1. CASE StartRead(c)
    BY <2>1, CallControl DEF StartRead
  <2> QED BY <1>3, <2>1, ReadReturnsControl, ReadFailsControl, ReadWaitsControl, SleepControl
          DEF Reading
<1>4. ASSUME NEW c \in CPUs, Handler(c) PROVE ControlInv'
  BY <1>4, StartIntrControl, KeyControl, WakeupControl, IntrEndsControl, DumpControl DEF Handler
<1>5. ASSUME NEW c \in CPUs, StartWrite(c) \/ Write(c) PROVE ControlInv'
  BY <1>5, CallControl, WriteControl DEF StartWrite
<1>6. ASSUME NEW c \in CPUs, Timer(c) \/ TrapEnds(c) PROVE ControlInv'
  BY <1>6, InterruptControl, TrapEndsControl
<1>7. CASE Keyboard
  BY <1>7, InterruptControl, ConsoleConstants
<1>8. ASSUME NEW t \in Procs, Kill(t) PROVE ControlInv'
  BY <1>8, KillControl
<1>9. CASE UNCHANGED vars
  <2>1. UNCHANGED <<cpu, holder, spinning, panicked, current, saved, stack, state>>
    BY <1>9 DEF vars, spinVars, procVars
  <2>2. StackType' /\ top' = top /\ low' = low /\ ControlType' /\ RunningOK'
    BY <2>1 DEF ControlInv, StackType, top, low, ControlType, RunningOK
  <2> QED BY <2>1, <2>2 DEF ControlInv, ThreadOK, PlaceOK, MaskOK
<1> QED BY <1>1, <1>2, <1>3, <1>4, <1>5, <1>6, <1>7, <1>8, <1>9 DEF Next

\* Control is as ControlInv has it, on any number of processors.
THEOREM ControlIsInvariant == Spec => []ControlInv
<1> QED BY InitControl, NextControl, PTL DEF Spec

\* None of acquire, release, popcli and sched panics.
THEOREM NobodyPanics == Spec => []NoPanic
<1>1. ControlInv => NoPanic
  BY DEF ControlInv, NoPanic
<1> QED BY <1>1, ControlIsInvariant, PTL

\* The interrupt flag follows the locks and the frames, across processors.
THEOREM InterruptsFollowLocks == Spec => []InterruptsFollow
<1>1. ControlInv => InterruptsFollow
  <2> SUFFICES ASSUME ControlInv, NEW c \in CPUs
               PROVE  cpu[c].ints <=> /\ Held(c) = {} /\ c \notin spinning
                                      /\ Len(stack[current[c]]) = 1
    BY DEF InterruptsFollow
  <2>1. Len(stack[current[c]]) = 1 <=> low[current[c]] = "none"
    BY Here, LowFacts
  <2>2. Held(c) = {} <=> top[current[c]] \notin ConsPCs \cup PtablePCs
    BY Names DEF Held, ControlInv, PlaceOK
  <2>3. cpu[c].ncli = 0 <=> Held(c) = {} /\ c \notin spinning
    BY <2>2 DEF ControlInv, MaskOK
  <2> QED BY <2>1, <2>3 DEF ControlInv, MaskOK
<1> QED BY <1>1, ControlIsInvariant, PTL
=============================================================================
