------------------------------ MODULE SpinLock ------------------------------
(***************************************************************************)
(* xv6's spin locks (spinlock.c) and what they do to the interrupt flag of *)
(* the processor that takes them: acquire masks interrupts before it tries *)
(* the lock, so that no handler can spin for a lock that the code below it *)
(* holds, and the last release puts the flag back as the first acquire     *)
(* found it.                                                               *)
(*                                                                         *)
(* The operators below are the pieces of a step of a processor; the module *)
(* that models the locks' users puts the steps together.                   *)
(***************************************************************************)
EXTENDS Integers, FiniteSets

CONSTANTS CPUs, Locks,
          NoCPU         \* a lock nobody holds

ASSUME SpinLockConstants == NoCPU \notin CPUs

VARIABLES
    cpu,        \* FL_IF of each processor, and ncli and intena of its struct cpu
    holder,     \* lk->locked and lk->cpu
    spinning,   \* the processors in acquire's loop
    panicked

spinVars == <<cpu, holder, spinning, panicked>>

Masks == [ints : BOOLEAN, ncli : Nat, intena : BOOLEAN]

\* Every processor is in its scheduler, after sti.
SpinInit ==
    /\ cpu = [c \in CPUs |-> [ints |-> TRUE, ncli |-> 0, intena |-> FALSE]]
    /\ holder = [l \in Locks |-> NoCPU]
    /\ spinning = {}
    /\ panicked = FALSE

Pushcli(m) ==
    [ints |-> FALSE,
     ncli |-> m.ncli + 1,
     intena |-> IF m.ncli = 0 THEN m.ints ELSE m.intena]

Popcli(m) == [m EXCEPT !.ncli = @ - 1, !.ints = m.ncli = 1 /\ m.intena]

PopcliPanics(m) == m.ints \/ m.ncli = 0

Held(c) == {l \in Locks : holder[l] = c}

\* pushcli has been called, by acquire; when the lock is free, only now.
Masked(c) == IF c \in spinning THEN cpu[c] ELSE Pushcli(cpu[c])

\* acquire(l) finds the lock taken, and stays in its loop.
Spin(c, l) ==
    /\ holder[l] # NoCPU
    /\ c \notin spinning
    /\ cpu' = [cpu EXCEPT ![c] = Masked(c)]
    /\ IF holder[l] = c
         THEN panicked' = TRUE /\ UNCHANGED spinning
         ELSE spinning' = spinning \cup {c} /\ UNCHANGED panicked
    /\ UNCHANGED holder

\* acquire(l) gets it.
Xchg(c, l) ==
    /\ holder[l] = NoCPU
    /\ spinning' = spinning \ {c}

\* The lock is kept for steps to come.
Enter(c, l) ==
    /\ Xchg(c, l)
    /\ holder' = [holder EXCEPT ![l] = c]
    /\ cpu' = [cpu EXCEPT ![c] = Masked(c)]
    /\ UNCHANGED panicked

\* What is done with the lock is one step, release(l) included.
Section(c, l) ==
    /\ Xchg(c, l)
    /\ cpu' = [cpu EXCEPT ![c] = Popcli(Masked(c))]
    /\ panicked' = (panicked \/ PopcliPanics(Masked(c)))
    /\ UNCHANGED holder

\* release(l), after the processor's state has become m.
Release(c, l, m) ==
    /\ holder' = [holder EXCEPT ![l] = NoCPU]
    /\ cpu' = [cpu EXCEPT ![c] = Popcli(m)]
    /\ panicked' = (panicked \/ holder[l] # c \/ PopcliPanics(m))
    /\ UNCHANGED spinning
=============================================================================
