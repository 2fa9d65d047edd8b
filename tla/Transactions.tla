---------------------------- MODULE Transactions ----------------------------
(***************************************************************************)
(* What the log of xv6 promises its callers (log.c:9-30): file system      *)
(* operations write blocks between begin_op and end_op, and a crash leaves *)
(* on disk the effects of whole operations only.  Commits are in groups:   *)
(* the disk takes everything written so far at an instant when no          *)
(* operation is under way, so that no operation is ever split.             *)
(***************************************************************************)

CONSTANTS Blocks,   \* the file system's block numbers
          Data,     \* the contents a block can have
          Procs     \* the processes that run file system operations

VARIABLES mem,      \* what reads see: [Blocks -> Data]
          durable,  \* what a restart would find: [Blocks -> Data]
          active    \* the processes between begin_op and end_op

vars == <<mem, durable, active>>

TypeOK ==
    /\ mem \in [Blocks -> Data]
    /\ durable \in [Blocks -> Data]
    /\ active \subseteq Procs

Init ==
    /\ durable \in [Blocks -> Data]
    /\ mem = durable
    /\ active = {}

Begin(p) ==
    /\ p \notin active
    /\ active' = active \cup {p}
    /\ UNCHANGED <<mem, durable>>

Write(p, b, v) ==
    /\ p \in active
    /\ mem' = [mem EXCEPT ![b] = v]
    /\ UNCHANGED <<durable, active>>

End(p) ==
    /\ p \in active
    /\ active' = active \ {p}
    /\ UNCHANGED <<mem, durable>>

\* Nobody is in the middle of an operation: everything written becomes durable.
Commit ==
    /\ active = {}
    /\ durable' = mem
    /\ UNCHANGED <<mem, active>>

\* Memory is lost, and the operations under way with it.
Crash ==
    /\ mem' = durable
    /\ active' = {}
    /\ UNCHANGED durable

Next ==
    \/ \E p \in Procs : \/ Begin(p)
                        \/ End(p)
                        \/ \E b \in Blocks, v \in Data : Write(p, b, v)
    \/ Commit
    \/ Crash

Spec == Init /\ [][Next]_vars
=============================================================================
