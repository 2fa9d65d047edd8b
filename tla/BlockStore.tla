----------------------------- MODULE BlockStore -----------------------------
(***************************************************************************)
(* What the buffer cache promises its users: blocks that one process at a  *)
(* time owns, reads as they were last left, changes, and puts on the disk. *)
(***************************************************************************)
CONSTANTS Procs, Blocks, Data, NoBlock

VARIABLES
    mem,     \* what a reader of each block sees
    disk,    \* what is on the disk
    owner    \* the block each process owns

vars == <<mem, disk, owner>>

Init ==
    /\ disk \in [Blocks -> Data]
    /\ mem = disk
    /\ owner = [p \in Procs |-> NoBlock]

Get(p, b) ==
    /\ owner[p] = NoBlock
    /\ \A q \in Procs : owner[q] # b
    /\ owner' = [owner EXCEPT ![p] = b]
    /\ UNCHANGED <<mem, disk>>

Change(p) ==
    /\ owner[p] # NoBlock
    /\ \E d \in Data : mem' = [mem EXCEPT ![owner[p]] = d]
    /\ UNCHANGED <<disk, owner>>

\* The disk takes a block as its owner has left it.
Sync(p) ==
    /\ owner[p] # NoBlock
    /\ disk' = [disk EXCEPT ![owner[p]] = mem[owner[p]]]
    /\ UNCHANGED <<mem, owner>>

Release(p) ==
    /\ owner[p] # NoBlock
    /\ owner' = [owner EXCEPT ![p] = NoBlock]
    /\ UNCHANGED <<mem, disk>>

Next == \E p \in Procs :
            (\E b \in Blocks : Get(p, b)) \/ Change(p) \/ Sync(p) \/ Release(p)

Spec == Init /\ [][Next]_vars
=============================================================================
