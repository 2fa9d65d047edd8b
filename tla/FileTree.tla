------------------------------ MODULE FileTree ------------------------------
(***************************************************************************)
(* What the inode layer promises the processes: directories that name      *)
(* inodes, and inodes that stay what they are while a directory names them *)
(* or a process uses them.                                                 *)
(***************************************************************************)
CONSTANTS Procs, Inodes, Plain, Root, None

VARIABLES
    kind,    \* what each inode is: free, a directory or a file
    tree,    \* the inode that each directory has under each name, or None
    uses     \* the inodes each process has as current directory or open file

vars == <<kind, tree, uses>>

Init ==
    /\ kind = [i \in Inodes |-> IF i = Root THEN "dir" ELSE "free"]
    /\ tree = [i \in Inodes |-> [n \in Plain |-> None]]
    /\ uses = [p \in Procs |-> {Root}]

Named(i) == \E d \in Inodes, n \in Plain : tree[d][n] = i

Empty(d) == \A n \in Plain : tree[d][n] = None

Create(d, n, i) ==
    /\ kind[d] = "dir" /\ tree[d][n] = None /\ kind[i] = "free"
    /\ \E t \in {"dir", "file"} : kind' = [kind EXCEPT ![i] = t]
    /\ tree' = [tree EXCEPT ![d][n] = i]
    /\ UNCHANGED uses

Link(d, n, i) ==
    /\ kind[d] = "dir" /\ tree[d][n] = None /\ kind[i] = "file"
    /\ tree' = [tree EXCEPT ![d][n] = i]
    /\ UNCHANGED <<kind, uses>>

Unlink(d, n) ==
    /\ kind[d] = "dir" /\ tree[d][n] # None
    /\ kind[tree[d][n]] = "dir" => Empty(tree[d][n])
    /\ tree' = [tree EXCEPT ![d][n] = None]
    /\ UNCHANGED <<kind, uses>>

\* An inode goes, with what a removed directory may still list, once no
\* directory names it and no process uses it.
Free(i) ==
    /\ i # Root /\ kind[i] # "free" /\ ~Named(i)
    /\ \A p \in Procs : i \notin uses[p]
    /\ kind' = [kind EXCEPT ![i] = "free"]
    /\ tree' = [tree EXCEPT ![i] = [n \in Plain |-> None]]
    /\ UNCHANGED uses

\* A process opens, closes or changes directory.
Use(p) ==
    /\ \E S \in SUBSET {i \in Inodes : kind[i] # "free"} : uses' = [uses EXCEPT ![p] = S]
    /\ UNCHANGED <<kind, tree>>

Next ==
    \/ \E d, i \in Inodes, n \in Plain : Create(d, n, i) \/ Link(d, n, i)
    \/ \E d \in Inodes, n \in Plain : Unlink(d, n)
    \/ \E i \in Inodes : Free(i)
    \/ \E p \in Procs : Use(p)

Spec == Init /\ [][Next]_vars
=============================================================================
