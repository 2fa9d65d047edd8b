------------------------------ MODULE MCInode ------------------------------
(***************************************************************************)
(* The system calls of the runs of Inode: in the root, and into d.         *)
(***************************************************************************)
EXTENDS Inode, TLC

Call(sys, abs, path, new) == [sys |-> sys, abs |-> abs, path |-> path, new |-> new]

\* d is a directory or a file; .. of the current directory is the root.
InRoot == {Call("mkdir", FALSE, <<"..", "d">>, <<>>), Call("creat", TRUE, <<"d">>, <<>>),
           Call("unlink", TRUE, <<"d">>, <<>>), Call("open_w", TRUE, <<"d">>, <<>>),
           Call("chdir", TRUE, <<"d">>, <<>>), Call("link", TRUE, <<"d">>, <<"d">>)}

\* Into d, which may be removed on the way.
Below == {Call("creat", TRUE, <<"d", "a">>, <<>>),
          Call("link", TRUE, <<"d">>, <<"d", "a">>)}

MCRequests == InRoot \cup Below

MCSymmetry == Permutations(Procs)
=============================================================================
