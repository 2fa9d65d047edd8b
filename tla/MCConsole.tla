----------------------------- MODULE MCConsole ------------------------------
(***************************************************************************)
(* Two processors, the console's reader and a process that only computes.  *)
(***************************************************************************)
EXTENDS Console

CONSTANTS c0, c1,   \* processors
          x         \* a letter

MCCPUs == {c0, c1}
MCLocks == {"cons", "ptable"}
MCLetters == {x}
MCReaders == {1}

\* What is in the ring; the rest of buf is never read.
MCView ==
    <<spinVars, [i \in 1 .. (e - r) % WRAP |-> Char(r + i - 1)], r, w, e,
      doprocdump, procVars, stack, readVars>>
=============================================================================
