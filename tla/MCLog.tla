------------------------------- MODULE MCLog -------------------------------
(***************************************************************************)
(* Instances of Log for TLC.  Processes, blocks and contents other than    *)
(* Zero are interchangeable: no action or property of the safety runs      *)
(* singles one out.                                                        *)
(***************************************************************************)
EXTENDS Log, TLC

MCSymmetry == Permutations(Procs) \cup Permutations(Blocks)
=============================================================================
