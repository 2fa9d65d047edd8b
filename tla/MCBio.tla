------------------------------- MODULE MCBio -------------------------------
(***************************************************************************)
(* Symmetries for the runs of Bio.                                         *)
(***************************************************************************)
EXTENDS Bio, TLC

MCSymmetry == Permutations(Procs) \cup Permutations(Blocks)
=============================================================================
