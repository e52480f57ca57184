------------------------------ MODULE MCIsrCnt ------------------------------
(* Instances of IsrCnt for TLC.                                             *)
EXTENDS IsrCnt, TLC

\* The processes are alike.
Symmetry == Permutations(Threads)
=============================================================================
