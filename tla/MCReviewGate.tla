---------------------------- MODULE MCReviewGate ----------------------------
(***************************************************************************)
(* An instance of ReviewGate: four calls of either use case, windows of    *)
(* two seconds, the first three windows.                                             *)
(***************************************************************************)
EXTENDS ReviewGate, TLC

CallSymmetry == Permutations(Calls)
=============================================================================
