------------------------------- MODULE MCList -------------------------------
(* List with interchangeable addresses. *)
EXTENDS List, TLC

BlockSymmetry == Permutations(Blocks)
=============================================================================
