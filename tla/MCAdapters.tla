----------------------------- MODULE MCAdapters -----------------------------
(* Adapters with interchangeable addresses. *)
EXTENDS Adapters, TLC

BlockSymmetry == Permutations(Blocks)
=============================================================================
