------------------------------ MODULE MCStack -------------------------------
(* Stack with interchangeable addresses and values. *)
EXTENDS Stack, TLC

Symmetry == Permutations(Blocks) \cup Permutations(Values)
=============================================================================
