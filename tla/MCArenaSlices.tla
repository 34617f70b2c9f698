--------------------------- MODULE MCArenaSlices ----------------------------
(* ArenaSlices with interchangeable addresses and slices. *)
EXTENDS ArenaSlices, TLC

Symmetry == Permutations(Blocks) \cup Permutations(SliceIds)
=============================================================================
