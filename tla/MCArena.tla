------------------------------ MODULE MCArena -------------------------------
(* Arena with three block addresses; addresses are interchangeable. *)
EXTENDS Arena, TLC

BlockSymmetry == Permutations(Blocks)
=============================================================================
