------------------------------- MODULE MemOps -------------------------------
(***************************************************************************)
(* What the blocks of an arena hold: data[b][o] is the value at offset o   *)
(* of block b.                                                             *)
(***************************************************************************)
EXTENDS ArenaOps

CONSTANT Junk      \* the content of memory nobody wrote, or beyond a block

Clear(size) == [b \in Blocks |-> [o \in 0 .. size - 1 |-> Junk]]
Read(data, p) == IF p.off \in DOMAIN data[p.block] THEN data[p.block][p.off] ELSE Junk
Write(data, p, val) == [data EXCEPT ![p.block][p.off] = val]

(* Addresses are interchangeable where contents are followed: one is as    *)
(* good as another.                                                        *)
Some(S) == CHOOSE x \in S : TRUE
=============================================================================
