------------------------------ MODULE SliceOps ------------------------------
(***************************************************************************)
(* LF_ArenaSlice of src/core/memory/adapters.c: operators on a record that *)
(* designates a range of an arena's bytes.  A slice may allocate at an end *)
(* of the arena only while that end is also the slice's own.               *)
(***************************************************************************)
EXTENDS ArenaOps

Slices == [head_block: Blocks, tail_block: Blocks,
           head_offset: Nat, tail_offset: Nat, size: 0 .. SizeMod - 1]

(* The bytes in the blocks between the slice's two ends: the loop's cursor  *)
(* and the size it has counted so far.                                      *)
Counts == (Blocks \cup {Null}) \X Int

Used(a, b) == a.block[b].right_offset - a.block[b].left_offset

InnerSizeAndHead(a, sl) ==         \* mutant: the loop starts at the head block
  LET count[at \in Counts] ==
        IF at[1] \in {Null, sl.tail_block} THEN at[2]
        ELSE count[<<a.block[at[1]].next, at[2] + Used(a, at[1])>>]
  IN  count[<<sl.head_block, 0>>]
InnerSize(a, sl) ==
  LET count[at \in Counts] ==
        IF at[1] \in {Null, sl.tail_block} THEN at[2]
        ELSE count[<<a.block[at[1]].next, at[2] + Used(a, at[1])>>]
  IN  count[<<a.block[sl.head_block].next, 0>>]

(* The head block counts up to its end, a gap there included. *)
SliceSize(a, sl) ==
  (IF sl.head_block = sl.tail_block THEN sl.tail_offset - sl.head_offset
   ELSE a.block[sl.head_block].size - sl.head_offset
          + InnerSize(a, sl) + sl.tail_offset) % SizeMod

(* lf_init_arena_slice with no arena: the caller has set the ends ...      *)
InitSlice(a, dest) == [dest EXCEPT !.size = SliceSize(a, dest)]

(* ... and with one: the slice is the whole arena.                         *)
SliceOfArena(a) ==
  InitSlice(a, [head_block |-> a.head_block, tail_block |-> a.tail_block,
                head_offset |-> a.block[a.head_block].left_offset,
                tail_offset |-> a.block[a.tail_block].right_offset, size |-> 0])

LostHeadEarly(a, sl) ==            \* mutant: >= for >
  \/ sl.head_block # a.head_block
  \/ sl.head_offset >= a.block[a.head_block].left_offset
LostHead(a, sl) ==
  \/ sl.head_block # a.head_block
  \/ sl.head_offset > a.block[a.head_block].left_offset

LostTailBlock(a, sl) ==            \* mutant: the offset is not compared
  sl.tail_block # a.tail_block
LostTail(a, sl) ==
  \/ sl.tail_block # a.tail_block
  \/ sl.tail_offset < a.block[a.tail_block].right_offset

(* A slice that just allocated size bytes at an end of a follows that end. *)
MovedHeadTwice(a, sl, size) ==     \* mutant: size is taken off again
  [sl EXCEPT !.head_block = a.head_block,
             !.head_offset = a.block[a.head_block].left_offset - size,
             !.size = (@ + size) % SizeMod]
MovedHead(a, sl, size) ==
  [sl EXCEPT !.head_block = a.head_block,
             !.head_offset = a.block[a.head_block].left_offset,
             !.size = (@ + size) % SizeMod]
MovedTail(a, sl, size) ==
  [sl EXCEPT !.tail_block = a.tail_block,
             !.tail_offset = a.block[a.tail_block].right_offset,
             !.size = (@ + size) % SizeMod]

(* lf_grow_arena_slice_tail: the slice takes in the next n bytes.  Beyond   *)
(* its block it compares n, not what remains of it, with what remains; that *)
(* is right for a block that is used up.  Null: the assert after the loop.  *)
(* The loop: its cursor, what remains to take, the slice's size so far.     *)
Growths == (Blocks \cup {Null}) \X Nat \X Nat

GrowSliceTail(a, sl, n) ==
  LET room == (a.block[sl.tail_block].size - sl.tail_offset) % SizeMod
      into[at \in Growths] ==
        IF at[1] = Null THEN Null
        ELSE IF n <= at[2]
        THEN [sl EXCEPT !.tail_block = at[1], !.tail_offset = at[2],
                        !.size = (at[3] + n) % SizeMod]
        ELSE into[<<a.block[at[1]].next, (at[2] - a.block[at[1]].size) % SizeMod,
                    at[3] + a.block[at[1]].size>>]
  IN  IF n <= room
      THEN [sl EXCEPT !.tail_offset = @ + n, !.size = (@ + n) % SizeMod]
      ELSE into[<<a.block[sl.tail_block].next, n - room, sl.size>>]

(* The used bytes in a slice's range, in order. *)
SlicePtrs(a, sl) ==
  LET s     == Chain(a)
      At(b) == CHOOSE i \in 1 .. a.block_count : s[i] = b
      From(b) == IF b = sl.head_block THEN sl.head_offset
                                      ELSE a.block[b].left_offset
      To(b) == IF b = sl.tail_block THEN sl.tail_offset
                                    ELSE a.block[b].right_offset
      Part(b) == [i \in 1 .. To(b) - From(b) |->
                    [block |-> b, off |-> From(b) + i - 1]]
  IN  FlattenSeq([i \in 1 .. At(sl.tail_block) - At(sl.head_block) + 1 |->
                    Part(s[At(sl.head_block) + i - 1])])
=============================================================================
