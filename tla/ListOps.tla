------------------------------ MODULE ListOps -------------------------------
(***************************************************************************)
(* src/core/memory/list.c: operators on a record that holds what LF_List   *)
(* holds.  Elements are appended at the tail of an arena whose first block *)
(* starts in the middle; the cursor remembers the block last visited.      *)
(* A lookup gives the pointer it returns and the cursor it leaves.         *)
(***************************************************************************)
EXTENDS ArenaOps

Lists == [arena: Arenas, elem_count: Nat, elem_size: Nat, elem_padded_size: Nat]

InitList(n, elem_size, elem_alignment, elem_qtt_in_block) ==
  LET padded == PaddedSize(elem_size, elem_alignment)
  IN  [arena |-> InitArena(n, elem_qtt_in_block * padded, "middle"),
       elem_count |-> 0, elem_size |-> elem_size, elem_padded_size |-> padded]

AllocCountedOnce(l, qtt) ==        \* mutant: elem_count + 1
  {[l EXCEPT !.arena = a, !.elem_count = @ + 1] :
     a \in AllocAtTail(l.arena, qtt * l.elem_padded_size)}

(* qtt neighbouring elements; qtt * padded <= block_size is the caller's duty. *)
AllocListElems(l, qtt) ==
  {[l EXCEPT !.arena = a, !.elem_count = @ + qtt] :
     a \in AllocAtTail(l.arena, qtt * l.elem_padded_size)}

ResetList(l) == [l EXCEPT !.arena = ResetArena(@)]

Ptr(b, o) == [block |-> b, off |-> o]

LastOff(l, b) == l.arena.block[b].right_offset - l.elem_padded_size

(* The two range tests on a pointer; addresses of distinct blocks never mix. *)
InUsedBytes(l, b, p) ==
  /\ p.block = b
  /\ l.arena.block[b].left_offset <= p.off /\ p.off < l.arena.block[b].right_offset
SpansElem(l, b, p) ==
  /\ p.block = b
  /\ l.arena.block[b].left_offset <= p.off /\ p.off <= LastOff(l, b)

(* The block of an element: the cursor's, or the first that spans it from   *)
(* the head on (the loop's bound block_count is the length of that walk).   *)
BlockOfElem(l, p) ==
  LET a == l.arena
      from[b \in Blocks \cup {Null}] ==
        IF b = Null THEN Null
        ELSE IF SpansElem(l, b, p) THEN b ELSE from[a.block[b].next]
  IN  from[IF InUsedBytes(l, a.cursor_block, p) THEN a.cursor_block
                                                ELSE a.head_block]

AtBlockEndPast(l, b, p) ==         \* mutant: past the last element, not at it
  p.off >= l.arena.block[b].right_offset
AtBlockEnd(l, b, p) == p.off = LastOff(l, b)

(* From the last element of a block to the first byte of the next block. *)
IntoNextUnchecked(l, b) ==         \* mutant: the cursor moves before the NULL test
  LET next == l.arena.block[b].next
  IN  [ptr |-> IF next = Null THEN Null ELSE Ptr(next, 0), cursor |-> next]
IntoNextBlock(l, b) ==
  LET next == l.arena.block[b].next
  IN  IF next = Null THEN [ptr |-> Null, cursor |-> b]
      ELSE [ptr |-> Ptr(next, 0), cursor |-> next]

NextElem(l, p) ==
  LET b == BlockOfElem(l, p)
  IN  CASE b = Null -> [ptr |-> Null, cursor |-> l.arena.cursor_block]
        [] b # Null /\ AtBlockEnd(l, b, p) -> IntoNextBlock(l, b)
        [] OTHER -> [ptr |-> Ptr(b, p.off + l.elem_padded_size), cursor |-> b]

(* From the first byte of a block to the last element of the one before. *)
PrevBlockEnd(l, b) ==              \* mutant: the end of the block, gap included
  l.arena.block[b].size - l.elem_padded_size
PrevBlockLast(l, b) == LastOff(l, b)

IntoPrevBlock(l, b) ==
  LET prev == l.arena.block[b].prev
  IN  IF prev = Null THEN [ptr |-> Null, cursor |-> b]
      ELSE [ptr |-> Ptr(prev, PrevBlockLast(l, prev)), cursor |-> prev]

PrevElem(l, p) ==
  LET b == BlockOfElem(l, p)
  IN  CASE b = Null -> [ptr |-> Null, cursor |-> l.arena.cursor_block]
        [] b # Null /\ p.off = 0 -> IntoPrevBlock(l, b)
        [] OTHER -> [ptr |-> Ptr(b, p.off - l.elem_padded_size), cursor |-> b]

HeadStart(a) == 0                  \* mutant: the start of the head block
HeadFirstOff(a) == a.block[a.head_block].left_offset

FirstElem(l) ==
  LET a == l.arena
  IN  IF l.elem_count = 0 THEN [ptr |-> Null, cursor |-> a.cursor_block]
      ELSE [ptr |-> Ptr(a.head_block, HeadFirstOff(a)), cursor |-> a.head_block]

LastElem(l) ==
  LET a == l.arena
  IN  IF l.elem_count = 0 THEN [ptr |-> Null, cursor |-> a.cursor_block]
      ELSE [ptr |-> Ptr(a.tail_block, LastOff(l, a.tail_block)),
            cursor |-> a.tail_block]

WithCursor(l, b) == [l EXCEPT !.arena.cursor_block = b]
=============================================================================
