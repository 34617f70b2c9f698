------------------------------ MODULE StackOps ------------------------------
(***************************************************************************)
(* src/core/memory/stack.c: operators on a record that holds what LF_Stack *)
(* holds.  Elements are pushed at the head of an arena whose blocks start  *)
(* full of room (offset RIGHT) and are popped by moving left_offset back.  *)
(***************************************************************************)
EXTENDS ArenaOps

Stacks == [arena: Arenas, elem_count: Nat, elem_size: Nat, elem_padded_size: Nat]

InitStack(n, elem_size, elem_alignment, elem_qtt_in_block) ==
  LET padded == PaddedSize(elem_size, elem_alignment)
  IN  [arena |-> InitArena(n, elem_qtt_in_block * padded, "right"),
       elem_count |-> 0, elem_size |-> elem_size, elem_padded_size |-> padded]

AllocUncounted(s) ==               \* mutant: elem_count is forgotten
  {[s EXCEPT !.arena = a] : a \in AllocAtHead(s.arena, s.elem_size)}

(* The caller writes its element at HeadPtr of the arena this leaves. *)
AllocStackElem(s) ==
  {[s EXCEPT !.arena = a, !.elem_count = @ + 1] :
     a \in AllocAtHead(s.arena, s.elem_size)}

(* elem_count is left as it is. *)
ResetStack(s) == [s EXCEPT !.arena = ResetArena(@)]

IsStackBelowEmpty(s) == s.elem_count < 0   \* mutant
IsStackEmpty(s) == s.elem_count = 0

(* A pop first gives back a head block whose elements have all been popped. *)
PopArenaNoDealloc(s) == s.arena    \* mutant: the emptied block stays the head
PopArena(s) ==
  IF IsBlockEmpty(s.arena.block[s.arena.head_block])
  THEN DeallocHeadBlock(s.arena)
  ELSE s.arena

(* The pointer lf_pop_from_stack returns. *)
PtrAfterPop(s) ==                  \* mutant: read after left_offset moved
  IF IsStackEmpty(s) THEN Null
  ELSE [HeadPtr(PopArena(s)) EXCEPT !.off = @ + s.elem_padded_size]
PoppedPtr(s) == IF IsStackEmpty(s) THEN Null ELSE HeadPtr(PopArena(s))

CountKept(s) == s.elem_count       \* mutant: the count is not taken down
CountAfterPop(s) == s.elem_count - 1

PopFromStack(s) ==
  LET a     == PopArena(s)
      head  == a.block[a.head_block]
      left  == head.left_offset + s.elem_padded_size
      right == IF left > head.right_offset THEN left ELSE head.right_offset
  IN  IF IsStackEmpty(s) THEN s
      ELSE [s EXCEPT !.arena = [a EXCEPT
                       !.block[a.head_block].left_offset = left,
                       !.block[a.head_block].right_offset = right],
                     !.elem_count = CountAfterPop(s)]
=============================================================================
