------------------------------- MODULE Stack --------------------------------
(***************************************************************************)
(* One LF_Stack, its memory and a client that pushes (lf_alloc_stack_elem  *)
(* and the write through the pointer it returns, which every caller does   *)
(* at once), pops and reads, searches by content and resets.               *)
(***************************************************************************)
EXTENDS StackOps

CONSTANTS
  ElemSize, ElemAlignment, ElemQtt,  \* elem_size, elem_alignment, elem_qtt_in_block
  Values,          \* what clients push
  NoElem,          \* what a client makes of a NULL pointer
  Junk,            \* bytes no client wrote through this stack, or out of bounds
  ResetsAnywhere   \* FALSE: clients reset only a stack they have drained

ASSUME ElemAssumption ==
  /\ ElemSize \in Nat \ {0} /\ ElemAlignment \in Nat \ {0} /\ ElemQtt \in Nat \ {0}
  \* every caller passes sizeof(T) and alignof(T), and alignof(T) divides sizeof(T)
  /\ ElemSize % ElemAlignment = 0
ASSUME CellAssumption ==
  NoElem \notin Values /\ Junk \notin Values /\ Junk # NoElem
ASSUME ResetsAnywhereAssumption == ResetsAnywhere \in BOOLEAN

VARIABLES
  stack,
  mem,     \* the element at each offset of each block
  out      \* what the client read through the last pointer it was given

vars == <<stack, mem, out>>

BlockSize == ElemQtt * PaddedSize(ElemSize, ElemAlignment)

Cells == Values \cup {Junk}

NewData == [o \in 0 .. BlockSize - 1 |-> Junk]

Read(p) ==
  IF p = Null THEN NoElem
  ELSE IF p.off \in 0 .. BlockSize - 1 THEN mem[p.block][p.off] ELSE Junk

Init ==
  /\ \E n \in Blocks : stack = InitStack(n, ElemSize, ElemAlignment, ElemQtt)
  /\ mem = [b \in Blocks |-> NewData]
  /\ out = NoElem

Push(v) ==
  /\ stack' \in AllocStackElem(stack)
  /\ LET p == HeadPtr(stack'.arena)
         data == IF p.block \in stack.arena.live THEN mem[p.block] ELSE NewData
     IN  mem' = [mem EXCEPT ![p.block] = [data EXCEPT ![p.off] = v]]
  /\ out' = NoElem

Pop ==
  /\ stack' = PopFromStack(stack)
  /\ mem' = [b \in Blocks |-> IF b \in stack'.arena.live THEN mem[b] ELSE NewData]
  /\ out' = Read(PoppedPtr(stack))

Find(v) ==
  /\ LET matches == {p \in [block: Blocks, off: 0 .. BlockSize - 1] : Read(p) = v}
     IN  out' = Read(GetElemByContent(stack.arena, matches, stack.elem_padded_size))
  /\ UNCHANGED <<stack, mem>>

Reset ==
  /\ ResetsAnywhere \/ IsStackEmpty(stack)
  /\ stack' = ResetStack(stack)
  /\ out' = NoElem
  /\ UNCHANGED mem

Next ==
  \/ \E v \in Values : Push(v) \/ Find(v)
  \/ Pop
  \/ Reset

Spec == Init /\ [][Next]_vars
-----------------------------------------------------------------------------
Items ==
  LET ptrs == ElemsInOrder(stack.arena, stack.elem_padded_size)
  IN  [i \in DOMAIN ptrs |-> Read(ptrs[i])]

Abstract == INSTANCE Lifo WITH items <- Items, out <- out

(* Type invariant of the stack, its memory and the client's answer. *)
TypeOK ==
  /\ stack \in Stacks
  /\ mem \in [Blocks -> [0 .. BlockSize - 1 -> Cells]]
  /\ out \in Cells \cup {NoElem}

(* stack.c:20-62 across block boundaries: whatever is pushed, popped and    *)
(* searched, the elements the arena's blocks hold behave as one LIFO list.  *)
RefinesLifo == Abstract!Spec

(* Only the head block has room: the others are full, all used bytes end at *)
(* the end of their block, and elem_count (kept apart from the offsets,     *)
(* stack.c:24 and 59) counts exactly the elements in the blocks.            *)
StackShape ==
  LET a == stack.arena
  IN  /\ Chained(a)
      /\ \A b \in a.live :
           /\ a.block[b].right_offset = BlockSize
           /\ a.block[b].left_offset \in 0 .. BlockSize
           /\ b # a.head_block => a.block[b].left_offset = 0
      /\ stack.elem_count * stack.elem_padded_size =
           a.block_count * BlockSize - a.block[a.head_block].left_offset
      /\ a.cursor_block \in a.live

(* What stack.c:49-51 promises: a pop never hands out phantom data, that is *)
(* bytes that were never pushed or lie outside the block.                   *)
NoPhantomPop == out # Junk
=============================================================================
