------------------------------ MODULE Adapters ------------------------------
(***************************************************************************)
(* lf_stack_to_list of src/core/memory/adapters.c: a client fills a stack, *)
(* makes a list of the same element layout, converts one into the other    *)
(* and walks the list.  The stack and the list draw addresses from         *)
(* separate copies of Blocks.                                              *)
(***************************************************************************)
EXTENDS AdapterOps

CONSTANT ElemQtt     \* elem_qtt_in_block of both; elements have size 1

ASSUME ElemQttAssumption == ElemQtt \in Nat \ {0}

VARIABLES
  stack, stackData,
  list, listData,
  phase              \* "filling"; "converted" without or "grown" with new blocks;
                     \* "aborted" by an assert

vars == <<stack, stackData, list, listData, phase>>

Init ==
  /\ \E n \in Blocks : stack = InitStack(n, 1, 1, ElemQtt)
  /\ \E n \in Blocks : list = InitList(n, 1, 1, ElemQtt)
  /\ stackData = Clear(ElemQtt) /\ listData = Clear(ElemQtt)
  /\ phase = "filling"

(* Every element holds its depth, so that elements are told apart. *)
Push ==
  /\ phase = "filling"
  /\ stack' \in AllocStackElem(stack)
  /\ stackData' = Write(stackData, HeadPtr(stack'.arena), stack'.elem_count)
  /\ UNCHANGED <<list, listData, phase>>

Pop ==
  /\ phase = "filling"
  /\ stack' = PopFromStack(stack)
  /\ UNCHANGED <<stackData, list, listData, phase>>

(* lf_alloc_arena_tail_block on the list, to spare the conversion a malloc. *)
GrowList ==
  /\ phase = "filling"
  /\ \E n \in Fresh(list.arena) : list' = [list EXCEPT !.arena = AllocTailBlock(@, n)]
  /\ UNCHANGED <<stack, stackData, listData, phase>>

(* Not while the head block is popped empty: the list would begin with it, *)
(* and its first element lie beyond that block.                            *)
Convert ==
  /\ phase = "filling"
  /\ Missing(stack, list) >= 0
  /\ IsStackEmpty(stack) \/ ~IsBlockEmpty(stack.arena.block[stack.arena.head_block])
  /\ \E chain \in ListChains(stack, list), wild \in Wilds(stack, list) :
       /\ list' = ListOfStack(stack, list, chain, wild)
       /\ listData' = DataOfStack(stack, stackData, listData, chain)
  /\ phase' = IF Missing(stack, list) = 0 THEN "converted" ELSE "grown"
  /\ UNCHANGED <<stack, stackData>>

(* The list has more blocks than the stack. *)
ConvertTooLong ==
  /\ phase = "filling"
  /\ Missing(stack, list) < 0
  /\ phase' = "aborted"
  /\ UNCHANGED <<stack, stackData, list, listData>>

Converted == phase \in {"converted", "grown"}

ListPtrs == ElemsInOrder(list.arena, 1)

Walk(lookup) ==
  /\ Converted
  /\ list' = WithCursor(list, lookup.cursor)
  /\ UNCHANGED <<stack, stackData, listData, phase>>

WalkFirst == Walk(FirstElem(list))
WalkLast == Walk(LastElem(list))
(* Not past the last element: there the cursor may leave the list. *)
WalkNext(i) == i < Len(ListPtrs) /\ Walk(NextElem(list, ListPtrs[i]))
WalkPrev(i) == i > 1 /\ Walk(PrevElem(list, ListPtrs[i]))

Next ==
  \/ Push
  \/ Pop
  \/ GrowList
  \/ Convert
  \/ ConvertTooLong
  \/ WalkFirst
  \/ WalkLast
  \/ \E i \in 1 .. Len(ListPtrs) : WalkNext(i) \/ WalkPrev(i)

Spec == Init /\ [][Next]_vars
-----------------------------------------------------------------------------
(* Type invariant. *)
TypeOK ==
  /\ stack \in Stacks /\ list \in Lists
  /\ phase \in {"filling", "converted", "grown", "aborted"}

(* test_adapters.c:41: the first element of the list is the top of the      *)
(* stack (adapters.c:28-51 copies from the head on).                        *)
TopIsFirst ==
  Converted /\ stack.elem_count > 0 =>
    Read(listData, FirstElem(list).ptr) = stack.elem_count

(* test_adapters.c:42: the last element is the bottom, also when the last   *)
(* block is one the conversion allocated (adapters.c:53-81).                *)
BottomIsLast ==
  Converted /\ stack.elem_count > 0 => Read(listData, LastElem(list).ptr) = 1

(* Walking the list either way meets every stacked element, top to bottom,  *)
(* over old and new blocks.                                                 *)
WalksTopToBottom ==
  Converted =>
    /\ [i \in DOMAIN ListPtrs |-> Read(listData, ListPtrs[i])] =
         [i \in 1 .. stack.elem_count |-> stack.elem_count - i + 1]
    /\ \A i \in 1 .. Len(ListPtrs) - 1 :
         /\ NextElem(list, ListPtrs[i]).ptr = ListPtrs[i + 1]
         /\ PrevElem(list, ListPtrs[i + 1]).ptr = ListPtrs[i]

(* A walk stops at the bottom element when the list already had as many     *)
(* blocks as the stack.  (Otherwise next of the last block is undefined.)   *)
WalkEnds ==
  phase = "converted" /\ stack.elem_count > 0 =>
    NextElem(list, LastElem(list).ptr).ptr = Null
=============================================================================
