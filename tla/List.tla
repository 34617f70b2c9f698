-------------------------------- MODULE List --------------------------------
(***************************************************************************)
(* One LF_List and a client that appends elements, one or several at a     *)
(* time, and moves among those it appended.  The auxiliary variable elems  *)
(* lists the pointers it was given, in order.  An element's content is its *)
(* own pointer, so contents are distinct.                                  *)
(***************************************************************************)
EXTENDS ListOps

CONSTANTS
  ElemSize, ElemAlignment, ElemQtt,  \* elem_size, elem_alignment, elem_qtt_in_block
  Batches          \* how many elements a client asks for at once

ASSUME ElemAssumption ==
  ElemSize \in Nat \ {0} /\ ElemAlignment \in Nat \ {0} /\ ElemQtt \in Nat \ {0}
\* assert(size <= arena->block_size) in lf_arena_alloc_at_tail
ASSUME BatchesAssumption == Batches \subseteq 1 .. ElemQtt

VARIABLES
  list,
  elems    \* auxiliary: pointers to the elements, in order of allocation

vars == <<list, elems>>

Padded == PaddedSize(ElemSize, ElemAlignment)

Init ==
  /\ \E n \in Blocks : list = InitList(n, ElemSize, ElemAlignment, ElemQtt)
  /\ elems = <<>>

AllocElems(qtt) ==
  /\ list' \in AllocListElems(list, qtt)
  /\ LET p == TailPtr(list'.arena, qtt * Padded)
     IN  elems' = elems \o [i \in 1 .. qtt |-> Ptr(p.block, p.off + (i - 1) * Padded)]

(* Every lookup moves the cursor and nothing else. *)
MoveTo(lookup) ==
  /\ list' = WithCursor(list, lookup.cursor)
  /\ UNCHANGED elems

GetFirst == MoveTo(FirstElem(list))
GetLast == MoveTo(LastElem(list))
GetNext(p) == MoveTo(NextElem(list, p))
GetPrev(p) == MoveTo(PrevElem(list, p))

(* No caller in the code; it would keep elem_count, so only an empty list. *)
Reset ==
  /\ list.elem_count = 0
  /\ list' = ResetList(list)
  /\ UNCHANGED elems

Next ==
  \/ \E qtt \in Batches : AllocElems(qtt)
  \/ GetFirst
  \/ GetLast
  \/ \E i \in 1 .. Len(elems) : GetNext(elems[i]) \/ GetPrev(elems[i])
  \/ Reset

Spec == Init /\ [][Next]_vars
-----------------------------------------------------------------------------
(* Type invariant of the list and of its elements. *)
TypeOK ==
  /\ list \in Lists
  /\ elems \in Seq([block: Blocks, off: Nat])

(* elem_count, the offsets and the block order agree with the allocations:  *)
(* a scan over blocks and offsets meets every element once, in order, and   *)
(* the cursor stays in one of those blocks.                                 *)
PhysicalOrder ==
  /\ Chained(list.arena) /\ InBounds(list.arena)
  /\ list.arena.cursor_block \in list.arena.live
  /\ list.elem_count = Len(elems)
  /\ ElemsInOrder(list.arena, list.elem_padded_size) = elems

(* list.c:130-139: the first element is the first one allocated.            *)
FirstIsFirst == elems # <<>> => FirstElem(list).ptr = elems[1]

(* list.c:38-81 and 141-151: from any element and wherever the cursor was   *)
(* left, the next one is the one allocated after it, across blocks and the  *)
(* gaps bulk allocations leave, and the last one has no next.               *)
NextFollows ==
  \A i \in 1 .. Len(elems) :
    IF i < Len(elems) THEN NextElem(list, elems[i]).ptr = elems[i + 1]
    ELSE /\ NextElem(list, elems[i]).ptr = Null
         /\ LastElem(list).ptr = elems[i]

(* list.c:83-128: going back undoes going forward. (The first element is    *)
(* left out: its predecessor is not NULL but the unused place before it.)   *)
PrevInvertsNext ==
  \A i \in 2 .. Len(elems) : PrevElem(list, elems[i]).ptr = elems[i - 1]

(* arena.c:235-290: a search that starts at the cursor's block still meets  *)
(* every element, and nothing that is not an element.                       *)
SearchComplete ==
  \A b \in Blocks, o \in 0 .. ElemQtt * Padded :
    GetElemByContent(list.arena, {Ptr(b, o)}, list.elem_padded_size) =
      IF \E i \in 1 .. Len(elems) : elems[i] = Ptr(b, o) THEN Ptr(b, o) ELSE Null
=============================================================================
