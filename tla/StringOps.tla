----------------------------- MODULE StringOps ------------------------------
(***************************************************************************)
(* LF_String of src/core/memory/string.c: characters in an arena a of its  *)
(* own (sl = Null) or in a slice sl of another's.  data[b][o] is the       *)
(* character at offset o of block b; outside a block there is only Junk.   *)
(***************************************************************************)
EXTENDS SliceOps, MemOps

(* lf_init_string: without a slice a new arena; with one, all of arena a.  *)
InitString(n, char_qtt_in_block) == InitArena(n, char_qtt_in_block, "left")
InitStringFromSlice(a, sl) == InitSlice(a, sl)

(* Not for a slice that lost the tail: assert(str_ptr). *)
AllocString(a, sl, n) ==
  IF sl = Null
  THEN {[arena |-> b, slice |-> Null] : b \in AllocAtTail(a, n)}
  ELSE {[arena |-> b, slice |-> MovedTail(b, sl, n)] :
          b \in IF LostTail(a, sl) THEN {} ELSE AllocAtTail(a, n)}

(* assert(!str->slice). *)
ResetString(a) == ResetArena(a)

StringSize(a, sl) == IF sl = Null THEN a.size ELSE sl.size

CharAt(data, p) == Read(data, p)

(* Iteration: a pointer to the first character, and from one to the next.  *)
(* Every block is held against the right end of the last one.              *)
FirstChar(a, sl) ==
  IF sl = Null THEN [block |-> a.head_block, off |-> a.block[a.head_block].left_offset]
  ELSE [block |-> sl.head_block, off |-> sl.head_offset]

NextCharInBlock(a, sl, p) ==       \* mutant: > for >=
  LET last  == IF sl = Null THEN a.tail_block ELSE sl.tail_block
      right == IF sl = Null THEN a.block[last].right_offset ELSE sl.tail_offset
      next  == IF p = Null THEN Null ELSE a.block[p.block].next
  IN  IF p = Null \/ (p.off + 1 > right /\ p.block = last) THEN Null
      ELSE IF p.off + 1 > right
      THEN [block |-> next, off |-> a.block[next].left_offset]
      ELSE [p EXCEPT !.off = @ + 1]
NextChar(a, sl, p) ==
  LET last  == IF sl = Null THEN a.tail_block ELSE sl.tail_block
      right == IF sl = Null THEN a.block[last].right_offset ELSE sl.tail_offset
      next  == IF p = Null THEN Null ELSE a.block[p.block].next
  IN  IF p = Null \/ (p.off + 1 >= right /\ p.block = last) THEN Null
      ELSE IF p.off + 1 >= right
      THEN [block |-> next, off |-> a.block[next].left_offset]
      ELSE [p EXCEPT !.off = @ + 1]

(* The characters of a slice. *)
SliceText(a, data, sl) ==
  LET ptrs == SlicePtrs(a, sl)
  IN  [i \in DOMAIN ptrs |-> CharAt(data, ptrs[i])]

(* What lf_compare_string may answer for a slice and a text.  In a slice    *)
(* over several blocks it reads offsets nobody set: any answer.             *)
CompareSlice(a, data, sl, text) ==
  IF sl.size # Len(text) THEN {FALSE}
  ELSE IF sl.head_block # sl.tail_block THEN BOOLEAN
  ELSE {SliceText(a, data, sl) = text}
=============================================================================
