---------------------------- MODULE ArenaSlices -----------------------------
(***************************************************************************)
(* One arena shared by several slices and by clients that allocate in it   *)
(* directly.  The auxiliary variable own remembers which bytes each slice  *)
(* was made of and has been given since.                                   *)
(***************************************************************************)
EXTENDS SliceOps

CONSTANTS
  SliceIds,
  BlockSize, Offset,   \* block_size, block_offset
  Requests             \* sizes clients ask for

\* block_size is a size_t, and no block is empty
ASSUME BlockAssumption == BlockSize \in 1 .. SizeMod - 1 /\ Offset \in Offsets
\* the asserts of lf_arena_alloc_at_head and lf_arena_alloc_at_tail
ASSUME RequestsAssumption == Requests \subseteq 1 .. BlockSize

VARIABLES
  arena,
  slices,    \* Null: not initialised
  own        \* auxiliary

slices_vars == <<arena, slices, own>>

Bytes(ptr, n) == {[block |-> ptr.block, off |-> o] : o \in ptr.off .. ptr.off + n - 1}

SlicesInit ==
  /\ \E n \in Blocks : arena = InitArena(n, BlockSize, Offset)
  /\ slices = [s \in SliceIds |-> Null]
  /\ own = [s \in SliceIds |-> {}]

Become(s, sl) ==
  /\ slices' = [slices EXCEPT ![s] = sl]
  /\ own' = [own EXCEPT ![s] = ToSet(SlicePtrs(arena, sl))]
  /\ UNCHANGED arena

TakeArena(s) == Become(s, SliceOfArena(arena))

(* Ends set by the client, as the lexer does: part of a block's used bytes. *)
TakePart(s) ==
  \E b \in arena.live :
    \E from, to \in arena.block[b].left_offset .. arena.block[b].right_offset :
      /\ from <= to
      /\ Become(s, InitSlice(arena,
                     [head_block |-> b, tail_block |-> b, head_offset |-> from,
                      tail_offset |-> to, size |-> 0]))

(* NULL, and nothing changes, once the slice has lost the end. *)
SliceAllocHead(s, n) ==
  /\ slices[s] # Null
  /\ IF LostHead(arena, slices[s]) THEN UNCHANGED slices_vars
     ELSE /\ arena' \in AllocAtHead(arena, n)
          /\ slices' = [slices EXCEPT ![s] = MovedHead(arena', @, n)]
          /\ own' = [own EXCEPT ![s] = @ \cup Bytes(HeadPtr(arena'), n)]

SliceAllocTail(s, n) ==
  /\ slices[s] # Null
  /\ IF LostTail(arena, slices[s]) THEN UNCHANGED slices_vars
     ELSE /\ arena' \in AllocAtTail(arena, n)
          /\ slices' = [slices EXCEPT ![s] = MovedTail(arena', @, n)]
          /\ own' = [own EXCEPT ![s] = @ \cup Bytes(TailPtr(arena', n), n)]

(* The used byte that follows a slice: in its last block or, when that is   *)
(* used to its end, at the beginning of the next one.                       *)
NextByte(sl) ==
  LET last == arena.block[sl.tail_block]
      byte(b, o) == {[block |-> b, off |-> o]}
  IN  IF sl.tail_offset < last.right_offset
      THEN byte(sl.tail_block, sl.tail_offset)
      ELSE IF sl.tail_offset = last.size /\ last.next # Null
              /\ arena.block[last.next].left_offset = 0
              /\ arena.block[last.next].right_offset > 0
           THEN byte(last.next, 0) ELSE {}

(* One byte, the only size a caller grows by, and only over bytes in use.   *)
Grow(s) ==
  /\ slices[s] # Null
  /\ NextByte(slices[s]) # {}
  /\ slices' = [slices EXCEPT ![s] = GrowSliceTail(arena, @, 1)]
  /\ own' = [own EXCEPT ![s] = @ \cup NextByte(slices[s])]
  /\ UNCHANGED arena

AllocHead(n) == arena' \in AllocAtHead(arena, n) /\ UNCHANGED <<slices, own>>
AllocTail(n) == arena' \in AllocAtTail(arena, n) /\ UNCHANGED <<slices, own>>

(* The arena's owner resets it; slices do not outlive that (lf_reset_string *)
(* asserts it of strings, and nothing would tell a slice).                  *)
Reset ==
  /\ arena' = ResetArena(arena)
  /\ slices' = [s \in SliceIds |-> Null]
  /\ own' = [s \in SliceIds |-> {}]

SlicesNext ==
  \/ \E s \in SliceIds : TakeArena(s) \/ TakePart(s) \/ Grow(s)
  \/ \E s \in SliceIds, n \in Requests : SliceAllocHead(s, n) \/ SliceAllocTail(s, n)
  \/ \E n \in Requests : AllocHead(n) \/ AllocTail(n)
  \/ Reset

SlicesSpec == SlicesInit /\ [][SlicesNext]_slices_vars
-----------------------------------------------------------------------------
InUse == {s \in SliceIds : slices[s] # Null}

(* Type invariant. *)
SlicesTypeOK ==
  /\ arena \in Arenas
  /\ slices \in [SliceIds -> Slices \cup {Null}]
  /\ own \in [SliceIds -> SUBSET [block: Blocks, off: 0 .. BlockSize - 1]]

(* test_adapters.c:211-254 and 289-307: however the slices and the other    *)
(* clients take turns at both ends, a slice's range is exactly the bytes it *)
(* was made of and those it got itself: it never takes in another's.        *)
RangeIsOwn == \A s \in InUse : ToSet(SlicePtrs(arena, slices[s])) = own[s]

TailEnd == <<arena.tail_block, arena.block[arena.tail_block].right_offset>>
HeadEnd == <<arena.head_block, arena.block[arena.head_block].left_offset>>

(* test_adapters.c:226 and 305 ("Inits owning the whole arena", "since it's *)
(* still on the borders"): a slice of the arena has both ends.  It loses one *)
(* only when somebody else allocates there, and gets the tail back only by  *)
(* growing up to it; the head never.  (adapters.c:126-134, 152-160.)        *)
EndsKept(s) ==
  LET lostTail == LostTail(arena, slices[s])
      lostHead == LostHead(arena, slices[s])
  IN  /\ ~lostTail /\ lostTail' => TailEnd' # TailEnd /\ own'[s] = own[s]
      /\ lostTail /\ ~lostTail' => UNCHANGED arena /\ own'[s] # own[s]
      /\ ~lostHead /\ lostHead' => HeadEnd' # HeadEnd /\ own'[s] = own[s]
      /\ lostHead => lostHead'

EndsMove(s) ==
  /\ TakeArena(s) => ~(LostTail(arena, slices[s]) \/ LostHead(arena, slices[s]))'
  /\ ~(TakeArena(s) \/ TakePart(s) \/ Reset) => EndsKept(s)

EndsChangeHands == [][\A s \in InUse : EndsMove(s)]_slices_vars

(* size, which strings report as their length, counts every byte of the     *)
(* slice and no byte twice: it lies between the used bytes in the range and *)
(* the bytes the range spans.  (It is not always the former: a slice made   *)
(* over several blocks counts the gaps at its two ends, adapters.c:92-93.)  *)
SizeCounts ==
  LET s     == Chain(arena)
      At(b) == CHOOSE i \in 1 .. arena.block_count : s[i] = b
  IN  \A x \in InUse :
        LET sl == slices[x]
        IN  /\ Cardinality(own[x]) <= sl.size
            /\ sl.size <= (At(sl.tail_block) - At(sl.head_block)) * BlockSize
                            + sl.tail_offset - sl.head_offset
=============================================================================
