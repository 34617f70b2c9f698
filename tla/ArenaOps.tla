------------------------------ MODULE ArenaOps ------------------------------
(***************************************************************************)
(* The arena of src/core/memory/arena.c as constant-level operators, one   *)
(* per C function, on a record that holds what LF_Arena and its LF_MemBlock *)
(* list hold.  The modules of the arena's users (stack, list, adapters)    *)
(* build their own operations from these.                                  *)
(*                                                                         *)
(* A call that may malloc is the SET of arenas it may leave, one per       *)
(* address malloc may return: a step reads arena' \in AllocAtHead(...).    *)
(* malloc failing is the assert after it (the process stops): no arena.    *)
(***************************************************************************)
EXTENDS Integers, FiniteSets, SequencesExt

CONSTANTS
  Blocks,    \* the addresses malloc can return for a LF_MemBlock
  Null,      \* the null pointer
  SizeMod    \* size_t wraps at SizeMod

ASSUME BlocksAssumption == Null \notin Blocks
ASSUME NullAssumption == Null \notin [block: Blocks, off: Nat]  \* no pointer either
ASSUME SizeModAssumption == SizeMod \in Nat \ {0}

Offsets == {"middle", "left", "right"}

MemBlocks == [left_offset: Nat, right_offset: Nat, size: Nat,
              prev: Blocks \cup {Null}, next: Blocks \cup {Null}]

Arenas == [head_block: Blocks, tail_block: Blocks, cursor_block: Blocks,
           block_count: Nat, size: 0 .. SizeMod - 1,
           block_size: Nat, block_offset: Offsets,
           live: SUBSET Blocks,             \* malloc'ed and not freed
           block: [Blocks -> MemBlocks]]

(* The memory of a block nobody holds: never read while the chain is sound. *)
Freed == [left_offset |-> 0, right_offset |-> 0, size |-> 0,
          prev |-> Null, next |-> Null]

(* Where _lf_set_block_offset starts a block. *)
StartOffset(block_size, block_offset) ==
  CASE block_offset = "left"  -> 0
    [] block_offset = "right" -> block_size
    [] OTHER                  -> block_size \div 2

InitArena(n, block_size, block_offset) ==
  LET start == StartOffset(block_size, block_offset)
      first == [left_offset |-> start, right_offset |-> start,
                size |-> block_size, prev |-> Null, next |-> Null]
  IN  [head_block |-> n, tail_block |-> n, cursor_block |-> n,
       block_count |-> 1, size |-> 0,
       block_size |-> block_size, block_offset |-> block_offset,
       live |-> {n},
       block |-> [b \in Blocks |-> IF b = n THEN first ELSE Freed]]

(* The addresses malloc may return to arena a. *)
Fresh(a) == Blocks \ a.live

-----------------------------------------------------------------------------
(* New blocks: a head block is filled downwards from its end, a tail block *)
(* upwards from its beginning.                                             *)

AllocHeadBlock(a, n) ==
  [a EXCEPT
     !.live = @ \cup {n},
     !.block = [@ EXCEPT
       ![a.head_block].prev = n,
       ![n] = [left_offset |-> a.block_size, right_offset |-> a.block_size,
               size |-> a.block_size, prev |-> Null, next |-> a.head_block]],
     !.block_count = @ + 1,
     !.head_block = n]

AllocTailBlock(a, n) ==
  [a EXCEPT
     !.live = @ \cup {n},
     !.block = [@ EXCEPT
       ![a.tail_block].next = n,
       ![n] = [left_offset |-> 0, right_offset |-> 0,
               size |-> a.block_size, prev |-> a.tail_block, next |-> Null]],
     !.block_count = @ + 1,
     !.tail_block = n]

(* lf_arena_alloc_at_head and lf_arena_alloc_at_tail; their asserts make    *)
(* 0 < size <= block_size the caller's duty.                               *)

HeadRoom(a) == a.block[a.head_block].left_offset

TailRoomBelowLeft(a) ==            \* mutant: the wrong offset
  a.block[a.tail_block].size - a.block[a.tail_block].left_offset
TailRoom(a) == a.block[a.tail_block].size - a.block[a.tail_block].right_offset

AllocAtHead(a, size) ==
  LET grown == IF HeadRoom(a) < size
               THEN {AllocHeadBlock(a, n) : n \in Fresh(a)}
               ELSE {a}
  IN  {[g EXCEPT !.block[g.head_block].left_offset = @ - size,
                 !.size = (@ + size) % SizeMod] : g \in grown}

AllocAtTail(a, size) ==
  LET grown == IF TailRoom(a) < size
               THEN {AllocTailBlock(a, n) : n \in Fresh(a)}
               ELSE {a}
  IN  {[g EXCEPT !.block[g.tail_block].right_offset = @ + size,
                 !.size = (@ + size) % SizeMod] : g \in grown}

(* The pointers those two calls return, read off the arena they leave. *)
HeadPtr(a) == [block |-> a.head_block,
               off |-> a.block[a.head_block].left_offset]
TailPtr(a, size) == [block |-> a.tail_block,
                     off |-> a.block[a.tail_block].right_offset - size]

-----------------------------------------------------------------------------
(* What unlinking b leaves in another block c. *)
UnlinkedOneWay(a, b, c) ==         \* mutant: next_block->prev is forgotten
  [a.block[c] EXCEPT !.next = IF c = a.block[b].prev THEN a.block[b].next ELSE @]
Unlinked(a, b, c) ==
  [a.block[c] EXCEPT !.next = IF c = a.block[b].prev THEN a.block[b].next ELSE @,
                     !.prev = IF c = a.block[b].next THEN a.block[b].prev ELSE @]

(* lf_dealloc_arena_block takes the whole block's size off arena->size, not *)
(* the bytes used in it: size_t wraps when the block was not full.          *)
SizeLessUnwrapped(a, size) == a.size - size      \* mutant: a signed size
SizeLess(a, size) == (a.size - size) % SizeMod

DeallocBlock(a, b) ==
  [a EXCEPT
     !.live = @ \ {b},
     !.block = [c \in Blocks |-> IF c = b THEN Freed ELSE Unlinked(a, b, c)],
     !.block_count = @ - 1,
     !.size = SizeLess(a, a.block[b].size)]

(* The last block is never given back. *)
DeallocHeadBlock(a) ==
  IF a.block_count <= 1 THEN a
  ELSE [DeallocBlock(a, a.head_block)
          EXCEPT !.head_block = a.block[a.head_block].next]

DeallocTailBlock(a) ==
  IF a.block_count <= 1 THEN a
  ELSE [DeallocBlock(a, a.tail_block)
          EXCEPT !.tail_block = a.block[a.tail_block].prev]

(* The blocks a loop from the head along the next pointers visits. *)
WalkedFromCursor(a) ==             \* mutant: the loop starts at the cursor
  {b \in Blocks :
     \A S \in SUBSET Blocks :
       a.cursor_block \in S /\ (\A c \in S : a.block[c].next \in S \cup {Null})
         => b \in S}
Walked(a) ==
  {b \in Blocks :
     \A S \in SUBSET Blocks :
       a.head_block \in S /\ (\A c \in S : a.block[c].next \in S \cup {Null})
         => b \in S}

RestartedLeft(a, b) ==             \* mutant: right_offset is not reset
  [a.block[b] EXCEPT !.left_offset = StartOffset(a.block_size, a.block_offset)]
Restarted(a, b) ==
  LET start == StartOffset(a.block_size, a.block_offset)
  IN  [a.block[b] EXCEPT !.left_offset = start, !.right_offset = start]

(* lf_reset_arena keeps every block; lf_dealloc_arena frees them all. *)
ResetArena(a) ==
  LET walked == Walked(a)
  IN  [a EXCEPT !.block = [b \in Blocks |-> IF b \in walked THEN Restarted(a, b)
                                                           ELSE @[b]],
                !.size = 0]

DeallocArena(a) == [a EXCEPT !.live = @ \ Walked(a)]

IsBlockEmpty(blk) == blk.left_offset = blk.right_offset

-----------------------------------------------------------------------------
(* s lists the blocks from head to tail, and prev and next agree with it. *)
IsChain(a, s) ==
  /\ \A b \in a.live : \E i \in 1 .. a.block_count : s[i] = b
  /\ \A i, j \in 1 .. a.block_count : s[i] = s[j] => i = j
  /\ s[1] = a.head_block
  /\ s[a.block_count] = a.tail_block
  /\ \A i \in 1 .. a.block_count :
       /\ a.block[s[i]].prev = IF i = 1 THEN Null ELSE s[i - 1]
       /\ a.block[s[i]].next = IF i = a.block_count THEN Null ELSE s[i + 1]

Chains(a) == {s \in [1 .. a.block_count -> a.live] : IsChain(a, s)}

(* The block list is one doubly linked chain through exactly the live blocks. *)
Chained(a) == a.block_count >= 1 /\ Chains(a) # {}

(* Used bytes lie inside their block. *)
InBounds(a) ==
  \A b \in a.live : /\ a.block[b].left_offset <= a.block[b].right_offset
                    /\ a.block[b].right_offset <= a.block[b].size
                    /\ a.block[b].size = a.block_size

ArenaOK(a) == a \in Arenas /\ Chained(a) /\ InBounds(a)

(* The blocks in list order, followed from the head along next. *)
Chain(a) ==
  LET at[i \in 1 .. a.block_count] ==
        IF i = 1 THEN a.head_block ELSE a.block[at[i - 1]].next
  IN  at
-----------------------------------------------------------------------------
(* Arenas of elements of one size: pointers to their elements, in the order *)
(* of the block list and of the offsets.                                    *)

(* elem_size rounded up to the alignment, as lf_init_stack and lf_init_list do. *)
PaddedSize(size, alignment) ==
  size + ((alignment - (size % alignment)) % alignment)

ElemPtrs(a, b, step) ==
  [i \in 1 .. (a.block[b].right_offset - a.block[b].left_offset) \div step |->
     [block |-> b, off |-> a.block[b].left_offset + (i - 1) * step]]

ElemsInOrder(a, step) ==
  LET s == Chain(a)
  IN  FlattenSeq([i \in 1 .. a.block_count |-> ElemPtrs(a, s[i], step)])

(* lf_get_arena_elem_by_content: the cursor's block first, then the others  *)
(* from the head on.  matches: the places that hold the wanted content.     *)
StopAtCursor(a, b) == IF b = a.cursor_block THEN Null ELSE b   \* mutant
AfterCursor(a, b) == IF b = a.cursor_block THEN a.block[b].next ELSE b

(* The first of these pointers that is wanted. *)
FirstHit(ptrs, matches) ==
  LET hits == {i \in DOMAIN ptrs : ptrs[i] \in matches}
  IN  IF hits = {} THEN Null ELSE ptrs[Min(hits)]

GetElemByContent(a, matches, step) ==
  LET HitIn(b) == FirstHit(ElemPtrs(a, b, step), matches)
      from[b \in Blocks \cup {Null}] ==
        LET cur == AfterCursor(a, b)
        IN  IF cur = Null THEN Null
            ELSE IF HitIn(cur) # Null THEN HitIn(cur)
            ELSE from[a.block[cur].next]
  IN  IF HitIn(a.cursor_block) # Null THEN HitIn(a.cursor_block)
      ELSE from[a.head_block]
=============================================================================
