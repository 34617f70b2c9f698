---------------------------- MODULE StackProofs -----------------------------
(***************************************************************************)
(* Theorems about Stack for any blocks, element sizes and values, when     *)
(* clients reset only a stack they have drained.                           *)
(***************************************************************************)
EXTENDS Stack, ArenaOpsProofs

(* Every caller's element size is its own padded size (ElemAssumption). *)
LEMMA Sizes ==
  /\ PaddedSize(ElemSize, ElemAlignment) = ElemSize
  /\ BlockSize = ElemQtt * ElemSize
  /\ BlockSize \in Nat \ {0}
  /\ ElemSize \in 1 .. BlockSize
<1>1. /\ ElemSize \in Nat \ {0} /\ ElemAlignment \in Nat \ {0} /\ ElemQtt \in Nat \ {0}
      /\ ElemSize % ElemAlignment = 0
  BY ElemAssumption
<1>2. (ElemAlignment - 0) % ElemAlignment = 0
  BY <1>1
<1>3. PaddedSize(ElemSize, ElemAlignment) = ElemSize
  BY <1>1, <1>2 DEF PaddedSize
<1>4. BlockSize = ElemQtt * ElemSize
  BY <1>3 DEF BlockSize
<1>5. ElemQtt * ElemSize \in Nat \ {0} /\ ElemSize <= ElemQtt * ElemSize
  BY <1>1
<1> QED  BY <1>1, <1>3, <1>4, <1>5

(* A chain of one block has no other block. *)
LEMMA OnlyHeadLives ==
  ASSUME NEW a, ArenaOK(a), a.block_count = 1
  PROVE  \A b \in a.live : b = a.head_block
  BY DEF ArenaOK, Chained, Chains, IsChain

-----------------------------------------------------------------------------
(* The inductive invariant.  It says of the head block how many of its     *)
(* elements are free; k <= ElemQtt is what keeps a push from needing room  *)
(* below offset 0 and a pop from going beyond the block.                   *)
HeadFree(a, count) ==
  \E k \in 0 .. ElemQtt :
    /\ a.block[a.head_block].left_offset = k * ElemSize
    /\ count = a.block_count * ElemQtt - k

OthersFull(a) ==
  \A b \in a.live :
    /\ a.block[b].right_offset = BlockSize
    /\ b # a.head_block => a.block[b].left_offset = 0

Shape(a, count) ==
  /\ ArenaOK(a)
  /\ a.block_size = BlockSize /\ a.block_offset = "right"
  /\ a.cursor_block = a.tail_block
  /\ OthersFull(a)
  /\ HeadFree(a, count)

StackIInv ==
  /\ stack \in Stacks
  /\ stack.elem_size = ElemSize /\ stack.elem_padded_size = ElemSize
  /\ Shape(stack.arena, stack.elem_count)

(* A stack that counts no element has one block. *)
LEMMA EmptyHasOneBlock ==
  ASSUME NEW a, Shape(a, 0)
  PROVE  a.block_count = 1
<1>1. a.block_count \in Nat /\ a.block_count >= 1
  BY DEF Shape, ArenaOK, Arenas, Chained
<1>2. PICK k \in 0 .. ElemQtt : 0 = a.block_count * ElemQtt - k
  BY DEF Shape, HeadFree
<1>3. ElemQtt \in Nat \ {0}
  BY ElemAssumption
<1>4. a.block_count * ElemQtt <= ElemQtt
  BY <1>1, <1>2, <1>3
<1>5. a.block_count >= 2 => a.block_count * ElemQtt >= 2 * ElemQtt
  BY <1>1, <1>3
<1> QED  BY <1>1, <1>3, <1>4, <1>5

-----------------------------------------------------------------------------
(* lf_init_stack. *)
LEMMA InitShape ==
  ASSUME NEW n \in Blocks
  PROVE  Shape(InitArena(n, BlockSize, "right"), 0)
<1> DEFINE a == InitArena(n, BlockSize, "right")
<1>1. ArenaOK(a)
  BY InitArenaOK, Sizes DEF Offsets
<1>2. StartOffset(BlockSize, "right") = BlockSize
  BY DEF StartOffset
<1>3. /\ a.block_size = BlockSize /\ a.block_offset = "right"
      /\ a.cursor_block = n /\ a.tail_block = n /\ a.head_block = n
      /\ a.live = {n} /\ a.block_count = 1
      /\ a.block[n].left_offset = BlockSize /\ a.block[n].right_offset = BlockSize
  BY <1>2 DEF InitArena
<1> HIDE DEF a
<1>4. OthersFull(a)
  BY <1>3 DEF OthersFull
<1>5. HeadFree(a, 0)
  <2>1. ElemQtt \in 0 .. ElemQtt /\ 0 = 1 * ElemQtt - ElemQtt
    BY ElemAssumption
  <2> QED  BY <1>3, <2>1, Sizes DEF HeadFree
<1> QED  BY <1>1, <1>3, <1>4, <1>5 DEF Shape, a

(* lf_alloc_stack_elem: one element more, in the head block or a new one.  *)
LEMMA PushShape ==
  ASSUME NEW a, NEW count \in Nat, Shape(a, count),
         NEW h \in AllocAtHead(a, ElemSize)
  PROVE  Shape(h, count + 1) /\ h.block[h.head_block].left_offset < BlockSize
<1>1. /\ ArenaOK(a) /\ a \in Arenas /\ Chained(a) /\ a.block_count \in Nat
      /\ a.live \subseteq Blocks /\ a.block_size = BlockSize
      /\ a.block_offset = "right" /\ a.cursor_block = a.tail_block
      /\ OthersFull(a)
  BY DEF Shape, ArenaOK, Arenas
<1>2. a.head_block \in a.live
  BY <1>1, ChainEnds
<1>3. /\ ElemSize \in Nat \ {0} /\ ElemQtt \in Nat \ {0}
      /\ BlockSize = ElemQtt * ElemSize /\ BlockSize \in Nat
  BY ElemAssumption, Sizes
<1>4. PICK k \in 0 .. ElemQtt :
        /\ a.block[a.head_block].left_offset = k * ElemSize
        /\ count = a.block_count * ElemQtt - k
  BY DEF Shape, HeadFree
<1>5. ElemSize \in Nat
  BY <1>3
<1>6. CASE ~(HeadRoom(a) < ElemSize)
  <2>1. h = HeadTaken(a, ElemSize)
    BY <1>6 DEF AllocAtHead, HeadTaken
  <2>2. k >= 1 /\ ElemSize <= a.block[a.head_block].left_offset
    BY <1>3, <1>4, <1>6 DEF HeadRoom
  <2>3. /\ ArenaOK(h) /\ h.live = a.live /\ h.block_count = a.block_count
        /\ h.head_block = a.head_block /\ h.tail_block = a.tail_block
        /\ h.block_size = a.block_size /\ h.block_offset = a.block_offset
        /\ h.block[a.head_block].left_offset =
             a.block[a.head_block].left_offset - ElemSize
        /\ h.block[a.head_block].right_offset = a.block[a.head_block].right_offset
        /\ \A b \in Blocks \ {a.head_block} : h.block[b] = a.block[b]
    BY <1>1, <1>5, <2>1, <2>2, HeadBytesTaken
  <2>4. h.cursor_block = a.cursor_block
    BY <1>1, <2>1 DEF HeadTaken, Arenas
  <2>5. OthersFull(h)
    BY <1>1, <2>3 DEF OthersFull
  <2>6. /\ k - 1 \in 0 .. ElemQtt
        /\ k * ElemSize - ElemSize = (k - 1) * ElemSize
        /\ count + 1 = a.block_count * ElemQtt - (k - 1)
    BY <1>1, <1>3, <1>4, <2>2
  <2>7. HeadFree(h, count + 1)
    BY <1>4, <2>3, <2>6 DEF HeadFree
  <2>8. k * ElemSize - ElemSize < ElemQtt * ElemSize
    <3>1. k * ElemSize <= ElemQtt * ElemSize
      BY <1>3
    <3>2. k * ElemSize \in Nat
      BY <1>3
    <3> QED  BY <1>3, <3>1, <3>2
  <2> QED  BY <1>1, <1>3, <1>4, <2>3, <2>4, <2>5, <2>7, <2>8 DEF Shape
<1>7. CASE HeadRoom(a) < ElemSize
  <2>1. PICK n \in Fresh(a) : h = HeadTaken(AllocHeadBlock(a, n), ElemSize)
    BY <1>7 DEF AllocAtHead, HeadTaken
  <2> DEFINE g == AllocHeadBlock(a, n)
  <2>2. n \in Blocks /\ n \notin a.live /\ n # a.head_block
    BY <1>2 DEF Fresh
  <2>3. k = 0
    BY <1>3, <1>4, <1>7 DEF HeadRoom
  <2>4. /\ ArenaOK(g) /\ g.live = a.live \cup {n} /\ g.head_block = n
        /\ g.block_size = a.block_size /\ g.block_offset = a.block_offset
        /\ \A b \in a.live :
             /\ g.block[b].left_offset = a.block[b].left_offset
             /\ g.block[b].right_offset = a.block[b].right_offset
    BY <1>1, AllocHeadBlockKeeps
  <2>5. /\ g \in Arenas
        /\ g.tail_block = a.tail_block /\ g.cursor_block = a.cursor_block
        /\ g.block_count = a.block_count + 1
        /\ g.block[n].left_offset = BlockSize
        /\ g.block[n].right_offset = BlockSize
    <3>1. /\ g \in Arenas
          /\ g.tail_block = a.tail_block /\ g.cursor_block = a.cursor_block
          /\ g.block_count = a.block_count + 1
          /\ g.block[n] = [left_offset |-> a.block_size, right_offset |-> a.block_size,
                           size |-> a.block_size, prev |-> Null, next |-> a.head_block]
      BY <1>1, <2>2, AllocHeadBlockFields
    <3> HIDE DEF g
    <3> QED  BY <1>1, <3>1
  <2>6. h = HeadTaken(g, ElemSize)
    BY <2>1
  <2> HIDE DEF g
  <2>7. ElemSize <= g.block[g.head_block].left_offset
    BY <2>4, <2>5, Sizes
  <2>8. /\ ArenaOK(h) /\ h.live = g.live /\ h.block_count = g.block_count
        /\ h.head_block = n /\ h.tail_block = g.tail_block
        /\ h.block_size = g.block_size /\ h.block_offset = g.block_offset
        /\ h.block[n].left_offset = BlockSize - ElemSize
        /\ h.block[n].right_offset = BlockSize
        /\ \A b \in Blocks \ {n} : h.block[b] = g.block[b]
    BY <1>5, <2>4, <2>5, <2>6, <2>7, HeadBytesTaken
  <2>9. h.cursor_block = g.cursor_block
    BY <2>5, <2>6 DEF HeadTaken, Arenas
  <2>10. OthersFull(h)
    <3>1. ASSUME NEW b \in h.live, b # n
          PROVE  h.block[b].right_offset = BlockSize /\ h.block[b].left_offset = 0
      <4>1. b \in a.live /\ b \in Blocks
        BY <1>1, <2>4, <2>8, <3>1
      <4>2. a.block[b].right_offset = BlockSize /\ a.block[b].left_offset = 0
        BY <1>1, <1>4, <2>3, <1>3, <4>1 DEF OthersFull
      <4> QED  BY <2>4, <2>8, <3>1, <4>1, <4>2
    <3> QED  BY <2>8, <3>1 DEF OthersFull
  <2>11. /\ ElemQtt - 1 \in 0 .. ElemQtt
         /\ BlockSize - ElemSize = (ElemQtt - 1) * ElemSize
         /\ count + 1 = (a.block_count + 1) * ElemQtt - (ElemQtt - 1)
    BY <1>1, <1>3, <1>4, <2>3
  <2>12. HeadFree(h, count + 1)
    BY <2>5, <2>8, <2>11 DEF HeadFree
  <2> QED  BY <1>1, <1>3, <2>4, <2>5, <2>8, <2>9, <2>10, <2>12 DEF Shape
<1> QED  BY <1>6, <1>7

(* What lf_dealloc_arena_head_block leaves, beyond DeallocHeadBlockOK. *)
LEMMA DeallocHeadBlockFields ==
  ASSUME NEW a, ArenaOK(a), a.block_count > 1
  PROVE  LET h == DeallocHeadBlock(a)
         IN  /\ h.live = a.live \ {a.head_block}
             /\ h.tail_block = a.tail_block /\ h.cursor_block = a.cursor_block
             /\ h.block_count = a.block_count - 1
<1> DEFINE h == DeallocHeadBlock(a)
           g == DeallocBlock(a, a.head_block)
<1>1. a \in Arenas /\ a.head_block \in Blocks
  BY DEF ArenaOK, Arenas
<1>2. h = [g EXCEPT !.head_block = a.block[a.head_block].next]
  BY <1>1 DEF DeallocHeadBlock, Arenas
<1>3. /\ g \in Arenas /\ g.live = a.live \ {a.head_block}
      /\ g.tail_block = a.tail_block /\ g.cursor_block = a.cursor_block
      /\ g.block_count = a.block_count - 1
  BY <1>1, DeallocBlockFields
<1> HIDE DEF g, h
<1> QED  BY <1>2, <1>3 DEF Arenas, h

(* The first step of a pop: an emptied head block is given back, and the    *)
(* head has an element then.                                                *)
LEMMA PopArenaShape ==
  ASSUME NEW s, NEW count \in Nat \ {0}, Shape(s.arena, count)
  PROVE  LET h == PopArena(s)
         IN  Shape(h, count) /\ h.block[h.head_block].left_offset < BlockSize
<1> DEFINE a == s.arena
           h == PopArena(s)
           head == a.block[a.head_block]
<1>1. /\ ArenaOK(a) /\ a \in Arenas /\ Chained(a) /\ a.block_count \in Nat
      /\ a.block_count >= 1 /\ a.live \subseteq Blocks /\ a.block_size = BlockSize
      /\ a.block_offset = "right" /\ a.cursor_block = a.tail_block
      /\ OthersFull(a)
  BY DEF Shape, ArenaOK, Arenas, Chained
<1>2. a.head_block \in a.live /\ head.right_offset = BlockSize
  BY <1>1, ChainEnds DEF OthersFull
<1>3. /\ ElemSize \in Nat \ {0} /\ ElemQtt \in Nat \ {0}
      /\ BlockSize = ElemQtt * ElemSize /\ BlockSize \in Nat \ {0}
  BY ElemAssumption, Sizes
<1>4. PICK k \in 0 .. ElemQtt :
        head.left_offset = k * ElemSize /\ count = a.block_count * ElemQtt - k
  BY DEF Shape, HeadFree
<1>5. CASE ~IsBlockEmpty(head)
  <2>1. h = a
    BY <1>5 DEF PopArena
  <2>2. k # ElemQtt
    BY <1>2, <1>3, <1>4, <1>5 DEF IsBlockEmpty
  <2>3. k * ElemSize < ElemQtt * ElemSize
    BY <1>3, <2>2
  <2> QED  BY <1>3, <1>4, <2>1, <2>3
<1>6. CASE IsBlockEmpty(head)
  <2>1. h = DeallocHeadBlock(a)
    BY <1>6 DEF PopArena
  <2>2. k = ElemQtt
    <3>1. k * ElemSize = ElemQtt * ElemSize
      BY <1>2, <1>3, <1>4, <1>6 DEF IsBlockEmpty
    <3>2. k < ElemQtt => k * ElemSize < ElemQtt * ElemSize
      BY <1>3
    <3> QED  BY <1>3, <3>1, <3>2
  <2>3. a.block_count > 1
    BY <1>1, <1>3, <1>4, <2>2
  <2>4. /\ ArenaOK(h)
        /\ h.block_size = a.block_size /\ h.block_offset = a.block_offset
        /\ \A b \in h.live : /\ h.block[b].left_offset = a.block[b].left_offset
                             /\ h.block[b].right_offset = a.block[b].right_offset
    BY <1>1, <2>1, DeallocHeadBlockOK
  <2>5. /\ h.live = a.live \ {a.head_block}
        /\ h.tail_block = a.tail_block /\ h.cursor_block = a.cursor_block
        /\ h.block_count = a.block_count - 1
    BY <1>1, <2>1, <2>3, DeallocHeadBlockFields
  <2> HIDE DEF h
  <2>6. h.head_block \in h.live
    BY <2>4, ChainEnds DEF ArenaOK, Arenas
  <2>7. OthersFull(h) /\ h.block[h.head_block].left_offset = 0
    BY <1>1, <2>4, <2>5, <2>6 DEF OthersFull
  <2>8. count = (a.block_count - 1) * ElemQtt - 0 /\ 0 = 0 * ElemSize /\ 0 \in 0 .. ElemQtt
    BY <1>1, <1>3, <1>4, <2>2
  <2>9. HeadFree(h, count)
    BY <2>5, <2>7, <2>8 DEF HeadFree
  <2> QED  BY <1>1, <1>3, <2>4, <2>5, <2>7, <2>9 DEF Shape, h
<1> QED  BY <1>5, <1>6

(* h is a without its head block's first element. *)
HeadElemGone(h, a) ==
  /\ SameLinks(h, a)
  /\ h.block[a.head_block].left_offset = a.block[a.head_block].left_offset + ElemSize
  /\ h.block[a.head_block].right_offset = a.block[a.head_block].right_offset
  /\ \A c \in h.live \ {h.head_block} : SameOffsets(h, a, c)

(* Taking one element off the head block moves one of its offsets only. *)
HeadMoved(a, left, right) ==
  [a EXCEPT !.block[a.head_block].left_offset = left,
            !.block[a.head_block].right_offset = right]

LEMMA HeadElemFreed ==
  ASSUME NEW a, NEW count \in Nat, Shape(a, count),
         a.block[a.head_block].left_offset < BlockSize,
         NEW h, NEW left, NEW right,
         left = a.block[a.head_block].left_offset + ElemSize,
         right = IF left > a.block[a.head_block].right_offset THEN left
                 ELSE a.block[a.head_block].right_offset,
         h = HeadMoved(a, left, right)
  PROVE  Shape(h, count - 1) /\ HeadElemGone(h, a)
<1> DEFINE old == a.block[a.head_block]
           new == [old EXCEPT !.left_offset = left]
<1>1. /\ ArenaOK(a) /\ a \in Arenas /\ Chained(a) /\ InBounds(a) /\ a.block_count \in Nat
      /\ a.live \subseteq Blocks /\ a.block_size = BlockSize
      /\ a.block_offset = "right" /\ a.cursor_block = a.tail_block
      /\ OthersFull(a) /\ a.block \in [Blocks -> MemBlocks]
  BY DEF Shape, ArenaOK, Arenas
<1>2. a.head_block \in a.live /\ a.head_block \in Blocks
  BY <1>1, ChainEnds
<1>3. /\ ElemSize \in Nat \ {0} /\ ElemQtt \in Nat \ {0}
      /\ BlockSize = ElemQtt * ElemSize /\ BlockSize \in Nat \ {0}
  BY ElemAssumption, Sizes
<1>4. PICK k \in 0 .. ElemQtt :
        old.left_offset = k * ElemSize /\ count = a.block_count * ElemQtt - k
  BY DEF Shape, HeadFree
<1>5. /\ k + 1 \in 0 .. ElemQtt
      /\ left = (k + 1) * ElemSize
      /\ count - 1 = a.block_count * ElemQtt - (k + 1)
  <2>1. k = ElemQtt => ~(k * ElemSize < BlockSize)
    BY <1>3
  <2> QED  BY <1>1, <1>3, <1>4, <2>1
<1>6. left \in Nat /\ left <= BlockSize
  <2>1. (k + 1) * ElemSize <= ElemQtt * ElemSize
    BY <1>3, <1>5
  <2> QED  BY <1>3, <1>5, <2>1
<1>7. old \in MemBlocks /\ old.right_offset = BlockSize /\ old.size = BlockSize
  BY <1>1, <1>2 DEF OthersFull, InBounds
<1>8. right = old.right_offset
  BY <1>3, <1>6, <1>7
<1>9. /\ new \in MemBlocks /\ new.left_offset = left /\ new.right_offset = BlockSize
      /\ new.size = BlockSize /\ new.prev = old.prev /\ new.next = old.next
  BY <1>6, <1>7 DEF MemBlocks
<1>10. h.block = [a.block EXCEPT ![a.head_block] = new]
  BY <1>1, <1>2, <1>7, <1>8 DEF Arenas, MemBlocks, HeadMoved
<1>11. /\ h.block \in [Blocks -> MemBlocks]
       /\ h.block[a.head_block] = new
       /\ \A b \in Blocks \ {a.head_block} : h.block[b] = a.block[b]
  <2> HIDE DEF new, old
  <2> QED  BY <1>1, <1>2, <1>9, <1>10
<1>12. /\ h.live = a.live /\ h.block_count = a.block_count
       /\ h.head_block = a.head_block /\ h.tail_block = a.tail_block
       /\ h.cursor_block = a.cursor_block
       /\ h.block_size = a.block_size /\ h.block_offset = a.block_offset
  BY <1>1 DEF Arenas, HeadMoved
<1>13. h \in Arenas
  <2>1. h = [a EXCEPT !.block = h.block]
    BY <1>1 DEF Arenas, HeadMoved
  <2> QED  BY <1>1, <1>11, <2>1 DEF Arenas
<1> HIDE DEF new, old
<1>14. \A b \in a.live : /\ h.block[b].prev = a.block[b].prev
                         /\ h.block[b].next = a.block[b].next
                         /\ h.block[b].size = a.block[b].size
                         /\ h.block[b].right_offset = BlockSize
                         /\ b # a.head_block =>
                              h.block[b].left_offset = a.block[b].left_offset
  <2> TAKE b \in a.live
  <2>1. CASE b = a.head_block
    BY <1>7, <1>9, <1>11, <2>1 DEF old
  <2>2. CASE b # a.head_block
    BY <1>1, <1>11, <2>2 DEF OthersFull
  <2> QED  BY <2>1, <2>2
<1>15. Chained(h)
  BY <1>1, <1>12, <1>14, SameLinksChained
<1>16. h.block[a.head_block].left_offset = left
  BY <1>9, <1>11
<1>17. InBounds(h)
  <2>1. ASSUME NEW b \in a.live
        PROVE  /\ h.block[b].left_offset <= h.block[b].right_offset
               /\ h.block[b].right_offset <= h.block[b].size
               /\ h.block[b].size = h.block_size
    <3>1. a.block[b].size = BlockSize /\ a.block[b].left_offset <= BlockSize
      BY <1>1 DEF InBounds, OthersFull
    <3>2. BlockSize <= BlockSize
      BY <1>3
    <3>3. a.block_size = BlockSize /\ h.block_size = a.block_size
      BY <1>1, <1>12
    <3>4. h.block[b].left_offset <= BlockSize
      BY <1>6, <1>14, <1>16, <3>1, ZenonT(60)
    <3> QED  BY <1>14, <3>1, <3>2, <3>3, <3>4
  <2>2. h.live = a.live
    BY <1>12
  <2> QED  BY <2>1, <2>2 DEF InBounds
<1>18. OthersFull(h)
  <2>1. ASSUME NEW b \in a.live, b # a.head_block
        PROVE  h.block[b].left_offset = 0
    BY <1>1, <1>14, <2>1 DEF OthersFull
  <2> QED  BY <1>12, <1>14, <2>1 DEF OthersFull
<1>19. HeadFree(h, count - 1)
  BY <1>5, <1>12, <1>16 DEF HeadFree
<1>20. Shape(h, count - 1)
  BY <1>1, <1>12, <1>13, <1>15, <1>17, <1>18, <1>19 DEF Shape, ArenaOK
<1>21. SameLinks(h, a)
  BY <1>12, <1>14 DEF SameLinks
<1>22. h.block[a.head_block].right_offset = a.block[a.head_block].right_offset
  BY <1>2, <1>7, <1>14 DEF old
<1>23. \A c \in h.live \ {h.head_block} : SameOffsets(h, a, c)
  <2> TAKE c \in h.live \ {h.head_block}
  <2>1. c \in a.live /\ c # a.head_block
    BY <1>12
  <2>2. a.block[c].right_offset = BlockSize
    BY <1>1, <2>1 DEF OthersFull
  <2> QED  BY <1>14, <2>1, <2>2 DEF SameOffsets
<1> QED  BY <1>16, <1>20, <1>21, <1>22, <1>23 DEF HeadElemGone

(* lf_pop_from_stack of a stack that counts an element. *)
LEMMA PopShape ==
  ASSUME NEW s \in Stacks, s.elem_padded_size = ElemSize, ~IsStackEmpty(s),
         Shape(s.arena, s.elem_count)
  PROVE  LET t == PopFromStack(s)
         IN  /\ t \in Stacks
             /\ t.elem_size = s.elem_size /\ t.elem_padded_size = s.elem_padded_size
             /\ Shape(t.arena, t.elem_count)
<1> DEFINE t == PopFromStack(s)
           a == PopArena(s)
           left == a.block[a.head_block].left_offset + ElemSize
           right == IF left > a.block[a.head_block].right_offset THEN left
                    ELSE a.block[a.head_block].right_offset
           h == HeadMoved(a, left, right)
<1>1. s.elem_count \in Nat \ {0}
  BY DEF Stacks, IsStackEmpty
<1>2. Shape(a, s.elem_count) /\ a.block[a.head_block].left_offset < BlockSize
  BY <1>1, PopArenaShape
<1>3. t = [s EXCEPT !.arena = h, !.elem_count = s.elem_count - 1]
  BY DEF PopFromStack, HeadMoved, CountAfterPop, Stacks
<1> HIDE DEF a, t
<1>4. Shape(h, s.elem_count - 1)
  <2> HIDE DEF h
  <2>1. h = HeadMoved(a, left, right) /\ s.elem_count \in Nat
    BY <1>1 DEF h
  <2> HIDE DEF left, right
  <2>2. /\ left = a.block[a.head_block].left_offset + ElemSize
        /\ right = IF left > a.block[a.head_block].right_offset THEN left
                   ELSE a.block[a.head_block].right_offset
    BY DEF left, right
  <2> QED  BY <1>2, <2>1, <2>2, HeadElemFreed
<1> HIDE DEF h
<1>5. h \in Arenas /\ s.elem_count - 1 \in Nat
  BY <1>1, <1>4 DEF Shape, ArenaOK
<1>6. /\ t \in Stacks /\ t.arena = h /\ t.elem_count = s.elem_count - 1
      /\ t.elem_size = s.elem_size /\ t.elem_padded_size = s.elem_padded_size
  BY <1>3, <1>5 DEF Stacks
<1> QED  BY <1>4, <1>6 DEF t

(* lf_reset_stack of a drained stack: its one block starts at its end again. *)
LEMMA ResetShape ==
  ASSUME NEW a, Shape(a, 0)
  PROVE  Shape(ResetArena(a), 0)
<1> DEFINE h == ResetArena(a)
<1>1. /\ ArenaOK(a) /\ a \in Arenas /\ a.live \subseteq Blocks
      /\ a.block_size = BlockSize /\ a.block_offset = "right"
      /\ a.cursor_block = a.tail_block
  BY DEF Shape, ArenaOK, Arenas
<1>2. a.block_count = 1
  BY EmptyHasOneBlock
<1>3. /\ ArenaOK(h) /\ h.block_size = a.block_size
      /\ h.block_offset = a.block_offset /\ h.live = a.live
  BY <1>1, ResetArenaOK
<1>4. /\ h.head_block = a.head_block /\ h.tail_block = a.tail_block
      /\ h.cursor_block = a.cursor_block /\ h.block_count = a.block_count
      /\ h.block = [b \in Blocks |-> IF b \in Walked(a) THEN Restarted(a, b)
                                                       ELSE a.block[b]]
  BY <1>1 DEF ResetArena, Arenas
<1>5. StartOffset(a.block_size, a.block_offset) = BlockSize
  BY <1>1 DEF StartOffset
<1>6. ASSUME NEW b \in a.live
      PROVE  h.block[b].left_offset = BlockSize /\ h.block[b].right_offset = BlockSize
  <2>1. h.block[b] = Restarted(a, b)
    BY <1>1, <1>4, WalkedIsLive
  <2>2. a.block[b] \in MemBlocks
    BY <1>1 DEF Arenas
  <2> QED  BY <1>5, <2>1, <2>2 DEF Restarted, MemBlocks
<1> HIDE DEF h
<1>7. a.head_block \in a.live /\ \A b \in h.live : b = h.head_block
  <2>1. a.head_block \in a.live
    BY <1>1, ChainEnds DEF ArenaOK, Arenas
  <2> QED  BY <1>1, <1>2, <1>3, <1>4, <2>1, OnlyHeadLives
<1>8. OthersFull(h)
  BY <1>3, <1>6, <1>7 DEF OthersFull
<1>9. HeadFree(h, 0)
  <2>1. ElemQtt \in 0 .. ElemQtt /\ 0 = 1 * ElemQtt - ElemQtt /\ BlockSize = ElemQtt * ElemSize
    BY ElemAssumption, Sizes
  <2> QED  BY <1>2, <1>4, <1>6, <1>7, <2>1 DEF HeadFree
<1> QED  BY <1>1, <1>3, <1>4, <1>8, <1>9 DEF Shape, h

-----------------------------------------------------------------------------
LEMMA InitStackIInv == Init => StackIInv
<1> SUFFICES ASSUME Init PROVE StackIInv
  OBVIOUS
<1>1. PICK n \in Blocks : stack = InitStack(n, ElemSize, ElemAlignment, ElemQtt)
  BY DEF Init
<1> DEFINE a == InitArena(n, BlockSize, "right")
<1>2. stack = [arena |-> a, elem_count |-> 0, elem_size |-> ElemSize,
               elem_padded_size |-> ElemSize]
  BY <1>1, Sizes DEF InitStack
<1>3. Shape(a, 0) /\ a \in Arenas
  BY InitShape DEF Shape, ArenaOK
<1> HIDE DEF a
<1> QED  BY <1>2, <1>3, ElemAssumption DEF StackIInv, Stacks

LEMMA NextStackIInv ==
  ASSUME ~ResetsAnywhere, StackIInv, [Next]_vars
  PROVE  StackIInv'
<1>1. /\ stack \in Stacks /\ stack.elem_count \in Nat
      /\ stack.elem_size = ElemSize /\ stack.elem_padded_size = ElemSize
      /\ Shape(stack.arena, stack.elem_count)
  BY DEF StackIInv, Stacks
<1>2. ASSUME NEW v \in Values, Push(v)
      PROVE  StackIInv'
  <2>1. PICK h \in AllocAtHead(stack.arena, ElemSize) :
          stack' = [stack EXCEPT !.arena = h, !.elem_count = stack.elem_count + 1]
    BY <1>1, <1>2 DEF Push, AllocStackElem, Stacks
  <2>2. /\ Shape(h, stack.elem_count + 1)
        /\ h \in Arenas /\ stack.elem_count + 1 \in Nat
    BY <1>1, <2>1, PushShape DEF Shape, ArenaOK
  <2>3. /\ stack' \in Stacks /\ stack'.arena = h
        /\ stack'.elem_count = stack.elem_count + 1
        /\ stack'.elem_size = ElemSize /\ stack'.elem_padded_size = ElemSize
    BY <1>1, <2>1, <2>2 DEF Stacks
  <2> QED  BY <2>2, <2>3 DEF StackIInv
<1>3. ASSUME NEW v \in Values, Find(v)
      PROVE  StackIInv'
  BY <1>3 DEF Find, StackIInv
<1>4. CASE Pop
  <2>1. stack' = PopFromStack(stack)
    BY <1>4 DEF Pop
  <2>2. CASE IsStackEmpty(stack)
    BY <2>1, <2>2 DEF PopFromStack, StackIInv
  <2>3. CASE ~IsStackEmpty(stack)
    BY <1>1, <2>1, <2>3, PopShape DEF StackIInv
  <2> QED  BY <2>2, <2>3
<1>5. CASE Reset
  <2>1. stack.elem_count = 0 /\ stack' = [stack EXCEPT !.arena = ResetArena(@)]
    BY <1>5 DEF Reset, IsStackEmpty, ResetStack
  <2>2. Shape(ResetArena(stack.arena), 0) /\ ResetArena(stack.arena) \in Arenas
    BY <1>1, <2>1, ResetShape DEF Shape, ArenaOK
  <2>3. /\ stack' \in Stacks /\ stack'.arena = ResetArena(stack.arena)
        /\ stack'.elem_count = 0
        /\ stack'.elem_size = ElemSize /\ stack'.elem_padded_size = ElemSize
    BY <1>1, <2>1, <2>2 DEF Stacks
  <2> QED  BY <2>2, <2>3 DEF StackIInv
<1>6. CASE UNCHANGED vars
  BY <1>6 DEF vars, StackIInv
<1> QED  BY <1>2, <1>3, <1>4, <1>5, <1>6 DEF Next

(* Only the head block has room, all others are full to both ends, and      *)
(* elem_count, kept apart from the offsets, counts what the offsets hold:   *)
(* stack.c:20-62, for all sizes, while only drained stacks are reset.       *)
THEOREM StackKeepsShape ==
  ASSUME ~ResetsAnywhere
  PROVE  Spec => []StackShape
<1>1. ASSUME StackIInv
      PROVE  StackShape
  <2> DEFINE a == stack.arena
  <2>1. /\ ArenaOK(a) /\ Chained(a) /\ a \in Arenas /\ a.block_count \in Nat
        /\ a.cursor_block = a.tail_block /\ OthersFull(a)
        /\ stack.elem_padded_size = ElemSize
        /\ a.block_size = BlockSize
    BY <1>1 DEF StackIInv, Shape, ArenaOK, Arenas
  <2>2. a.head_block \in a.live /\ a.tail_block \in a.live
    BY <2>1, ChainEnds
  <2>3. /\ ElemSize \in Nat \ {0} /\ ElemQtt \in Nat \ {0}
        /\ BlockSize = ElemQtt * ElemSize
    BY ElemAssumption, Sizes
  <2>4. PICK k \in 0 .. ElemQtt :
          /\ a.block[a.head_block].left_offset = k * ElemSize
          /\ stack.elem_count = a.block_count * ElemQtt - k
    BY <1>1 DEF StackIInv, Shape, HeadFree
  <2>5. (a.block_count * ElemQtt - k) * ElemSize
          = a.block_count * (ElemQtt * ElemSize) - k * ElemSize
    BY <2>1, <2>3
  <2>6. stack.elem_count * stack.elem_padded_size =
          a.block_count * BlockSize - a.block[a.head_block].left_offset
    BY <2>1, <2>3, <2>4, <2>5
  <2>7. ASSUME NEW b \in a.live
        PROVE  /\ a.block[b].right_offset = BlockSize
               /\ a.block[b].left_offset \in 0 .. BlockSize
               /\ b # a.head_block => a.block[b].left_offset = 0
    <3>1. a.block[b] \in MemBlocks
      BY <2>1 DEF Arenas
    <3>2. a.block[b].left_offset <= a.block[b].right_offset
      BY <2>1 DEF ArenaOK, InBounds
    <3> QED  BY <2>1, <3>1, <3>2 DEF OthersFull, MemBlocks
  <2> QED  BY <2>1, <2>2, <2>6, <2>7 DEF StackShape
<1> QED  BY <1>1, InitStackIInv, NextStackIInv, PTL DEF Spec

-----------------------------------------------------------------------------
(* What the scan of the blocks meets after each operation.  A push: the new *)
(* element lies below the others of the head block or in a block of its own. *)
HeadLowered(a, h) ==
  LET b == a.head_block
  IN  /\ SameLinks(a, h)
      /\ a.block[b].left_offset = h.block[b].left_offset + ElemSize
      /\ h.block[b].right_offset = a.block[b].right_offset
      /\ \A c \in a.live \ {b} : SameOffsets(a, h, c)

HeadAdded(a, h) ==
  LET b == h.head_block
  IN  /\ b \in Fresh(a) /\ h.live = a.live \cup {b}
      /\ h.block_count = a.block_count + 1
      /\ h.block[b].next = a.head_block
      /\ h.block[b].left_offset = BlockSize - ElemSize
      /\ h.block[b].right_offset = BlockSize
      /\ \A c \in a.live : h.block[c].next = a.block[c].next /\ SameOffsets(a, h, c)

LEMMA PushedArena ==
  ASSUME NEW a, NEW count \in Nat, Shape(a, count),
         NEW h \in AllocAtHead(a, ElemSize)
  PROVE  HeadLowered(a, h) \/ HeadAdded(a, h)
<1>1. /\ ArenaOK(a) /\ a \in Arenas /\ Chained(a) /\ a.block_count \in Nat
      /\ a.live \subseteq Blocks /\ a.block_size = BlockSize
  BY DEF Shape, ArenaOK, Arenas
<1>2. a.head_block \in a.live /\ a.head_block \in Blocks
  BY <1>1, ChainEnds
<1>3. ElemSize \in Nat /\ BlockSize \in Nat /\ ElemSize <= BlockSize
  BY ElemAssumption, Sizes
<1>4. a.block[a.head_block].left_offset \in Nat
  BY <1>1, <1>2 DEF Arenas, MemBlocks
<1>5. CASE ~(HeadRoom(a) < ElemSize)
  <2>1. h = HeadTaken(a, ElemSize)
    BY <1>5 DEF AllocAtHead, HeadTaken
  <2>2. ElemSize <= a.block[a.head_block].left_offset
    BY <1>3, <1>4, <1>5 DEF HeadRoom
  <2>3. /\ h.live = a.live /\ h.block_count = a.block_count
        /\ h.head_block = a.head_block /\ h.tail_block = a.tail_block
        /\ h.block[a.head_block].left_offset =
             a.block[a.head_block].left_offset - ElemSize
        /\ h.block[a.head_block].right_offset = a.block[a.head_block].right_offset
        /\ \A b \in Blocks \ {a.head_block} : h.block[b] = a.block[b]
        /\ \A b \in a.live : h.block[b].next = a.block[b].next
    BY <1>1, <1>3, <2>1, <2>2, HeadBytesTaken
  <2>4. a.block[a.head_block].left_offset = h.block[a.head_block].left_offset + ElemSize
    BY <1>3, <1>4, <2>3
  <2>5. \A c \in a.live \ {a.head_block} : SameOffsets(a, h, c)
    BY <1>1, <2>3 DEF SameOffsets
  <2>6. HeadLowered(a, h)
    BY <2>3, <2>4, <2>5 DEF HeadLowered, SameLinks
  <2> QED  BY <2>6
<1>6. CASE HeadRoom(a) < ElemSize
  <2>1. PICK n \in Fresh(a) : h = HeadTaken(AllocHeadBlock(a, n), ElemSize)
    BY <1>6 DEF AllocAtHead, HeadTaken
  <2> DEFINE g == AllocHeadBlock(a, n)
  <2>2. n \in Blocks /\ n \notin a.live /\ n # a.head_block
    BY <1>2 DEF Fresh
  <2>3. /\ ArenaOK(g) /\ g.live = a.live \cup {n} /\ g.head_block = n
        /\ g.block_count = a.block_count + 1
        /\ g.block[n] = [left_offset |-> a.block_size, right_offset |-> a.block_size,
                         size |-> a.block_size, prev |-> Null, next |-> a.head_block]
        /\ g.block[a.head_block] = [a.block[a.head_block] EXCEPT !.prev = n]
        /\ \A b \in Blocks \ {n, a.head_block} : g.block[b] = a.block[b]
    BY <1>1, <2>2, AllocHeadBlockFields, AllocHeadBlockKeeps
  <2> HIDE DEF g
  <2>4. /\ g.block[n].left_offset = BlockSize /\ g.block[n].right_offset = BlockSize
        /\ g.block[n].next = a.head_block
    BY <1>1, <2>3
  <2>5. \A c \in a.live : g.block[c].next = a.block[c].next /\ SameOffsets(a, g, c)
    <3> TAKE c \in a.live
    <3>1. CASE c = a.head_block
      <4>1. a.block[c] \in MemBlocks
        BY <1>1, <1>2, <3>1 DEF Arenas
      <4> QED  BY <2>3, <3>1, <4>1 DEF SameOffsets, MemBlocks
    <3>2. CASE c # a.head_block
      BY <1>1, <2>2, <2>3, <3>2 DEF SameOffsets
    <3> QED  BY <3>1, <3>2
  <2>6. ElemSize <= g.block[g.head_block].left_offset /\ h = HeadTaken(g, ElemSize)
    BY <1>3, <2>1, <2>3, <2>4 DEF g
  <2>7. /\ h.live = g.live /\ h.block_count = g.block_count /\ h.head_block = n
        /\ h.block[n].left_offset = BlockSize - ElemSize
        /\ h.block[n].right_offset = BlockSize
        /\ \A b \in Blocks \ {n} : h.block[b] = g.block[b]
        /\ \A b \in g.live : h.block[b].next = g.block[b].next
    BY <1>3, <2>3, <2>4, <2>6, HeadBytesTaken
  <2>8. \A c \in a.live : h.block[c].next = a.block[c].next /\ SameOffsets(a, h, c)
    <3> TAKE c \in a.live
    <3>1. c \in Blocks \ {n} /\ c \in g.live
      BY <1>1, <2>2, <2>3
    <3> QED  BY <2>5, <2>7, <3>1 DEF SameOffsets
  <2>9. h.block[n].next = a.head_block
    BY <2>3, <2>4, <2>7
  <2>10. HeadAdded(a, h)
    BY <2>3, <2>7, <2>8, <2>9 DEF HeadAdded
  <2> QED  BY <2>10
<1> QED  BY <1>5, <1>6

LEMMA PushElems ==
  ASSUME NEW a, NEW count \in Nat, Shape(a, count),
         NEW h \in AllocAtHead(a, ElemSize)
  PROVE  /\ ElemsInOrder(h, ElemSize) = <<HeadPtr(h)>> \o ElemsInOrder(a, ElemSize)
         /\ HeadPtr(h) \in ElemPtr
         /\ HeadPtr(h).off \in 0 .. BlockSize - 1
         /\ HeadPtr(h) \notin Range(ElemsInOrder(a, ElemSize))
<1> DEFINE b == h.head_block
           p == HeadPtr(h)
<1>1. /\ ArenaOK(a) /\ a \in Arenas /\ Chained(a) /\ InBounds(a)
      /\ a.block_count \in Nat /\ a.live \subseteq Blocks
      /\ a.head_block \in a.live
  BY ChainEnds DEF Shape, ArenaOK, Arenas
<1>2. /\ ArenaOK(h) /\ h \in Arenas /\ Chained(h) /\ InBounds(h)
      /\ h.block_count \in Nat /\ h.live \subseteq Blocks /\ b \in h.live
      /\ h.block[b].left_offset < BlockSize
  BY PushShape, ChainEnds DEF Shape, ArenaOK, Arenas
<1>3. ElemSize \in Nat \ {0} /\ BlockSize \in Nat
  BY ElemAssumption, Sizes
<1>4. h.block[b].left_offset \in 0 .. BlockSize - 1 /\ b \in Blocks
  BY <1>2, <1>3 DEF Arenas, MemBlocks
<1>5. p = [block |-> b, off |-> h.block[b].left_offset]
  BY DEF HeadPtr
<1>6. p \in ElemPtr /\ p.off \in 0 .. BlockSize - 1
  BY <1>4, <1>5 DEF ElemPtr
<1>7. CASE HeadLowered(a, h)
  <2>1. /\ SameLinks(a, h) /\ b = a.head_block
        /\ a.block[b].left_offset = h.block[b].left_offset + ElemSize
        /\ h.block[b].right_offset = a.block[b].right_offset
        /\ \A c \in a.live \ {a.head_block} : SameOffsets(a, h, c)
    BY <1>7 DEF HeadLowered, SameLinks
  <2>2. ElemPtrs(h, a.head_block, ElemSize)
          = <<p>> \o ElemPtrs(a, a.head_block, ElemSize)
    <3>1. b \in a.live
      BY <1>1, <2>1
    <3> HIDE DEF b
    <3>2. ElemPtrs(h, b, ElemSize)
            = <<[block |-> b, off |-> h.block[b].left_offset]>> \o ElemPtrs(a, b, ElemSize)
      BY <1>1, <1>2, <1>3, <1>4, <2>1, <3>1, ElemPtrsBelow
    <3> QED  BY <1>5, <2>1, <3>2
  <2> HIDE DEF p
  <2>3. <<p>> \in Seq(ElemPtr)
    BY <1>6
  <2>4. ElemsInOrder(h, ElemSize) = <<p>> \o ElemsInOrder(a, ElemSize)
    BY <1>1, <1>2, <1>3, <2>1, <2>2, <2>3, ElemsHeadGrown
  <2>5. p \notin Range(ElemsInOrder(a, ElemSize))
    <3> SUFFICES ASSUME p \in Range(ElemsInOrder(a, ElemSize)) PROVE FALSE
      OBVIOUS
    <3>1. a.block[p.block].left_offset <= p.off
      BY <1>1, <1>3, ElemPlaces
    <3> QED  BY <1>3, <1>4, <1>5, <2>1, <3>1
  <2> QED  BY <1>6, <2>4, <2>5 DEF p
<1>8. CASE HeadAdded(a, h)
  <2>1. /\ b \notin a.live /\ h.block_count = a.block_count + 1
        /\ h.block[b].next = a.head_block
        /\ h.block[b].left_offset = BlockSize - ElemSize
        /\ h.block[b].right_offset = BlockSize
        /\ \A c \in a.live : h.block[c].next = a.block[c].next /\ SameOffsets(a, h, c)
    BY <1>8 DEF HeadAdded, Fresh
  <2>2. ElemPtrs(h, b, ElemSize) = <<p>>
    <3>1. (h.block[b].right_offset - h.block[b].left_offset) \div ElemSize = 1
      <4>1. BlockSize - (BlockSize - ElemSize) = 1 * ElemSize
        BY <1>3
      <4>2. (1 * ElemSize) \div ElemSize = 1
        BY <1>3, MultDiv
      <4> QED  BY <2>1, <4>1, <4>2
    <3> DEFINE off == h.block[b].left_offset
    <3>2. ElemPtrs(h, b, ElemSize)
            = [i \in 1 .. 1 |-> [block |-> b, off |-> off + (i - 1) * ElemSize]]
      BY <3>1 DEF ElemPtrs
    <3>3. off \in Nat
      BY <1>4
    <3> HIDE DEF off
    <3>4. \A i \in 1 .. 1 : off + (i - 1) * ElemSize = off
      BY <1>3, <3>3
    <3>5. ElemPtrs(h, b, ElemSize) = [i \in 1 .. 1 |-> p]
      BY <1>5, <3>2, <3>4 DEF off
    <3> HIDE DEF p
    <3>6. [i \in 1 .. 1 |-> p] = <<p>>
      OBVIOUS
    <3> QED  BY <3>5, <3>6
  <2>3. ElemsInOrder(h, ElemSize) = ElemPtrs(h, b, ElemSize) \o ElemsInOrder(a, ElemSize)
    BY <1>1, <1>2, <1>3, <2>1, ElemsInFront
  <2>4. p \notin Range(ElemsInOrder(a, ElemSize))
    BY <1>1, <1>3, <1>5, <2>1, ElemPlaces
  <2> QED  BY <1>6, <2>2, <2>3, <2>4
<1> QED  BY <1>7, <1>8, PushedArena

(* Giving back an emptied head block loses no element. *)
LEMMA PopArenaElems ==
  ASSUME NEW s, NEW count \in Nat \ {0}, Shape(s.arena, count)
  PROVE  /\ ElemsInOrder(PopArena(s), ElemSize) = ElemsInOrder(s.arena, ElemSize)
         /\ PopArena(s).live \subseteq s.arena.live
<1> DEFINE a == s.arena
           h == PopArena(s)
           b == a.head_block
<1>1. /\ ArenaOK(a) /\ a \in Arenas /\ Chained(a) /\ InBounds(a)
      /\ a.block_count \in Nat /\ a.live \subseteq Blocks /\ b \in a.live
  BY ChainEnds DEF Shape, ArenaOK, Arenas
<1>2. CASE ~IsBlockEmpty(a.block[b])
  BY <1>2 DEF PopArena
<1>3. CASE IsBlockEmpty(a.block[b])
  <2>1. h = DeallocHeadBlock(a)
    BY <1>3 DEF PopArena
  <2>2. a.block_count > 1
    <3>1. Shape(h, count) /\ h.block[h.head_block].left_offset < BlockSize
      BY PopArenaShape
    <3>2. a.block[b].left_offset = BlockSize
      BY <1>1, <1>3 DEF Shape, OthersFull, IsBlockEmpty
    <3>3. a.block_count <= 1 => h = a
      BY <2>1 DEF DeallocHeadBlock
    <3>4. BlockSize \in Nat
      BY Sizes
    <3> HIDE DEF h
    <3> QED  BY <1>1, <3>1, <3>2, <3>3, <3>4
  <2>3. /\ ArenaOK(h) /\ h.live \subseteq a.live
        /\ \A c \in h.live : /\ h.block[c].left_offset = a.block[c].left_offset
                             /\ h.block[c].right_offset = a.block[c].right_offset
    BY <1>1, <2>1, DeallocHeadBlockOK
  <2>4. h.live = a.live \ {b} /\ h.block_count = a.block_count - 1
    BY <1>1, <2>1, <2>2, DeallocHeadBlockFields
  <2> DEFINE g == DeallocBlock(a, b)
  <2>5. /\ g \in Arenas /\ \A c \in a.live \ {b} : g.block[c] = Unlinked(a, b, c)
    BY <1>1, <2>2, DeallocBlockFields
  <2>6. h = [g EXCEPT !.head_block = a.block[b].next]
    BY <1>1, <2>1, <2>2 DEF DeallocHeadBlock
  <2> HIDE DEF g
  <2>7. h.head_block = a.block[b].next /\ h.block = g.block
    BY <2>5, <2>6 DEF Arenas
  <2> HIDE DEF h
  <2>8. a.block[b].prev = Null
    <3>1. 1 \in 1 .. a.block_count
      BY <1>1, <2>2
    <3> QED  BY <1>1, <3>1 DEF Chained, Chains, IsChain
  <2>9. \A c \in h.live : a.block[c].next = h.block[c].next /\ SameOffsets(h, a, c)
    <3> TAKE c \in h.live
    <3>1. c \in Blocks /\ c # Null /\ a.block[c] \in MemBlocks
      BY <1>1, <2>4, BlocksAssumption DEF Arenas
    <3>2. h.block[c] = Unlinked(a, b, c)
      BY <2>4, <2>5, <2>7
    <3>3. h.block[c].next = a.block[c].next
      BY <2>8, <3>1, <3>2 DEF Unlinked, MemBlocks
    <3> QED  BY <2>3, <3>3 DEF SameOffsets
  <2>10. a.block_count = h.block_count + 1
    BY <1>1, <2>4
  <2>11. ElemSize \in Nat \ {0}
    BY ElemAssumption
  <2>12. ElemsInOrder(a, ElemSize)
           = ElemPtrs(a, b, ElemSize) \o ElemsInOrder(h, ElemSize)
    BY <1>1, <2>3, <2>7, <2>9, <2>10, <2>11, ElemsInFront
  <2>13. ElemPtrs(a, b, ElemSize) = <<>>
    <3>1. a.block[b].right_offset - a.block[b].left_offset = 0 * ElemSize
      BY <1>1, <1>3, <2>11 DEF IsBlockEmpty, Arenas, MemBlocks
    <3>2. (0 * ElemSize) \div ElemSize = 0
      BY <2>11, MultDiv
    <3>3. Len(ElemPtrs(a, b, ElemSize)) = 0 /\ ElemPtrs(a, b, ElemSize) \in Seq(ElemPtr)
      BY <1>1, <2>11, <3>1, <3>2, ElemPtrsType
    <3> QED  BY <3>3, EmptySeq
  <2>14. ElemsInOrder(h, ElemSize) \in Seq(ElemPtr)
    BY <2>3, <2>11, ElemsInOrderType
  <2>15. ElemsInOrder(a, ElemSize) = ElemsInOrder(h, ElemSize)
    BY <2>12, <2>13, <2>14, ConcatEmptySeq
  <2> QED  BY <2>3, <2>15 DEF h
<1> QED  BY <1>2, <1>3

(* A pop takes the first element met, and leaves the others as they were. *)
LEMMA PopElems ==
  ASSUME NEW s \in Stacks, s.elem_padded_size = ElemSize, ~IsStackEmpty(s),
         Shape(s.arena, s.elem_count)
  PROVE  LET t == PopFromStack(s)
         IN  /\ ElemsInOrder(s.arena, ElemSize)
                  = <<PoppedPtr(s)>> \o ElemsInOrder(t.arena, ElemSize)
             /\ PoppedPtr(s) \in ElemPtr
             /\ t.arena.live \subseteq s.arena.live
<1> DEFINE t == PopFromStack(s)
           a == PopArena(s)
           b == a.head_block
           left == a.block[b].left_offset + ElemSize
           right == IF left > a.block[b].right_offset THEN left
                    ELSE a.block[b].right_offset
           h == HeadMoved(a, left, right)
           p == PoppedPtr(s)
<1>1. s.elem_count \in Nat \ {0}
  BY DEF Stacks, IsStackEmpty
<1>2. Shape(a, s.elem_count) /\ a.block[b].left_offset < BlockSize
  BY <1>1, PopArenaShape
<1>3. /\ ElemsInOrder(a, ElemSize) = ElemsInOrder(s.arena, ElemSize)
      /\ a.live \subseteq s.arena.live
  BY <1>1, PopArenaElems
<1>4. t.arena = h
  <2>1. t = [s EXCEPT !.arena = h, !.elem_count = s.elem_count - 1]
    BY DEF PopFromStack, HeadMoved, CountAfterPop, Stacks
  <2> HIDE DEF h, t
  <2> QED  BY <2>1 DEF Stacks
<1>5. p = HeadPtr(a)
  BY DEF PoppedPtr
<1>6. p = [block |-> b, off |-> a.block[b].left_offset]
  BY <1>5 DEF HeadPtr
<1> HIDE DEF a, t, p
<1>7. /\ Shape(h, s.elem_count - 1) /\ SameLinks(h, a)
      /\ h.block[b].left_offset = left
      /\ h.block[b].right_offset = a.block[b].right_offset
      /\ \A c \in h.live \ {h.head_block} : SameOffsets(h, a, c)
  <2> HIDE DEF h
  <2>1. h = HeadMoved(a, left, right) /\ s.elem_count \in Nat
    BY <1>1 DEF h
  <2> HIDE DEF left, right
  <2>2. /\ left = a.block[a.head_block].left_offset + ElemSize
        /\ right = IF left > a.block[a.head_block].right_offset THEN left
                   ELSE a.block[a.head_block].right_offset
    BY DEF left, right
  <2>3. Shape(h, s.elem_count - 1) /\ HeadElemGone(h, a)
    BY <1>2, <2>1, <2>2, HeadElemFreed
  <2> QED  BY <2>2, <2>3 DEF HeadElemGone
<1> HIDE DEF h, right
<1>8. /\ ArenaOK(a) /\ a \in Arenas /\ InBounds(a) /\ b \in a.live /\ b \in Blocks
      /\ a.block[b].left_offset \in Nat
  BY <1>2, ChainEnds DEF Shape, ArenaOK, Arenas, MemBlocks
<1>9. /\ ArenaOK(h) /\ h \in Arenas /\ InBounds(h) /\ h.live = a.live /\ h.head_block = b
  BY <1>7 DEF Shape, ArenaOK, SameLinks
<1>10. ElemSize \in Nat \ {0}
  BY ElemAssumption
<1>11. p \in ElemPtr
  BY <1>6, <1>8 DEF ElemPtr
<1> HIDE DEF b
<1>12. h.block[b].left_offset = a.block[b].left_offset + ElemSize
  BY <1>7
<1> HIDE DEF left
<1>13. ElemPtrs(a, b, ElemSize) = <<p>> \o ElemPtrs(h, b, ElemSize)
  <2>1. b \in h.live /\ a.block[b].right_offset = h.block[b].right_offset
    BY <1>7, <1>8, <1>9
  <2>2. ElemPtrs(a, b, ElemSize)
          = <<[block |-> b, off |-> a.block[b].left_offset]>> \o ElemPtrs(h, b, ElemSize)
    <3>1. /\ a \in Arenas /\ InBounds(a) /\ b \in a.live /\ b \in Blocks
          /\ h \in Arenas /\ InBounds(h) /\ b \in h.live
          /\ h.block[b].left_offset = a.block[b].left_offset + ElemSize
          /\ a.block[b].right_offset = h.block[b].right_offset
      BY <1>8, <1>9, <1>12, <2>1
    <3> QED  BY <1>10, <3>1, ElemPtrsBelow
  <2> QED  BY <1>6, <2>2
<1>14. ElemsInOrder(a, ElemSize) = <<p>> \o ElemsInOrder(h, ElemSize)
  <2>1. <<p>> \in Seq(ElemPtr)
    BY <1>11
  <2>2. ElemPtrs(a, h.head_block, ElemSize) = <<p>> \o ElemPtrs(h, h.head_block, ElemSize)
    BY <1>9, <1>13
  <2> QED  BY <1>7, <1>8, <1>9, <1>10, <2>1, <2>2, ElemsHeadGrown, ZenonT(60)
<1> QED  BY <1>3, <1>4, <1>9, <1>11, <1>14 DEF t, p

(* A drained stack has no element. *)
LEMMA EmptyNoElems ==
  ASSUME NEW a, Shape(a, 0)
  PROVE  ElemsInOrder(a, ElemSize) = <<>>
<1>1. /\ ArenaOK(a) /\ a \in Arenas /\ Chained(a) /\ InBounds(a)
      /\ a.block_count = 1 /\ a.block_count \in Nat
  BY EmptyHasOneBlock DEF Shape, ArenaOK, Arenas
<1> DEFINE b == a.head_block
           seqs == ElemSeqs(a, ElemSize)
<1>2. b \in a.live /\ b \in Blocks
  BY <1>1, ChainEnds DEF Arenas
<1>3. ElemSize \in Nat \ {0} /\ ElemQtt \in Nat \ {0} /\ BlockSize = ElemQtt * ElemSize
  BY ElemAssumption, Sizes
<1>4. a.block[b].left_offset = BlockSize /\ a.block[b].right_offset = BlockSize
  <2>1. PICK k \in 0 .. ElemQtt :
          a.block[b].left_offset = k * ElemSize /\ 0 = a.block_count * ElemQtt - k
    BY DEF Shape, HeadFree
  <2>2. k = ElemQtt
    BY <1>1, <1>3, <2>1
  <2>3. a.block[b].right_offset = BlockSize
    BY <1>2 DEF Shape, OthersFull
  <2> QED  BY <1>3, <2>1, <2>2, <2>3
<1>5. ElemPtrs(a, b, ElemSize) = <<>>
  <2>1. a.block[b].right_offset - a.block[b].left_offset = 0 * ElemSize
    BY <1>3, <1>4, Sizes
  <2>2. (0 * ElemSize) \div ElemSize = 0
    BY <1>3, MultDiv
  <2>3. Len(ElemPtrs(a, b, ElemSize)) = 0 /\ ElemPtrs(a, b, ElemSize) \in Seq(ElemPtr)
    BY <1>1, <1>2, <1>3, <2>1, <2>2, ElemPtrsType
  <2> QED  BY <2>3, EmptySeq
<1>6. seqs \in Seq(Seq(ElemPtr)) /\ Len(seqs) = 1
  BY <1>1, <1>3, ElemSeqsType
<1>7. seqs[1] = ElemPtrs(a, b, ElemSize)
  <2>1. Chain(a)[1] = b
    BY <1>1, ChainOfChained DEF IsChain
  <2> QED  BY <1>1, <2>1 DEF ElemSeqs
<1> HIDE DEF seqs
<1>8. FlattenSeq(seqs) = seqs[1]
  BY <1>6, FlattenOne
<1> QED  BY <1>1, <1>3, <1>5, <1>7, <1>8, ElemsInOrderType DEF seqs

-----------------------------------------------------------------------------
(* The elements' bytes.  Content(m) is what memory m holds at each pointer, *)
(* so that the stack's items are its pointers mapped by it.                 *)
Memories == [Blocks -> [0 .. BlockSize - 1 -> Cells]]

ReadIn(m, p) ==
  IF p = Null THEN NoElem
  ELSE IF p.off \in 0 .. BlockSize - 1 THEN m[p.block][p.off] ELSE Junk

Content(m) == [p \in ElemPtr |-> ReadIn(m, p)]

ItemsIn(a, m) == Mapped(Content(m), ElemsInOrder(a, ElemSize))

LEMMA ItemsAre ==
  ASSUME NEW a, ArenaOK(a), NEW m
  PROVE  [i \in DOMAIN ElemsInOrder(a, ElemSize) |->
             ReadIn(m, ElemsInOrder(a, ElemSize)[i])] = ItemsIn(a, m)
<1> DEFINE ptrs == ElemsInOrder(a, ElemSize)
<1>1. ptrs \in Seq(ElemPtr)
  BY ElemAssumption, ElemsInOrderType
<1>2. \A i \in DOMAIN ptrs : ptrs[i] \in ElemPtr
  BY <1>1
<1> HIDE DEF ptrs
<1>3. \A i \in DOMAIN ptrs : Content(m)[ptrs[i]] = ReadIn(m, ptrs[i])
  BY <1>2 DEF Content
<1> QED  BY <1>3 DEF ItemsIn, Mapped, ptrs

(* A pushed value is written where nothing was. *)
Written(a, m, p, v) ==
  LET data == IF p.block \in a.live THEN m[p.block] ELSE NewData
  IN  [m EXCEPT ![p.block] = [data EXCEPT ![p.off] = v]]

OnlyWritten(a, m, m2, p, v) ==
  /\ m2 \in Memories
  /\ Content(m2)[p] = v
  /\ \A q \in ElemPtr : q.block \in a.live /\ q # p => Content(m2)[q] = Content(m)[q]

LEMMA ContentWritten ==
  ASSUME NEW a, NEW m \in Memories, NEW p \in ElemPtr, p.off \in 0 .. BlockSize - 1,
         NEW v \in Values
  PROVE  OnlyWritten(a, m, Written(a, m, p, v), p, v)
<1> DEFINE data == IF p.block \in a.live THEN m[p.block] ELSE NewData
           m2 == Written(a, m, p, v)
<1>1. p.block \in Blocks /\ p = [block |-> p.block, off |-> p.off] /\ v \in Cells
  BY DEF ElemPtr, Cells
<1>2. data \in [0 .. BlockSize - 1 -> Cells]
  BY <1>1 DEF Memories, NewData, Cells
<1>3. p.block \in a.live => data = m[p.block]
  OBVIOUS
<1>4. m2 = [m EXCEPT ![p.block] = [data EXCEPT ![p.off] = v]]
  BY DEF Written
<1> HIDE DEF data, m2
<1>5. /\ m2 \in Memories /\ m2[p.block] = [data EXCEPT ![p.off] = v]
      /\ \A b \in Blocks : b # p.block => m2[b] = m[b]
  BY <1>1, <1>2, <1>4 DEF Memories
<1>6. m2[p.block][p.off] = v /\ \A o \in 0 .. BlockSize - 1 : o # p.off => m2[p.block][o] = data[o]
  BY <1>2, <1>5
<1>7. \A q \in ElemPtr : q # Null
  BY NullAssumption DEF ElemPtr
<1>8. Content(m2)[p] = v
  BY <1>6, <1>7 DEF Content, ReadIn
<1>9. ASSUME NEW q \in ElemPtr, q.block \in a.live, q # p
      PROVE  Content(m2)[q] = Content(m)[q]
  <2>1. q = [block |-> q.block, off |-> q.off] /\ q.block \in Blocks
    BY DEF ElemPtr
  <2>2. CASE q.block # p.block
    BY <1>5, <2>1, <2>2 DEF Content, ReadIn
  <2>3. CASE q.block = p.block
    <3>1. q.off # p.off
      BY <1>1, <1>9, <2>1, <2>3
    <3>2. q.off \in 0 .. BlockSize - 1 => m2[q.block][q.off] = m[q.block][q.off]
      BY <1>3, <1>6, <1>9, <2>3, <3>1
    <3> QED  BY <3>2 DEF Content, ReadIn
  <2> QED  BY <2>2, <2>3
<1> QED  BY <1>5, <1>8, <1>9 DEF m2, OnlyWritten

(* The memory of a freed block is gone. *)
Kept(m, live) == [b \in Blocks |-> IF b \in live THEN m[b] ELSE NewData]

LEMMA ContentKept ==
  ASSUME NEW m \in Memories, NEW live
  PROVE  /\ Kept(m, live) \in Memories
         /\ \A q \in ElemPtr : q.block \in live => Content(Kept(m, live))[q] = Content(m)[q]
<1>1. NewData \in [0 .. BlockSize - 1 -> Cells]
  BY DEF NewData, Cells
<1> HIDE DEF NewData
<1>2. Kept(m, live) \in Memories
  BY <1>1 DEF Kept, Memories
<1>3. \A b \in Blocks : b \in live => Kept(m, live)[b] = m[b]
  BY DEF Kept
<1>4. \A q \in ElemPtr : q.block \in Blocks
  BY DEF ElemPtr
<1> QED  BY <1>2, <1>3, <1>4 DEF Content, ReadIn

(* Every element the scan meets was written: the second half of the        *)
(* inductive invariant.                                                     *)
Filled(a, m) ==
  m \in Memories /\ ReadsInto(Content(m), ElemsInOrder(a, ElemSize), Values)

ItemsIInv ==
  /\ StackIInv
  /\ Filled(stack.arena, mem)
  /\ out \in Values \cup {NoElem}

LEMMA ItemsType ==
  ASSUME NEW a, ArenaOK(a), NEW m, Filled(a, m)
  PROVE  ItemsIn(a, m) \in Seq(Values) /\ ElemsInOrder(a, ElemSize) \in Seq(ElemPtr)
<1>1. ElemsInOrder(a, ElemSize) \in Seq(ElemPtr)
  BY ElemAssumption, ElemsInOrderType
<1> QED  BY <1>1, MappedType DEF Filled, ItemsIn

LEMMA PushItems ==
  ASSUME NEW a, NEW count \in Nat, Shape(a, count), NEW m, Filled(a, m),
         NEW h \in AllocAtHead(a, ElemSize), NEW v \in Values
  PROVE  LET m2 == Written(a, m, HeadPtr(h), v)
         IN  Filled(h, m2) /\ ItemsIn(h, m2) = <<v>> \o ItemsIn(a, m)
<1> DEFINE p == HeadPtr(h)
           m2 == Written(a, m, p, v)
           old == ElemsInOrder(a, ElemSize)
           new == ElemsInOrder(h, ElemSize)
<1>1. /\ new = <<p>> \o old /\ p \in ElemPtr /\ p.off \in 0 .. BlockSize - 1
      /\ p \notin Range(old)
  BY PushElems
<1>2. ArenaOK(a) /\ ElemSize \in Nat \ {0} /\ m \in Memories
      /\ ReadsInto(Content(m), old, Values)
  BY ElemAssumption DEF Shape, Filled
<1>3. old \in Seq(ElemPtr)
  BY <1>2, ElemsInOrderType
<1> HIDE DEF p
<1>4. /\ m2 \in Memories /\ Content(m2)[p] = v
      /\ \A q \in ElemPtr : q.block \in a.live /\ q # p => Content(m2)[q] = Content(m)[q]
  <2>1. OnlyWritten(a, m, m2, p, v)
    BY <1>1, <1>2, ContentWritten
  <2> HIDE DEF m2
  <2> QED  BY <2>1 DEF OnlyWritten
<1>5. \A q \in Range(old) : q \in ElemPtr /\ q.block \in a.live
  BY <1>2, ElemPlaces
<1> HIDE DEF m2, old, new
<1>6. \A q \in Range(old) : Content(m2)[q] = Content(m)[q]
  BY <1>1, <1>4, <1>5
<1>7. ReadsInto(Content(m2), old, Values)
  BY <1>2, <1>6 DEF ReadsInto
<1>8. /\ Mapped(Content(m2), new) = <<v>> \o Mapped(Content(m2), old)
      /\ Range(new) = {p} \cup Range(old)
  <2>1. Content(m2)[p] \in Values
    BY <1>4
  <2>2. p \in ElemPtr /\ new = <<p>> \o old
    BY <1>1
  <2>3. ReadsOneMore(Content(m2), p, old, ElemPtr, Values)
    BY <1>3, <1>7, <2>1, <2>2 DEF ReadsOneMore
  <2>4. /\ Mapped(Content(m2), Cons(p, old)) = Cons(Content(m2)[p], Mapped(Content(m2), old))
        /\ Range(Cons(p, old)) = {p} \cup Range(old)
    BY <2>3, MappedCons
  <2> QED  BY <1>4, <2>2, <2>4 DEF Cons
<1>9. Mapped(Content(m2), old) = Mapped(Content(m), old)
  BY <1>6, MappedSame
<1>10. ReadsInto(Content(m2), new, Values)
  BY <1>4, <1>7, <1>8 DEF ReadsInto
<1> QED  BY <1>4, <1>8, <1>9, <1>10 DEF Filled, ItemsIn, p, m2, old, new

LEMMA PopItems ==
  ASSUME NEW s \in Stacks, s.elem_padded_size = ElemSize, ~IsStackEmpty(s),
         Shape(s.arena, s.elem_count), NEW m, Filled(s.arena, m)
  PROVE  LET a  == PopFromStack(s).arena
             m2 == Kept(m, a.live)
             x  == ReadIn(m, PoppedPtr(s))
         IN  /\ Filled(a, m2) /\ x \in Values
             /\ ItemsIn(s.arena, m) = <<x>> \o ItemsIn(a, m2)
<1> DEFINE a == PopFromStack(s).arena
           m2 == Kept(m, a.live)
           p == PoppedPtr(s)
           old == ElemsInOrder(s.arena, ElemSize)
           new == ElemsInOrder(a, ElemSize)
<1>1. old = <<p>> \o new /\ p \in ElemPtr
  BY PopElems
<1>2. ArenaOK(a) /\ ElemSize \in Nat \ {0} /\ m \in Memories
      /\ ReadsInto(Content(m), old, Values)
  BY ElemAssumption, PopShape DEF Shape, Filled
<1>3. new \in Seq(ElemPtr)
  BY <1>2, ElemsInOrderType
<1>4. \A q \in Range(new) : q \in ElemPtr /\ q.block \in a.live
  BY <1>2, ElemPlaces
<1> HIDE DEF a, p, old, new
<1>5. m2 \in Memories /\ \A q \in ElemPtr : q.block \in a.live => Content(m2)[q] = Content(m)[q]
  BY <1>2, ContentKept
<1> HIDE DEF m2
<1>6. \A q \in Range(new) : Content(m2)[q] = Content(m)[q]
  BY <1>4, <1>5
<1>7. Range(<<p>>) = {p}
  BY DEF Range
<1>8. Range(old) = Range(<<p>>) \cup Range(new)
  <2>1. <<p>> \in Seq(ElemPtr)
    BY <1>1
  <2> QED  BY <1>1, <1>3, <2>1, RangeConcatenation, ZenonT(60)
<1>9. ReadsInto(Content(m), new, Values) /\ Content(m)[p] \in Values
  BY <1>2, <1>7, <1>8 DEF ReadsInto
<1>10. Mapped(Content(m), old) = <<Content(m)[p]>> \o Mapped(Content(m), new)
  <2>1. Content(m)[p] \in Values /\ p \in ElemPtr /\ old = <<p>> \o new
    BY <1>1, <1>9
  <2>2. ReadsOneMore(Content(m), p, new, ElemPtr, Values)
    BY <1>3, <1>9, <2>1 DEF ReadsOneMore
  <2>3. Mapped(Content(m), Cons(p, new)) = Cons(Content(m)[p], Mapped(Content(m), new))
    BY <2>2, MappedCons
  <2> QED  BY <2>1, <2>3 DEF Cons
<1>11. Mapped(Content(m2), new) = Mapped(Content(m), new)
  BY <1>6, MappedSame
<1>12. ReadsInto(Content(m2), new, Values)
  BY <1>6, <1>9 DEF ReadsInto
<1>13. Content(m)[p] = ReadIn(m, p)
  BY <1>1 DEF Content
<1> QED  BY <1>5, <1>9, <1>10, <1>11, <1>12, <1>13 DEF Filled, ItemsIn, a, m2, p, old, new

LEMMA DrainedItems ==
  ASSUME NEW a, Shape(a, 0), NEW m \in Memories
  PROVE  Filled(a, m) /\ ItemsIn(a, m) = <<>>
<1>1. ElemsInOrder(a, ElemSize) = <<>>
  BY EmptyNoElems
<1>2. Range(<<>>) = {}
  BY DEF Range
<1>3. ReadsInto(Content(m), <<>>, Values)
  BY <1>2 DEF ReadsInto
<1> DEFINE none == <<>>
<1>4. none \in Seq(ElemPtr) /\ Len(none) = 0 /\ ReadsInto(Content(m), none, Values)
  BY <1>3
<1> HIDE DEF none
<1>5. Mapped(Content(m), none) \in Seq(Values) /\ Len(Mapped(Content(m), none)) = 0
  <2>1. none \in Seq(ElemPtr) /\ ReadsInto(Content(m), none, Values)
    BY <1>4
  <2>2. Mapped(Content(m), none) \in Seq(Values) /\ Len(Mapped(Content(m), none)) = Len(none)
    BY <2>1, MappedType
  <2> QED  BY <1>4, <2>2
<1>6. Mapped(Content(m), <<>>) = <<>>
  BY <1>5, EmptySeq DEF none
<1> QED  BY <1>1, <1>3, <1>6 DEF Filled, ItemsIn

(* A search reads a value it looked for, and only a missing one is missed. *)
LEMMA FindItems ==
  ASSUME NEW a, NEW count, Shape(a, count), NEW m, Filled(a, m), NEW v \in Values,
         NEW matches,
         matches = {p \in [block: Blocks, off: 0 .. BlockSize - 1] : ReadIn(m, p) = v}
  PROVE  ReadIn(m, GetElemByContent(a, matches, ElemSize))
           = IF \E i \in 1 .. Len(ItemsIn(a, m)) : ItemsIn(a, m)[i] = v THEN v ELSE NoElem
<1> DEFINE ptrs == ElemsInOrder(a, ElemSize)
           items == ItemsIn(a, m)
           found == GetElemByContent(a, matches, ElemSize)
           wanted == Range(ptrs) \cap matches
<1>1. /\ ArenaOK(a) /\ a \in Arenas /\ Chained(a) /\ a.cursor_block = a.tail_block
      /\ InBounds(a) /\ OthersFull(a) /\ a.block_count \in Nat /\ a.live \subseteq Blocks
  BY DEF Shape, ArenaOK, Arenas
<1>2. ElemSize \in Nat \ {0} /\ BlockSize \in Nat
  BY ElemAssumption, Sizes
<1>3. a.cursor_block \in a.live
  BY <1>1, ChainEnds
<1>4. FoundIn(found, wanted)
  BY <1>1, <1>2, <1>3, GetElemFinds
<1>5. \A p \in Range(ptrs) : /\ p \in ElemPtr
                             /\ p \in [block: Blocks, off: 0 .. BlockSize - 1]
  <2> TAKE p \in Range(ptrs)
  <2>1. /\ p \in ElemPtr /\ p.block \in a.live
        /\ p.off + ElemSize <= a.block[p.block].right_offset
    BY <1>1, <1>2, ElemPlaces
  <2>2. a.block[p.block].right_offset = BlockSize
    BY <1>1, <2>1 DEF OthersFull
  <2> QED  BY <1>2, <2>1, <2>2 DEF ElemPtr
<1>6. /\ ptrs \in Seq(ElemPtr) /\ items = Mapped(Content(m), ptrs)
  BY <1>1, <1>2, ElemsInOrderType DEF ItemsIn
<1> HIDE DEF found, ptrs
<1>7. \A i \in 1 .. Len(ptrs) : ptrs[i] \in Range(ptrs) /\ items[i] = ReadIn(m, ptrs[i])
  BY <1>5, <1>6, LenProperties DEF Mapped, Content, Range
<1>8. Len(items) = Len(ptrs)
  BY <1>6, MappedType DEF Filled, ptrs
<1>9. \A p \in Range(ptrs) : \E i \in 1 .. Len(ptrs) : p = ptrs[i]
  BY <1>6, LenProperties DEF Range
<1> HIDE DEF items
<1>10. CASE \E i \in 1 .. Len(items) : items[i] = v
  <2>1. PICK i \in 1 .. Len(ptrs) : items[i] = v
    BY <1>8, <1>10
  <2>2. ptrs[i] \in wanted
    BY <1>5, <1>7, <2>1
  <2>3. found \in wanted
    BY <1>4, <2>2 DEF FoundIn
  <2>4. ReadIn(m, found) = v
    BY <2>3
  <2> QED  BY <1>10, <2>4 DEF found, items
<1>11. CASE ~ \E i \in 1 .. Len(items) : items[i] = v
  <2>1. wanted = {}
    BY <1>7, <1>8, <1>9, <1>11
  <2>2. ReadIn(m, found) = NoElem
    BY <1>4, <2>1 DEF FoundIn, ReadIn
  <2> QED  BY <1>11, <2>2 DEF found, items
<1> QED  BY <1>10, <1>11

-----------------------------------------------------------------------------
(* The stack's operations, step by step, as operations of the LIFO list.    *)
LEMMA ItemsOfStack ==
  /\ StackIInv => Items = ItemsIn(stack.arena, mem)
  /\ StackIInv' => Items' = ItemsIn(stack.arena, mem)'
<1>1. ASSUME StackIInv PROVE Items = ItemsIn(stack.arena, mem)
  <2>1. ArenaOK(stack.arena) /\ stack.elem_padded_size = ElemSize
    BY <1>1 DEF StackIInv, Shape
  <2>2. Items = [i \in DOMAIN ElemsInOrder(stack.arena, ElemSize) |->
                   ReadIn(mem, ElemsInOrder(stack.arena, ElemSize)[i])]
    BY <2>1 DEF Items, Read, ReadIn
  <2> QED  BY <2>1, <2>2, ItemsAre
<1>2. ASSUME StackIInv' PROVE Items' = ItemsIn(stack.arena, mem)'
  <2>1. ArenaOK(stack'.arena) /\ stack'.elem_padded_size = ElemSize
    BY <1>2 DEF StackIInv, Shape
  <2>2. Items' = [i \in DOMAIN ElemsInOrder(stack'.arena, ElemSize) |->
                   ReadIn(mem', ElemsInOrder(stack'.arena, ElemSize)[i])]
    BY <2>1 DEF Items, Read, ReadIn
  <2> QED  BY <2>1, <2>2, ItemsAre
<1> QED  BY <1>1, <1>2

LEMMA InitItems == Init => ItemsIInv /\ Abstract!Init
<1> SUFFICES ASSUME Init PROVE ItemsIInv /\ Abstract!Init
  OBVIOUS
<1>1. StackIInv
  BY InitStackIInv
<1>2. stack.elem_count = 0 /\ out = NoElem
  BY DEF Init, InitStack
<1>3. mem \in Memories
  BY DEF Init, Memories, NewData, Cells
<1>4. Filled(stack.arena, mem) /\ ItemsIn(stack.arena, mem) = <<>>
  BY <1>1, <1>2, <1>3, DrainedItems DEF StackIInv
<1>5. Items = <<>>
  BY <1>1, <1>4, ItemsOfStack
<1> QED  BY <1>1, <1>2, <1>4, <1>5 DEF ItemsIInv, Abstract!Init

LEMMA NextItems ==
  ASSUME ~ResetsAnywhere, ItemsIInv, [Next]_vars
  PROVE  ItemsIInv' /\ [Abstract!Next]_(Abstract!lifoVars)
<1> DEFINE a == stack.arena
<1>1. /\ StackIInv /\ StackIInv' /\ Filled(a, mem) /\ out \in Values \cup {NoElem}
      /\ stack \in Stacks /\ stack.elem_count \in Nat
      /\ stack.elem_size = ElemSize /\ stack.elem_padded_size = ElemSize
      /\ Shape(a, stack.elem_count) /\ ArenaOK(a)
      /\ mem \in Memories
  BY NextStackIInv DEF ItemsIInv, StackIInv, Stacks, Shape, Filled
<1>2. /\ Items = ItemsIn(a, mem) /\ Items' = ItemsIn(a', mem')
      /\ ItemsIn(a, mem) \in Seq(Values)
  BY <1>1, ItemsOfStack, ItemsType
<1>3. ASSUME NEW v \in Values, Push(v)
      PROVE  ItemsIInv' /\ Abstract!Push(v)
  <2>1. PICK h \in AllocAtHead(a, ElemSize) :
          stack' = [stack EXCEPT !.arena = h, !.elem_count = stack.elem_count + 1]
    BY <1>1, <1>3 DEF Push, AllocStackElem, Stacks
  <2>2. stack'.arena = h
    BY <1>1, <2>1 DEF Stacks
  <2>3. mem' = Written(a, mem, HeadPtr(h), v) /\ out' = NoElem
    BY <1>3, <2>2 DEF Push, Written
  <2> HIDE DEF a
  <2>4. Filled(h, mem') /\ ItemsIn(h, mem') = <<v>> \o ItemsIn(a, mem)
    BY <1>1, <2>3, PushItems
  <2> QED  BY <1>1, <1>2, <2>2, <2>3, <2>4 DEF ItemsIInv, Abstract!Push, a
<1>4. ASSUME NEW v \in Values, Find(v)
      PROVE  ItemsIInv' /\ Abstract!Find(v)
  <2> DEFINE matches == {p \in [block: Blocks, off: 0 .. BlockSize - 1] : ReadIn(mem, p) = v}
  <2>1. out' = ReadIn(mem, GetElemByContent(a, matches, ElemSize))
    BY <1>1, <1>4 DEF Find, Read, ReadIn
  <2>2. stack' = stack /\ mem' = mem
    BY <1>4 DEF Find
  <2> HIDE DEF a
  <2>3. out' = IF \E i \in 1 .. Len(ItemsIn(a, mem)) : ItemsIn(a, mem)[i] = v
               THEN v ELSE NoElem
    BY <1>1, <2>1, FindItems
  <2>4. out' \in Values \cup {NoElem}
    BY <2>3
  <2>5. Items' = Items
    BY <1>2, <2>2 DEF a
  <2> QED  BY <1>1, <1>2, <2>2, <2>3, <2>4, <2>5 DEF ItemsIInv, Abstract!Find, a
<1>5. ASSUME Pop
      PROVE  ItemsIInv' /\ Abstract!Pop
  <2>1. /\ stack' = PopFromStack(stack)
        /\ mem' = Kept(mem, PopFromStack(stack).arena.live)
        /\ out' = ReadIn(mem, PoppedPtr(stack))
    BY <1>5 DEF Pop, Kept, Read, ReadIn
  <2>2. CASE IsStackEmpty(stack)
    <3>1. stack' = stack /\ mem' = Kept(mem, a.live) /\ out' = NoElem
      BY <2>1, <2>2 DEF PopFromStack, PoppedPtr, ReadIn
    <3>2. mem' \in Memories
      BY <1>1, <3>1, ContentKept
    <3>3. Shape(a, 0)
      BY <1>1, <2>2 DEF IsStackEmpty
    <3>4. ItemsIn(a, mem) = <<>> /\ Filled(a, mem') /\ ItemsIn(a, mem') = <<>>
      BY <1>1, <3>2, <3>3, DrainedItems
    <3> QED  BY <1>1, <1>2, <3>1, <3>4 DEF ItemsIInv, Abstract!Pop
  <2>3. CASE ~IsStackEmpty(stack)
    <3> DEFINE h == PopFromStack(stack).arena
               x == ReadIn(mem, PoppedPtr(stack))
    <3>1. /\ Filled(h, mem') /\ x \in Values
          /\ ItemsIn(a, mem) = <<x>> \o ItemsIn(h, mem')
      BY <1>1, <2>1, <2>3, PopItems
    <3>2. out' = x /\ stack'.arena = h
      BY <2>1
    <3>3. ArenaOK(h)
      BY <1>1, <3>2 DEF StackIInv, Shape
    <3> HIDE DEF x, h, a
    <3>4. ItemsIn(h, mem') \in Seq(Values)
      BY <3>1, <3>3, ItemsType
    <3>5. Items' = ItemsIn(h, mem')
      BY <1>2, <3>2 DEF a
    <3>6. Items # <<>> /\ Head(Items) = x /\ Tail(Items) = Items'
      BY <1>2, <3>1, <3>4, <3>5, HeadTailOfCons
    <3> QED  BY <1>1, <3>1, <3>2, <3>6 DEF ItemsIInv, Abstract!Pop
  <2> QED  BY <2>2, <2>3
<1>6. ASSUME Reset
      PROVE  ItemsIInv' /\ Abstract!Reset
  <2>1. /\ stack.elem_count = 0 /\ stack' = [stack EXCEPT !.arena = ResetArena(@)]
        /\ out' = NoElem /\ mem' = mem
    BY <1>6 DEF Reset, IsStackEmpty, ResetStack
  <2>2. stack'.elem_count = 0
    BY <1>1, <2>1 DEF Stacks
  <2>3. Shape(stack'.arena, 0)
    BY <1>1, <2>2 DEF StackIInv
  <2>4. Filled(stack'.arena, mem') /\ ItemsIn(stack'.arena, mem') = <<>>
    BY <1>1, <2>1, <2>3, DrainedItems
  <2> QED  BY <1>1, <1>2, <2>1, <2>4 DEF ItemsIInv, Abstract!Reset
<1>7. CASE UNCHANGED vars
  BY <1>1, <1>2, <1>7 DEF ItemsIInv, vars, Abstract!lifoVars
<1> QED  BY <1>3, <1>4, <1>5, <1>6, <1>7 DEF Next, Abstract!Next

(* Whatever is pushed, popped and searched, across block boundaries, the    *)
(* elements in the blocks are one LIFO list (stack.c:20-62): every step of  *)
(* the stack is a step of Lifo, for all values, sizes and numbers of blocks. *)
THEOREM StackImplementsLifo ==
  ASSUME ~ResetsAnywhere
  PROVE  Spec => RefinesLifo
<1>1. Init => ItemsIInv /\ Abstract!Init
  BY InitItems
<1>2. ItemsIInv /\ [Next]_vars => ItemsIInv' /\ [Abstract!Next]_(Abstract!lifoVars)
  BY NextItems
<1> QED  BY <1>1, <1>2, PTL DEF Spec, RefinesLifo, Abstract!Spec

(* stack.c:49-51: a pop, or a search, never hands out bytes nobody pushed,  *)
(* nor bytes outside a block.                                               *)
THEOREM StackPopsNoPhantom ==
  ASSUME ~ResetsAnywhere
  PROVE  Spec => []NoPhantomPop
<1>1. ItemsIInv => NoPhantomPop
  BY CellAssumption DEF ItemsIInv, NoPhantomPop
<1> QED  BY <1>1, InitItems, NextItems, PTL DEF Spec

(* The stack's record, its memory and the client's answer keep their types. *)
THEOREM StackTypeCorrect ==
  ASSUME ~ResetsAnywhere
  PROVE  Spec => []TypeOK
<1>1. ItemsIInv => TypeOK
  BY DEF ItemsIInv, StackIInv, Filled, Memories, TypeOK, Cells
<1> QED  BY <1>1, InitItems, NextItems, PTL DEF Spec
=============================================================================
