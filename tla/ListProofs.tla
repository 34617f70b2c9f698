----------------------------- MODULE ListProofs -----------------------------
(***************************************************************************)
(* Theorems about List for any blocks, element sizes and batches.          *)
(***************************************************************************)
EXTENDS List, ArenaOpsProofs

BlockBytes == ElemQtt * Padded

LEMMA ListSizes ==
  /\ Padded \in Nat \ {0} /\ ElemQtt \in Nat \ {0} /\ BlockBytes \in Nat \ {0}
  /\ BlockBytes \div 2 \in 0 .. BlockBytes
  /\ \A k \in 1 .. ElemQtt : k * Padded \in 1 .. BlockBytes
<1>1. /\ ElemSize \in Nat \ {0} /\ ElemAlignment \in Nat \ {0} /\ ElemQtt \in Nat \ {0}
  BY ElemAssumption
<1>2. (ElemAlignment - (ElemSize % ElemAlignment)) % ElemAlignment \in Nat
  BY <1>1
<1>3. Padded \in Nat \ {0}
  BY <1>1, <1>2 DEF Padded, PaddedSize
<1> HIDE DEF Padded
<1>4. BlockBytes \in Nat \ {0}
  BY <1>1, <1>3 DEF BlockBytes
<1>5. ASSUME NEW k \in 1 .. ElemQtt
      PROVE  k * Padded \in 1 .. BlockBytes
  <2>1. k * Padded <= ElemQtt * Padded /\ k * Padded \in Nat \ {0}
    BY <1>1, <1>3
  <2> QED  BY <1>4, <2>1 DEF BlockBytes
<1> QED  BY <1>1, <1>3, <1>4, <1>5

-----------------------------------------------------------------------------
(* The inductive invariant.  Of the arena: a block holds whole elements,    *)
(* from the middle of the first block and from the start of the others,     *)
(* which are never empty.                                                   *)
WholeElems(a, b) ==
  \E m \in 0 .. ElemQtt : a.block[b].right_offset = a.block[b].left_offset + m * Padded

ListShape(a) ==
  /\ ArenaOK(a)
  /\ a.block_size = BlockBytes /\ a.block_offset = "middle"
  /\ a.cursor_block \in a.live
  /\ a.block[a.head_block].left_offset = BlockBytes \div 2
  /\ \A b \in a.live : WholeElems(a, b)
  /\ \A b \in a.live \ {a.head_block} :
       a.block[b].left_offset = 0 /\ a.block[b].right_offset # 0

(* q follows p: in its block, or at the start of the next one when p is the *)
(* last of its own.                                                         *)
Follows(a, p, q) ==
  \/ q.block = p.block /\ q.off = p.off + Padded
  \/ /\ p.off = a.block[p.block].right_offset - Padded
     /\ q.block = a.block[p.block].next /\ q.off = 0

(* And of the elements a client was given: each follows the one before, the *)
(* last one ends the tail block, and the first one starts the head block    *)
(* when any batch fits the half block the list begins with.                 *)
BatchesFitHalf ==
  \A qtt \in Batches : qtt * Padded <= BlockBytes - (BlockBytes \div 2)

Linked(a, s) ==
  /\ \A i \in 1 .. Len(s) - 1 : Follows(a, s[i], s[i + 1])
  /\ Len(s) # 0 =>
       s[Len(s)] = Ptr(a.tail_block, a.block[a.tail_block].right_offset - Padded)

FromHead(a, s) ==
  Len(s) # 0 => s[1] = Ptr(a.head_block, a.block[a.head_block].left_offset)

ListHolds(l, s) ==
  /\ l \in Lists /\ l.elem_padded_size = Padded
  /\ ListShape(l.arena)
  /\ s \in Seq(ElemPtr) /\ l.elem_count = Len(s)
  /\ ElemsInOrder(l.arena, Padded) = s
  /\ Linked(l.arena, s)
  /\ BatchesFitHalf => FromHead(l.arena, s)

ListIInv == ListHolds(list, elems)

(* A list that counts no element has one block, and it is empty. *)
LEMMA NoElemsOneBlock ==
  ASSUME NEW a, ListShape(a), ElemsInOrder(a, Padded) = <<>>
  PROVE  /\ \A b \in a.live : b = a.head_block
         /\ a.block_count = 1
         /\ a.block[a.head_block].right_offset = a.block[a.head_block].left_offset
<1>1. /\ ArenaOK(a) /\ a \in Arenas /\ InBounds(a) /\ Chained(a) /\ a.live \subseteq Blocks
      /\ a.block_count \in Nat
      /\ \A b \in a.live : WholeElems(a, b)
      /\ \A b \in a.live \ {a.head_block} :
           a.block[b].left_offset = 0 /\ a.block[b].right_offset # 0
  BY DEF ListShape, ArenaOK, Arenas
<1>2. Padded \in Nat \ {0}
  BY ListSizes
<1>3. ASSUME NEW b \in a.live
      PROVE  a.block[b].right_offset = a.block[b].left_offset
  <2>1. PICK m \in Nat : a.block[b].right_offset = a.block[b].left_offset + m * Padded
    BY <1>1 DEF WholeElems
  <2>2. a.block[b].left_offset \in Nat
    BY <1>1 DEF Arenas, MemBlocks
  <2>3. Range(<<>>) = {}
    BY DEF Range
  <2>4. Range(ElemPtrs(a, b, Padded)) \subseteq Range(ElemsInOrder(a, Padded))
    BY <1>1, <1>2, ElemsRange
  <2>5. Range(ElemPtrs(a, b, Padded)) = {}
    BY <2>3, <2>4
  <2>6. /\ ElemPtrs(a, b, Padded) \in Seq(ElemPtr)
        /\ Len(ElemPtrs(a, b, Padded)) =
             (a.block[b].right_offset - a.block[b].left_offset) \div Padded
    BY <1>1, <1>2, ElemPtrsType
  <2>7. (m * Padded) \div Padded = m
    BY <1>2, MultDiv
  <2>8. Len(ElemPtrs(a, b, Padded)) = m
    <3>1. m * Padded \in Nat
      BY <1>2
    <3>2. a.block[b].right_offset - a.block[b].left_offset = m * Padded
      BY <2>1, <2>2, <3>1
    <3> QED  BY <2>6, <2>7, <3>2
  <2>9. m = 0
    <3>1. m # 0 => 1 \in DOMAIN ElemPtrs(a, b, Padded)
      BY <2>6, <2>8, LenProperties
    <3> QED  BY <2>5, <3>1 DEF Range
  <2> QED  BY <1>2, <2>1, <2>2, <2>9
<1>4. \A b \in a.live : b = a.head_block
  BY <1>1, <1>3
<1>5. a.head_block \in a.live
  BY <1>1, ChainEnds
<1>6. a.block_count = 1
  <2>1. PICK s \in [1 .. a.block_count -> a.live] : IsChain(a, s)
    BY <1>1 DEF Chained, Chains
  <2>2. a.block_count >= 1
    BY <1>1 DEF Chained
  <2>3. s[1] = s[a.block_count]
    BY <1>1, <1>4, <2>1, <2>2
  <2> QED  BY <1>1, <2>1, <2>2, <2>3 DEF IsChain
<1> QED  BY <1>3, <1>4, <1>5, <1>6

-----------------------------------------------------------------------------
(* lf_init_list leaves an empty list of one block, started in its middle.  *)
LEMMA InitListShape ==
  ASSUME NEW n \in Blocks
  PROVE  LET a == InitArena(n, BlockBytes, "middle")
         IN  ListShape(a) /\ ElemsInOrder(a, Padded) = <<>>
<1> DEFINE a == InitArena(n, BlockBytes, "middle")
           start == StartOffset(BlockBytes, "middle")
<1>1. /\ BlockBytes \in Nat /\ Padded \in Nat \ {0} /\ ElemQtt \in Nat \ {0}
      /\ "middle" \in Offsets
  BY ListSizes DEF Offsets
<1>2. start = BlockBytes \div 2
  BY DEF StartOffset
<1>3. ArenaOK(a)
  BY <1>1, InitArenaOK
<1>4. /\ a.block_size = BlockBytes /\ a.block_offset = "middle"
      /\ a.cursor_block = n /\ a.head_block = n /\ a.live = {n} /\ a.block_count = 1
      /\ a.block[n].left_offset = start /\ a.block[n].right_offset = start
  BY DEF InitArena
<1> HIDE DEF a, start
<1>5. start \in Nat
  BY <1>2, ListSizes
<1>6. WholeElems(a, n)
  <2>1. start = start + 0 * Padded /\ 0 \in 0 .. ElemQtt
    BY <1>1, <1>5
  <2> QED  BY <1>4, <2>1 DEF WholeElems
<1>7. ListShape(a)
  BY <1>2, <1>3, <1>4, <1>6 DEF ListShape
<1>8. Range(ElemsInOrder(a, Padded)) = {}
  <2>1. SUFFICES ASSUME NEW p \in Range(ElemsInOrder(a, Padded)) PROVE FALSE
    OBVIOUS
  <2>2. /\ p \in ElemPtr /\ p.block \in a.live
        /\ a.block[p.block].left_offset <= p.off
        /\ p.off + Padded <= a.block[p.block].right_offset
    BY <1>1, <1>3, ElemPlaces
  <2> QED  BY <1>1, <1>4, <1>5, <2>2 DEF ElemPtr
<1>9. ElemsInOrder(a, Padded) \in Seq(ElemPtr)
  BY <1>1, <1>3, ElemsInOrderType
<1>10. ElemsInOrder(a, Padded) = <<>>
  BY <1>8, <1>9, EmptyRange
<1> QED  BY <1>7, <1>10 DEF a

-----------------------------------------------------------------------------
(* lf_arena_alloc_at_tail of k elements: they follow the others of the tail *)
(* block, or start a block of their own.                                    *)
TailRaised(a, h, k) ==
  LET b == a.tail_block
  IN  /\ SameLinks(a, h)
      /\ h.block[b].left_offset = a.block[b].left_offset
      /\ h.block[b].right_offset = a.block[b].right_offset + k * Padded
      /\ \A c \in a.live \ {b} : SameOffsets(a, h, c)

TailAdded(a, h, k) ==
  LET b == h.tail_block
  IN  /\ b \in Fresh(a) /\ h.live = a.live \cup {b}
      /\ h.block_count = a.block_count + 1
      /\ h.head_block = a.head_block
      /\ a.block[a.tail_block].size - a.block[a.tail_block].right_offset < k * Padded
      /\ h.block[a.tail_block].next = b
      /\ h.block[b].left_offset = 0 /\ h.block[b].right_offset = k * Padded
      /\ \A c \in a.live \ {a.tail_block} : h.block[c].next = a.block[c].next
      /\ \A c \in a.live : SameOffsets(a, h, c)

SameSetup(a, h) ==
  /\ h.block_size = a.block_size /\ h.block_offset = a.block_offset
  /\ h.cursor_block = a.cursor_block

LEMMA TailTakenSetup ==
  ASSUME NEW g \in Arenas, NEW size
  PROVE  SameSetup(g, TailTaken(g, size))
  BY DEF SameSetup, TailTaken, Arenas

LEMMA GrownArena ==
  ASSUME NEW a, ListShape(a), NEW k \in 1 .. ElemQtt,
         NEW h \in AllocAtTail(a, k * Padded)
  PROVE  /\ ArenaOK(h) /\ SameSetup(a, h)
         /\ TailRaised(a, h, k) \/ TailAdded(a, h, k)
<1> DEFINE size == k * Padded
<1>1. /\ ArenaOK(a) /\ a \in Arenas /\ Chained(a) /\ InBounds(a) /\ a.block_count \in Nat
      /\ a.live \subseteq Blocks /\ a.block_size = BlockBytes
  BY DEF ListShape, ArenaOK, Arenas
<1>2. a.tail_block \in a.live /\ a.tail_block \in Blocks
  BY <1>1, ChainEnds
<1>3. size \in 1 .. BlockBytes /\ BlockBytes \in Nat
  BY ListSizes
<1>4. /\ a.block[a.tail_block].right_offset \in Nat
      /\ a.block[a.tail_block].size = BlockBytes
  BY <1>1, <1>2 DEF Arenas, MemBlocks, InBounds
<1>5. TailRoom(a) = a.block[a.tail_block].size - a.block[a.tail_block].right_offset
  BY DEF TailRoom
<1>6. h \in AllocAtTail(a, size)
  OBVIOUS
<1> HIDE DEF size
<1>7. CASE ~(TailRoom(a) < size)
  <2>1. h = TailTaken(a, size)
    BY <1>6, <1>7 DEF AllocAtTail, TailTaken
  <2>2. size <= a.block[a.tail_block].size - a.block[a.tail_block].right_offset
        /\ size \in Nat
    BY <1>3, <1>4, <1>5, <1>7
  <2>3. /\ ArenaOK(h)
        /\ h.live = a.live /\ h.block_count = a.block_count
        /\ h.head_block = a.head_block /\ h.tail_block = a.tail_block
        /\ h.block[a.tail_block].right_offset =
             a.block[a.tail_block].right_offset + size
        /\ h.block[a.tail_block].left_offset = a.block[a.tail_block].left_offset
        /\ \A b \in Blocks \ {a.tail_block} : h.block[b] = a.block[b]
        /\ \A b \in a.live : h.block[b].next = a.block[b].next
    BY <1>1, <2>1, <2>2, TailBytesTaken
  <2>4. \A c \in a.live \ {a.tail_block} : SameOffsets(a, h, c)
    BY <1>1, <2>3 DEF SameOffsets
  <2>5. TailRaised(a, h, k)
    BY <2>3, <2>4 DEF TailRaised, SameLinks, size
  <2>6. SameSetup(a, h)
    BY <1>1, <2>1, TailTakenSetup
  <2> QED  BY <2>3, <2>5, <2>6
<1>8. CASE TailRoom(a) < size
  <2>1. PICK n \in Fresh(a) : h = TailTaken(AllocTailBlock(a, n), size)
    BY <1>6, <1>8, ZenonT(60) DEF AllocAtTail, TailTaken
  <2> DEFINE g == AllocTailBlock(a, n)
  <2>2. n \in Blocks /\ n \notin a.live /\ n # a.tail_block
    BY <1>2 DEF Fresh
  <2>3. /\ ArenaOK(g) /\ g \in Arenas /\ g.live = a.live \cup {n} /\ g.tail_block = n
        /\ g.head_block = a.head_block /\ g.block_count = a.block_count + 1
        /\ SameSetup(a, g)
        /\ g.block[n] = [left_offset |-> 0, right_offset |-> 0,
                         size |-> a.block_size, prev |-> a.tail_block, next |-> Null]
        /\ g.block[a.tail_block] = [a.block[a.tail_block] EXCEPT !.next = n]
        /\ \A b \in Blocks \ {n, a.tail_block} : g.block[b] = a.block[b]
    BY <1>1, <2>2, AllocTailBlockFields, AllocTailBlockKeeps DEF SameSetup
  <2> HIDE DEF g
  <2>4. /\ g.block[n].left_offset = 0 /\ g.block[n].right_offset = 0
        /\ g.block[n].size = BlockBytes
    BY <1>1, <2>3
  <2>5. /\ g.block[a.tail_block].next = n
        /\ \A c \in a.live \ {a.tail_block} : g.block[c].next = a.block[c].next
        /\ \A c \in a.live : SameOffsets(a, g, c)
    <3>1. a.block[a.tail_block] \in MemBlocks
      BY <1>1, <1>2 DEF Arenas
    <3>2. /\ g.block[a.tail_block].next = n /\ SameOffsets(a, g, a.tail_block)
      BY <2>3, <3>1 DEF SameOffsets, MemBlocks
    <3>3. ASSUME NEW c \in a.live \ {a.tail_block}
          PROVE  g.block[c].next = a.block[c].next /\ SameOffsets(a, g, c)
      BY <1>1, <2>2, <2>3 DEF SameOffsets
    <3> QED  BY <3>2, <3>3
  <2>6. /\ size <= g.block[g.tail_block].size - g.block[g.tail_block].right_offset
        /\ h = TailTaken(g, size) /\ size \in Nat
    BY <1>3, <2>1, <2>3, <2>4 DEF g
  <2>7. /\ ArenaOK(h) /\ h.live = g.live /\ h.block_count = g.block_count
        /\ h.head_block = g.head_block /\ h.tail_block = n
        /\ h.block[n].left_offset = 0 /\ h.block[n].right_offset = 0 + size
        /\ \A b \in Blocks \ {n} : h.block[b] = g.block[b]
    BY <2>3, <2>4, <2>6, TailBytesTaken
  <2>8. /\ h.block[a.tail_block].next = n
        /\ \A c \in a.live \ {a.tail_block} : h.block[c].next = a.block[c].next
        /\ \A c \in a.live : SameOffsets(a, h, c)
    <3>1. \A c \in a.live : h.block[c] = g.block[c]
      BY <1>1, <2>2, <2>7
    <3> QED  BY <1>2, <2>5, <3>1 DEF SameOffsets
  <2>9. h.block[n].right_offset = k * Padded
    BY <1>3, <2>7 DEF size
  <2>10. TailAdded(a, h, k)
    BY <1>5, <1>8, <2>3, <2>7, <2>8, <2>9 DEF TailAdded, size
  <2>11. SameSetup(a, h)
    BY <2>3, <2>6, TailTakenSetup DEF SameSetup
  <2> QED  BY <2>7, <2>10, <2>11
<1> QED  BY <1>7, <1>8

Grown(a, h, k) ==
  /\ ListShape(a) /\ ArenaOK(h) /\ SameSetup(a, h) /\ k \in 1 .. ElemQtt
  /\ TailRaised(a, h, k) \/ TailAdded(a, h, k)

LEMMA GrownShape ==
  ASSUME NEW a, NEW h, NEW k, Grown(a, h, k)
  PROVE  ListShape(h)
<1>1. /\ ArenaOK(a) /\ a \in Arenas /\ Chained(a) /\ InBounds(a) /\ a.block_count \in Nat
      /\ a.live \subseteq Blocks /\ a.block_size = BlockBytes
      /\ a.block_offset = "middle" /\ a.cursor_block \in a.live
      /\ a.block[a.head_block].left_offset = BlockBytes \div 2
      /\ \A b \in a.live : WholeElems(a, b)
      /\ \A b \in a.live \ {a.head_block} :
           a.block[b].left_offset = 0 /\ a.block[b].right_offset # 0
  BY DEF Grown, ListShape, ArenaOK, Arenas
<1>2. /\ ArenaOK(h) /\ h \in Arenas /\ InBounds(h) /\ h.block_size = BlockBytes
      /\ h.block_offset = "middle" /\ h.cursor_block = a.cursor_block
      /\ k \in 1 .. ElemQtt
  BY <1>1 DEF Grown, ArenaOK, SameSetup
<1>3. /\ a.tail_block \in a.live /\ a.head_block \in a.live
      /\ \A b \in a.live : a.block[b].left_offset \in Nat /\ a.block[b].right_offset \in Nat
  BY <1>1, ChainEnds DEF Arenas, MemBlocks
<1>4. /\ Padded \in Nat \ {0} /\ ElemQtt \in Nat \ {0} /\ BlockBytes \in Nat \ {0}
      /\ k * Padded \in 1 .. BlockBytes
  BY <1>2, ListSizes
<1>5. ASSUME NEW b \in a.live, SameOffsets(a, h, b)
      PROVE  WholeElems(h, b)
  BY <1>1, <1>5 DEF WholeElems, SameOffsets
<1>6. CASE TailRaised(a, h, k)
  <2> DEFINE t == a.tail_block
  <2>1. /\ h.live = a.live /\ h.head_block = a.head_block
        /\ h.block[t].left_offset = a.block[t].left_offset
        /\ h.block[t].right_offset = a.block[t].right_offset + k * Padded
        /\ \A c \in a.live \ {t} : SameOffsets(a, h, c)
    BY <1>6 DEF TailRaised, SameLinks
  <2>2. WholeElems(h, t)
    <3>1. PICK m \in 0 .. ElemQtt :
            a.block[t].right_offset = a.block[t].left_offset + m * Padded
      BY <1>1, <1>3 DEF WholeElems
    <3>2. m + k \in Nat /\ (m + k) * Padded = m * Padded + k * Padded
          /\ m * Padded \in Nat /\ k * Padded \in Nat
      BY <1>2, <1>4
    <3>3. h.block[t].right_offset = h.block[t].left_offset + (m + k) * Padded
      BY <1>3, <2>1, <3>1, <3>2
    <3>4. h.block[t].right_offset <= BlockBytes
      BY <1>2, <1>3, <2>1 DEF InBounds
    <3>5. (m + k) * Padded <= ElemQtt * Padded
      BY <1>3, <1>4, <2>1, <3>2, <3>3, <3>4 DEF BlockBytes
    <3>6. m + k <= ElemQtt
      <4>1. \A x, y \in Nat, d \in Nat \ {0} : x * d <= y * d => x <= y
        <5>1. SUFFICES ASSUME NEW x \in Nat, NEW y \in Nat, NEW d \in Nat \ {0}, y < x
                       PROVE  y * d < x * d
          OBVIOUS
        <5>2. (y + 1) * d <= x * d /\ (y + 1) * d = y * d + d /\ y * d \in Nat
          BY <5>1
        <5> QED  BY <5>1, <5>2
      <4> QED  BY <1>4, <3>2, <3>5, <4>1
    <3>7. m + k \in 0 .. ElemQtt
      BY <1>4, <3>2, <3>6
    <3> QED  BY <3>3, <3>7 DEF WholeElems
  <2>3. \A b \in h.live : WholeElems(h, b)
    BY <1>5, <2>1, <2>2
  <2>4. h.block[h.head_block].left_offset = BlockBytes \div 2
    BY <1>1, <1>3, <2>1 DEF SameOffsets
  <2>5. ASSUME NEW b \in h.live \ {h.head_block}
        PROVE  h.block[b].left_offset = 0 /\ h.block[b].right_offset # 0
    <3>1. b \in a.live \ {a.head_block}
      BY <2>1
    <3>2. CASE b = t
      BY <1>1, <1>3, <1>4, <2>1, <3>1, <3>2
    <3>3. CASE b # t
      BY <1>1, <2>1, <3>1, <3>3 DEF SameOffsets
    <3> QED  BY <3>2, <3>3
  <2> QED  BY <1>1, <1>2, <2>1, <2>3, <2>4, <2>5 DEF ListShape
<1>7. CASE TailAdded(a, h, k)
  <2> DEFINE t == h.tail_block
  <2>1. /\ t \notin a.live /\ h.live = a.live \cup {t} /\ h.head_block = a.head_block
        /\ h.block[t].left_offset = 0 /\ h.block[t].right_offset = k * Padded
        /\ \A c \in a.live : SameOffsets(a, h, c)
    BY <1>7 DEF TailAdded, Fresh
  <2> HIDE DEF t
  <2>2. WholeElems(h, t)
    <3>1. k * Padded = 0 + k * Padded /\ k \in 0 .. ElemQtt
      BY <1>2, <1>4
    <3> QED  BY <2>1, <3>1 DEF WholeElems
  <2>3. \A b \in h.live : WholeElems(h, b)
    BY <1>5, <2>1, <2>2
  <2>4. h.block[h.head_block].left_offset = BlockBytes \div 2
    BY <1>1, <1>3, <2>1 DEF SameOffsets
  <2>5. ASSUME NEW b \in h.live \ {h.head_block}
        PROVE  h.block[b].left_offset = 0 /\ h.block[b].right_offset # 0
    <3>1. CASE b = t
      BY <1>4, <2>1, <3>1
    <3>2. CASE b # t
      BY <1>1, <2>1, <3>2 DEF SameOffsets
    <3> QED  BY <3>1, <3>2
  <2> QED  BY <1>1, <1>2, <2>1, <2>3, <2>4, <2>5 DEF ListShape
<1> QED  BY <1>6, <1>7 DEF Grown

(* The scan meets the k new elements after the others. *)
LEMMA GrownElems ==
  ASSUME NEW a, NEW h, NEW k, Grown(a, h, k)
  PROVE  LET p == TailPtr(h, k * Padded)
         IN  /\ ElemsInOrder(h, Padded)
                  = ElemsInOrder(a, Padded) \o PtrsFrom(p.block, p.off, Padded, k)
             /\ p.block \in Blocks /\ p.off \in Nat
<1> DEFINE size == k * Padded
           p == TailPtr(h, size)
           t == h.tail_block
<1>1. /\ ArenaOK(a) /\ a \in Arenas /\ InBounds(a) /\ a.block_count \in Nat /\ Chained(a)
      /\ \A b \in a.live : WholeElems(a, b)
      /\ ArenaOK(h) /\ h \in Arenas /\ InBounds(h) /\ h.live \subseteq Blocks
      /\ h.block_count \in Nat /\ Chained(h) /\ k \in 1 .. ElemQtt /\ k \in Nat
  BY ListSizes DEF Grown, ListShape, ArenaOK, Arenas
<1>2. t \in h.live /\ t \in Blocks /\ a.tail_block \in a.live
  BY <1>1, ChainEnds
<1>3. Padded \in Nat \ {0} /\ size \in Nat
  BY <1>1, ListSizes
<1>4. p.block = t /\ p.off = h.block[t].right_offset - size
  BY DEF TailPtr
<1> HIDE DEF p
<1>5. CASE TailRaised(a, h, k)
  <2>1. /\ SameLinks(a, h) /\ t = a.tail_block
        /\ h.block[t].left_offset = a.block[t].left_offset
        /\ h.block[t].right_offset = a.block[t].right_offset + k * Padded
        /\ \A c \in a.live \ {a.tail_block} : SameOffsets(a, h, c)
    BY <1>5 DEF TailRaised, SameLinks
  <2> HIDE DEF t
  <2>2. PICK m \in Nat :
          a.block[t].right_offset = a.block[t].left_offset + m * Padded
    BY <1>1, <1>2, <2>1 DEF WholeElems
  <2>3. ElemPtrs(h, t, Padded)
          = ElemPtrs(a, t, Padded) \o PtrsFrom(t, a.block[t].right_offset, Padded, k)
    <3>1. BlockRaised(a, h, t, Padded, k, m)
      BY <1>1, <1>2, <2>1, <2>2 DEF BlockRaised
    <3>2. Padded \in Nat \ {0} /\ t \in Blocks /\ k \in Nat
      BY <1>1, <1>2, <1>3
    <3> QED  BY <3>1, <3>2, ElemPtrsAbove
  <2>4. a.block[t].right_offset \in Nat
    BY <1>1, <1>2, <2>1 DEF Arenas, MemBlocks
  <2>5. p.off = a.block[t].right_offset
    BY <1>3, <1>4, <2>1, <2>4
  <2>6. PtrsFrom(t, a.block[t].right_offset, Padded, k) \in Seq(ElemPtr)
    BY <1>1, <1>2, <1>3, <2>4, PtrsFromType
  <2> DEFINE more == PtrsFrom(t, a.block[t].right_offset, Padded, k)
  <2>7. ElemsInOrder(h, Padded) = ElemsInOrder(a, Padded) \o more
    <3>1. ElemPtrs(h, a.tail_block, Padded) = ElemPtrs(a, a.tail_block, Padded) \o more
      BY <2>1, <2>3
    <3>2. more \in Seq(ElemPtr)
      BY <2>6
    <3>3. ArenaOK(a) /\ ArenaOK(h) /\ Padded \in Nat \ {0}
      BY <1>1, <1>3
    <3>4. SameLinks(a, h) /\ \A c \in a.live \ {a.tail_block} : SameOffsets(a, h, c)
      BY <2>1
    <3> HIDE DEF more
    <3> QED  BY <3>1, <3>2, <3>3, <3>4, ElemsTailGrown, ZenonT(60)
  <2> QED  BY <1>2, <1>4, <2>4, <2>5, <2>7 DEF p, t
<1>6. CASE TailAdded(a, h, k)
  <2>1. /\ h.block_count = a.block_count + 1 /\ h.head_block = a.head_block
        /\ h.block[t].left_offset = 0 /\ h.block[t].right_offset = k * Padded
        /\ \A c \in a.live \ {a.tail_block} : h.block[c].next = a.block[c].next
        /\ \A c \in a.live : SameOffsets(a, h, c)
    BY <1>6 DEF TailAdded
  <2>2. ElemsInOrder(h, Padded) = ElemsInOrder(a, Padded) \o ElemPtrs(h, t, Padded)
    BY <1>1, <1>3, <2>1, ElemsBehind
  <2>3. p.off = 0
    BY <1>3, <1>4, <2>1
  <2>4. ElemPtrs(h, t, Padded) = PtrsFrom(t, 0, Padded, k)
    <3>1. (k * Padded - 0) \div Padded = k
      <4>1. k * Padded - 0 = k * Padded
        BY <1>3
      <4>2. (k * Padded) \div Padded = k
        BY <1>1, <1>3, MultDiv
      <4> QED  BY <4>1, <4>2
    <3>2. (h.block[t].right_offset - h.block[t].left_offset) \div Padded = k
      BY <2>1, <3>1
    <3> QED  BY <2>1, <3>2 DEF ElemPtrs, PtrsFrom
  <2> QED  BY <1>2, <1>4, <2>2, <2>3, <2>4 DEF p, t
<1> QED  BY <1>5, <1>6 DEF Grown, p, size

(* Each new element follows the one before it, the old ones still do.      *)
LEMMA TailHasNoNext ==
  ASSUME NEW a, ArenaOK(a)
  PROVE  a.block[a.tail_block].next = Null
<1>1. Chained(a) /\ a.block_count \in Nat
  BY DEF ArenaOK, Arenas
<1>2. PICK s \in [1 .. a.block_count -> a.live] : IsChain(a, s)
  BY <1>1 DEF Chained, Chains
<1>3. a.block_count \in 1 .. a.block_count
  BY <1>1 DEF Chained
<1> QED  BY <1>2, <1>3 DEF IsChain

LEMMA StillFollows ==
  ASSUME NEW a, NEW h, NEW k, Grown(a, h, k), NEW p \in ElemPtr, NEW q \in ElemPtr,
         p.block \in a.live, Follows(a, p, q)
  PROVE  Follows(h, p, q)
<1>1. CASE q.block = p.block /\ q.off = p.off + Padded
  BY <1>1 DEF Follows
<1>2. CASE /\ p.off = a.block[p.block].right_offset - Padded
           /\ q.block = a.block[p.block].next /\ q.off = 0
  <2>1. p.block # a.tail_block
    <3>1. a.block[a.tail_block].next = Null
      BY TailHasNoNext DEF Grown, ListShape
    <3> QED  BY <1>2, <3>1, BlocksAssumption DEF ElemPtr
  <2>2. /\ h.block[p.block].next = a.block[p.block].next
        /\ h.block[p.block].right_offset = a.block[p.block].right_offset
    <3>1. CASE TailRaised(a, h, k)
      BY <2>1, <3>1 DEF TailRaised, SameLinks, SameOffsets
    <3>2. CASE TailAdded(a, h, k)
      BY <2>1, <3>2 DEF TailAdded, SameOffsets
    <3> QED  BY <3>1, <3>2 DEF Grown
  <2> QED  BY <1>2, <2>2 DEF Follows
<1> QED  BY <1>1, <1>2 DEF Follows

NewElems(h, k) ==
  LET p == TailPtr(h, k * Padded) IN PtrsFrom(p.block, p.off, Padded, k)

NewElemsAre(h, k, more) ==
  /\ more \in Seq(ElemPtr) /\ Len(more) = k
  /\ more[1] = Ptr(h.tail_block, h.block[h.tail_block].right_offset - k * Padded)
  /\ more[k] = Ptr(h.tail_block, h.block[h.tail_block].right_offset - Padded)
  /\ \A j \in 1 .. k - 1 : /\ more[j + 1].block = more[j].block
                           /\ more[j + 1].off = more[j].off + Padded

LEMMA NewElemsFollow ==
  ASSUME NEW a, NEW h, NEW k, Grown(a, h, k)
  PROVE  NewElemsAre(h, k, NewElems(h, k))
<1> DEFINE b == h.tail_block
           off == TailPtr(h, k * Padded).off
           right == h.block[b].right_offset
           more == NewElems(h, k)
<1>1. /\ k \in Nat \ {0} /\ k \in 1 .. ElemQtt /\ h \in Arenas /\ b \in Blocks
      /\ right \in Nat
  BY ListSizes DEF Grown, ArenaOK, Arenas, MemBlocks
<1>2. Padded \in Nat \ {0} /\ k * Padded \in Nat
  BY <1>1, ListSizes
<1>3. off \in Nat /\ off = right - k * Padded /\ TailPtr(h, k * Padded).block = b
  BY GrownElems DEF TailPtr
<1>4. more = PtrsFrom(b, off, Padded, k)
  BY <1>3 DEF NewElems
<1> HIDE DEF more, off, right, b
<1>5. more \in Seq(ElemPtr) /\ Len(more) = k
  <2>1. k \in Nat
    BY <1>1
  <2> QED  BY <1>1, <1>2, <1>3, <1>4, <2>1, PtrsFromType
<1>6. \A j \in 1 .. k : more[j] = [block |-> b, off |-> off + (j - 1) * Padded]
  BY <1>4, PtrsFromAt
<1>7. off + (1 - 1) * Padded = off /\ 1 \in 1 .. k /\ k \in 1 .. k
  BY <1>1, <1>2, <1>3
<1>8. off + (k - 1) * Padded = right - Padded
  <2>1. (k - 1) * Padded = k * Padded - Padded
    BY <1>1, <1>2
  <2> QED  BY <1>1, <1>2, <1>3, <2>1
<1>9. more[1] = Ptr(b, right - k * Padded) /\ more[k] = Ptr(b, right - Padded)
  BY <1>3, <1>6, <1>7, <1>8 DEF Ptr
<1>10. ASSUME NEW j \in 1 .. k - 1
       PROVE  more[j + 1].block = more[j].block /\ more[j + 1].off = more[j].off + Padded
  <2>1. j \in 1 .. k /\ j + 1 \in 1 .. k
    BY <1>1
  <2>2. off + ((j + 1) - 1) * Padded = (off + (j - 1) * Padded) + Padded
    BY <1>1, <1>2, <1>3
  <2>3. /\ more[j] = [block |-> b, off |-> off + (j - 1) * Padded]
        /\ more[j + 1] = [block |-> b, off |-> off + ((j + 1) - 1) * Padded]
    BY <1>6, <2>1
  <2>4. /\ more[j].block = b /\ more[j].off = off + (j - 1) * Padded
        /\ more[j + 1].block = b /\ more[j + 1].off = off + ((j + 1) - 1) * Padded
    BY <2>3
  <2> QED  BY <2>2, <2>4
<1> QED  BY <1>5, <1>9, <1>10 DEF NewElemsAre, more, b, right

LEMMA GrownElemsAre ==
  ASSUME NEW a, NEW h, NEW k, Grown(a, h, k)
  PROVE  ElemsInOrder(h, Padded) = Cat(ElemsInOrder(a, Padded), NewElems(h, k))
<1>1. ElemsInOrder(h, Padded)
        = ElemsInOrder(a, Padded)
            \o PtrsFrom(TailPtr(h, k * Padded).block, TailPtr(h, k * Padded).off, Padded, k)
  BY GrownElems
<1> QED  BY <1>1 DEF Cat, NewElems

LEMMA GrownLinked ==
  ASSUME NEW a, NEW h, NEW k, Grown(a, h, k),
         NEW s, s = ElemsInOrder(a, Padded), Linked(a, s),
         NEW t, t = Cat(s, NewElems(h, k))
  PROVE  Linked(h, t)
<1> DEFINE n == Len(s)
           more == NewElems(h, k)
<1>1. /\ ArenaOK(a) /\ a \in Arenas /\ a.live \subseteq Blocks /\ a.tail_block \in a.live
      /\ k \in 1 .. ElemQtt /\ k \in Nat \ {0} /\ ArenaOK(h) /\ h \in Arenas
  BY ListSizes, ChainEnds DEF Grown, ListShape, ArenaOK, Arenas
<1>2. Padded \in Nat \ {0} /\ k * Padded \in Nat
  BY <1>1, ListSizes
<1>3. /\ more \in Seq(ElemPtr) /\ Len(more) = k
      /\ more[1] = Ptr(h.tail_block, h.block[h.tail_block].right_offset - k * Padded)
      /\ more[k] = Ptr(h.tail_block, h.block[h.tail_block].right_offset - Padded)
      /\ \A j \in 1 .. k - 1 : /\ more[j + 1].block = more[j].block
                               /\ more[j + 1].off = more[j].off + Padded
  BY NewElemsFollow DEF NewElemsAre
<1>4. s \in Seq(ElemPtr)
  BY <1>1, <1>2, ElemsInOrderType
<1> HIDE DEF more
<1>5. IsCat(t, s, more, n, k, ElemPtr)
  BY <1>3, <1>4 DEF more, IsCat
<1> HIDE DEF n
<1>6. /\ t \in Seq(ElemPtr) /\ Len(t) = n + k /\ n \in Nat
      /\ \A i \in 1 .. n : t[i] = s[i]
      /\ \A j \in 1 .. k : t[n + j] = more[j]
  <2>1. Appended(t, s, more, n, k, ElemPtr)
    BY <1>5, CatIs
  <2> QED  BY <2>1 DEF Appended
<1>7. \A i \in 1 .. n : s[i] \in ElemPtr /\ s[i].block \in a.live
  <2> TAKE i \in 1 .. n
  <2>1. s[i] \in Range(s)
    BY <1>4, LenProperties DEF Range, n
  <2> QED  BY <1>1, <1>2, <2>1, ElemPlaces
<1>8. t[n + k] = Ptr(h.tail_block, h.block[h.tail_block].right_offset - Padded)
  <2>1. k \in 1 .. k
    BY <1>1
  <2> QED  BY <1>3, <1>6, <2>1
<1>9. ASSUME NEW i \in 1 .. n - 1
      PROVE  Follows(h, t[i], t[i + 1])
  <2>1. i \in 1 .. n /\ i + 1 \in 1 .. n
    BY <1>6
  <2>2. t[i] = s[i] /\ t[i + 1] = s[i + 1]
    BY <1>6, <2>1
  <2>3. Follows(a, s[i], s[i + 1])
    BY DEF Linked, n
  <2> QED  BY <1>7, <2>1, <2>2, <2>3, StillFollows
<1>10. ASSUME n # 0
       PROVE  Follows(h, t[n], t[n + 1])
  <2>1. n \in 1 .. n /\ 1 \in 1 .. k
    BY <1>1, <1>6, <1>10
  <2>2. t[n] = s[n] /\ t[n + 1] = more[1]
    BY <1>6, <2>1
  <2>3. s[n] = Ptr(a.tail_block, a.block[a.tail_block].right_offset - Padded)
    BY <1>10 DEF Linked, n
  <2> DEFINE old == a.block[a.tail_block].right_offset
             new == h.block[h.tail_block].right_offset
  <2>4. t[n].block = a.tail_block /\ t[n].off = old - Padded /\ old \in Nat
    BY <1>1, <2>2, <2>3 DEF Arenas, MemBlocks, Ptr
  <2>5. t[n + 1].block = h.tail_block /\ t[n + 1].off = new - k * Padded
    BY <1>3, <2>2 DEF Ptr
  <2>6. CASE TailRaised(a, h, k)
    <3>1. h.tail_block = a.tail_block /\ new = old + k * Padded
      BY <2>6 DEF TailRaised, SameLinks
    <3> HIDE DEF old, new
    <3>2. new - k * Padded = (old - Padded) + Padded
      BY <1>2, <2>4, <3>1
    <3> QED  BY <2>4, <2>5, <3>1, <3>2 DEF Follows
  <2>7. CASE TailAdded(a, h, k)
    <3>1. /\ h.block[a.tail_block].next = h.tail_block /\ new = k * Padded
          /\ h.block[a.tail_block].right_offset = old
      BY <1>1, <2>7 DEF TailAdded, SameOffsets
    <3> HIDE DEF old, new
    <3>2. new - k * Padded = 0
      BY <1>2, <3>1
    <3> QED  BY <2>4, <2>5, <3>1, <3>2 DEF Follows
  <2> QED  BY <2>6, <2>7 DEF Grown
<1>11. ASSUME NEW j \in 1 .. k - 1
       PROVE  Follows(h, t[n + j], t[(n + j) + 1])
  <2>1. j \in 1 .. k /\ j + 1 \in 1 .. k /\ (n + j) + 1 = n + (j + 1)
    BY <1>1, <1>6
  <2>2. t[n + j] = more[j] /\ t[(n + j) + 1] = more[j + 1]
    BY <1>6, <2>1
  <2> QED  BY <1>3, <2>2 DEF Follows
<1>12. ASSUME NEW i \in 1 .. (n + k) - 1
       PROVE  Follows(h, t[i], t[i + 1])
  <2>1. i \in 1 .. n - 1 \/ (i = n /\ n # 0) \/ (i - n \in 1 .. k - 1 /\ n + (i - n) = i)
    BY <1>1, <1>6
  <2> QED  BY <1>9, <1>10, <1>11, <2>1
<1> QED  BY <1>6, <1>8, <1>12 DEF Linked

LEMMA GrownFromHead ==
  ASSUME NEW a, NEW h, NEW k, Grown(a, h, k),
         k * Padded <= BlockBytes - (BlockBytes \div 2),
         NEW s, s = ElemsInOrder(a, Padded), FromHead(a, s),
         NEW t, t = Cat(s, NewElems(h, k))
  PROVE  FromHead(h, t)
<1> DEFINE n == Len(s)
           more == NewElems(h, k)
<1>1. /\ ListShape(a) /\ ArenaOK(a) /\ a \in Arenas /\ a.live \subseteq Blocks
      /\ a.tail_block \in a.live /\ a.head_block \in a.live
      /\ k \in 1 .. ElemQtt /\ k \in Nat \ {0} /\ ArenaOK(h) /\ h \in Arenas
      /\ a.block[a.head_block].left_offset = BlockBytes \div 2
      /\ a.block_size = BlockBytes /\ InBounds(a)
  BY ListSizes, ChainEnds DEF Grown, ListShape, ArenaOK, Arenas
<1>2. Padded \in Nat \ {0} /\ k * Padded \in Nat
  BY <1>1, ListSizes
<1>3. /\ more \in Seq(ElemPtr) /\ Len(more) = k
      /\ more[1] = Ptr(h.tail_block, h.block[h.tail_block].right_offset - k * Padded)
  BY NewElemsFollow DEF NewElemsAre
<1>4. s \in Seq(ElemPtr)
  BY <1>1, <1>2, ElemsInOrderType
<1> HIDE DEF more
<1>5. IsCat(t, s, more, n, k, ElemPtr)
  BY <1>3, <1>4 DEF more, IsCat
<1> HIDE DEF n
<1>6. /\ t \in Seq(ElemPtr) /\ Len(t) = n + k /\ n \in Nat
      /\ \A i \in 1 .. n : t[i] = s[i]
      /\ \A j \in 1 .. k : t[n + j] = more[j]
  <2>1. Appended(t, s, more, n, k, ElemPtr)
    BY <1>5, CatIs
  <2> QED  BY <2>1 DEF Appended
<1>7. h.head_block = a.head_block
  BY DEF Grown, TailRaised, TailAdded, SameLinks
<1>8. h.block[a.head_block].left_offset = a.block[a.head_block].left_offset
  <2>1. CASE TailRaised(a, h, k)
    BY <1>1, <2>1 DEF TailRaised, SameOffsets
  <2>2. CASE TailAdded(a, h, k)
    BY <1>1, <2>2 DEF TailAdded, SameOffsets
  <2> QED  BY <2>1, <2>2 DEF Grown
<1>9. CASE n # 0
  <2>1. t[1] = s[1]
    BY <1>6, <1>9
  <2> QED  BY <1>7, <1>8, <1>9, <2>1 DEF FromHead, n
<1>10. CASE n = 0
  <2>1. s = <<>>
    BY <1>4, <1>10, EmptySeq DEF n
  <2>2. /\ \A b \in a.live : b = a.head_block
        /\ a.block[a.head_block].right_offset = a.block[a.head_block].left_offset
    BY <1>1, <2>1, NoElemsOneBlock
  <2>3. a.tail_block = a.head_block
    BY <1>1, <2>2
  <2>4. a.block[a.head_block].size = BlockBytes
    BY <1>1 DEF InBounds
  <2>5. BlockBytes \div 2 \in Nat /\ BlockBytes \in Nat
    BY ListSizes
  <2>6. TailRaised(a, h, k)
    <3>1. ~TailAdded(a, h, k)
      BY <1>1, <1>2, <2>2, <2>3, <2>4, <2>5 DEF TailAdded
    <3> QED  BY <3>1 DEF Grown
  <2>7. h.tail_block = a.head_block
        /\ h.block[a.head_block].right_offset = BlockBytes \div 2 + k * Padded
    BY <1>1, <2>2, <2>3, <2>6 DEF TailRaised, SameLinks
  <2>8. more[1] = Ptr(a.head_block, BlockBytes \div 2)
    <3>1. (BlockBytes \div 2 + k * Padded) - k * Padded = BlockBytes \div 2
      BY <1>2, <2>5
    <3> QED  BY <1>3, <2>7, <3>1
  <2>9. t[1] = more[1]
    <3>1. 1 \in 1 .. k /\ n + 1 = 1
      BY <1>1, <1>10
    <3> QED  BY <1>6, <3>1
  <2> QED  BY <1>1, <1>7, <1>8, <2>8, <2>9 DEF FromHead
<1> QED  BY <1>9, <1>10

-----------------------------------------------------------------------------
(* Lookups.  _lf_get_block_of_elem's walk from the head reaches the block   *)
(* an element lies in.                                                      *)
WalkAt(l, p, f, b) ==
  IF b = Null THEN Null
  ELSE IF SpansElem(l, b, p) THEN b ELSE f[l.arena.block[b].next]

IsWalk(l, p, f) == f = [b \in Blocks \cup {Null} |-> WalkAt(l, p, f, b)]

LEMMA WalkExists ==
  ASSUME NEW l, l.arena \in Arenas, NEW p
  PROVE  \E f : IsWalk(l, p, f)
<1> DEFINE D == Blocks \cup {Null}
           stop == {b \in D : b = Null \/ SpansElem(l, b, p)}
           val == [b \in D |-> b]
           move == [b \in D |-> l.arena.block[b].next]
<1>1. ASSUME NEW b \in D \ stop
      PROVE  move[b] \in D
  <2>1. b \in Blocks
    OBVIOUS
  <2>2. l.arena.block[b].next \in D
    BY <2>1 DEF Arenas, MemBlocks
  <2> QED  BY <2>2
<1>2. PICK f : IsLoop(f, D, stop, val, move)
  <2>1. stop \in SUBSET D
    OBVIOUS
  <2> HIDE DEF D, stop, val, move
  <2> QED  BY <1>1, <2>1, LoopExists
<1>3. ASSUME NEW b \in D
      PROVE  LoopAt(f, stop, val, move, b) = WalkAt(l, p, f, b)
  <2>1. /\ val[b] = b /\ move[b] = l.arena.block[b].next
        /\ b \in stop <=> b = Null \/ SpansElem(l, b, p)
    OBVIOUS
  <2> HIDE DEF val, move, stop
  <2> QED  BY <2>1 DEF LoopAt, WalkAt
<1> HIDE DEF stop, val, move
<1> QED  BY <1>2, <1>3 DEF IsLoop, IsWalk

LEMMA WalkUnfolds ==
  ASSUME NEW l, l.arena \in Arenas, NEW p
  PROVE  \E f : /\ IsWalk(l, p, f)
                /\ BlockOfElem(l, p) =
                     f[IF InUsedBytes(l, l.arena.cursor_block, p)
                       THEN l.arena.cursor_block ELSE l.arena.head_block]
<1> DEFINE f == CHOOSE f : IsWalk(l, p, f)
<1>1. IsWalk(l, p, f)
  BY WalkExists
<1>2. BlockOfElem(l, p) =
        f[IF InUsedBytes(l, l.arena.cursor_block, p)
          THEN l.arena.cursor_block ELSE l.arena.head_block]
  BY DEF BlockOfElem, IsWalk, WalkAt
<1> HIDE DEF f
<1> QED  BY <1>1, <1>2

(* A place that holds an element. *)
IsElem(a, p) ==
  /\ p \in ElemPtr /\ p.block \in a.live
  /\ a.block[p.block].left_offset <= p.off
  /\ p.off + Padded <= a.block[p.block].right_offset

LEMMA BlockOfElemIs ==
  ASSUME NEW l, ArenaOK(l.arena), l.elem_padded_size = Padded,
         NEW p, IsElem(l.arena, p)
  PROVE  BlockOfElem(l, p) = p.block
<1> DEFINE a == l.arena
           n == a.block_count
           s == Chain(a)
<1>1. /\ a \in Arenas /\ Chained(a) /\ n \in Nat /\ n >= 1 /\ a.live \subseteq Blocks
  BY DEF ArenaOK, Arenas, Chained
<1>2. s \in [1 .. n -> a.live] /\ IsChain(a, s)
  BY <1>1, ChainOfChained
<1>3. PICK j \in 1 .. n : s[j] = p.block
  BY <1>2 DEF IsChain, IsElem
<1>4. PICK f : /\ IsWalk(l, p, f)
               /\ BlockOfElem(l, p) =
                    f[IF InUsedBytes(l, a.cursor_block, p)
                      THEN a.cursor_block ELSE a.head_block]
  BY <1>1, WalkUnfolds
<1>5. SpansElem(l, p.block, p)
  <2>1. /\ p.off \in Nat /\ Padded \in Nat /\ a.block[p.block].right_offset \in Nat
        /\ p.off + Padded <= a.block[p.block].right_offset
    BY <1>1, ListSizes DEF IsElem, ElemPtr, Arenas, MemBlocks
  <2>2. p.off <= a.block[p.block].right_offset - Padded
    BY <2>1
  <2> QED  BY <2>2 DEF SpansElem, LastOff, IsElem
<1>6. \A b \in Blocks : b # p.block => ~SpansElem(l, b, p)
  BY DEF SpansElem
<1> HIDE DEF s
<1>7. \A b \in Blocks : f[b] = IF SpansElem(l, b, p) THEN b ELSE f[a.block[b].next]
  BY <1>4, BlocksAssumption DEF IsWalk, WalkAt
<1>8. f[p.block] = p.block
  BY <1>5, <1>7 DEF IsElem, ElemPtr
<1> DEFINE T == {i \in 1 .. j : f[s[i]] = p.block}
<1>9. j \in T
  BY <1>3, <1>8
<1>10. ASSUME NEW i \in 1 .. j - 1, i + 1 \in T
       PROVE  i \in T
  <2>1. i \in 1 .. n /\ i # n /\ i \in 1 .. j /\ i # j
    BY <1>1
  <2>2. s[i] \in Blocks /\ s[i] # p.block
    BY <1>1, <1>2, <1>3, <2>1 DEF IsChain
  <2>3. a.block[s[i]].next = s[i + 1]
    BY <1>2, <2>1 DEF IsChain
  <2> QED  BY <1>6, <1>7, <1>10, <2>1, <2>2, <2>3
<1>11. \A i \in 1 .. j : i \in T
  <2> HIDE DEF T
  <2>1. j \in Nat
    OBVIOUS
  <2> QED  BY <1>9, <1>10, <2>1, DownwardInduction
<1>12. f[a.head_block] = p.block
  <2>1. 1 \in 1 .. j /\ s[1] = a.head_block
    BY <1>2 DEF IsChain
  <2> QED  BY <1>11, <2>1
<1>13. InUsedBytes(l, a.cursor_block, p) => a.cursor_block = p.block
  BY DEF InUsedBytes
<1> QED  BY <1>4, <1>8, <1>12, <1>13

(* next and prev undo each other, and lead to live blocks. *)
LEMMA LinksAgree ==
  ASSUME NEW a, ArenaOK(a), NEW b \in a.live
  PROVE  /\ a.block[b].next \in a.live \cup {Null}
         /\ a.block[b].prev \in a.live \cup {Null}
         /\ a.block[b].next # Null => a.block[a.block[b].next].prev = b
<1>1. Chained(a) /\ a.block_count \in Nat /\ a.live \subseteq Blocks
  BY DEF ArenaOK, Arenas
<1>2. PICK s \in [1 .. a.block_count -> a.live] : IsChain(a, s)
  BY <1>1 DEF Chained, Chains
<1>3. PICK i \in 1 .. a.block_count : s[i] = b
  BY <1>2 DEF IsChain
<1>4. /\ a.block[b].prev = IF i = 1 THEN Null ELSE s[i - 1]
      /\ a.block[b].next = IF i = a.block_count THEN Null ELSE s[i + 1]
  BY <1>2, <1>3 DEF IsChain
<1>5. i # 1 => i - 1 \in 1 .. a.block_count
  BY <1>1
<1>6. i # a.block_count => i + 1 \in 1 .. a.block_count /\ i + 1 # 1 /\ (i + 1) - 1 = i
  BY <1>1
<1>7. i # a.block_count => a.block[s[i + 1]].prev = s[i]
  BY <1>2, <1>6 DEF IsChain
<1> QED  BY <1>2, <1>3, <1>4, <1>5, <1>6, <1>7

(* Of the elements the invariant speaks of. *)
LEMMA ElemsHeldBy ==
  ASSUME NEW l, NEW s, ListHolds(l, s)
  PROVE  \A i \in 1 .. Len(s) : IsElem(l.arena, s[i])
<1> TAKE i \in 1 .. Len(s)
<1>1. /\ ArenaOK(l.arena) /\ s \in Seq(ElemPtr)
      /\ ElemsInOrder(l.arena, Padded) = s
  BY DEF ListHolds, ListShape
<1>2. s[i] \in Range(ElemsInOrder(l.arena, Padded))
  BY <1>1, LenProperties DEF Range
<1> QED  BY <1>1, <1>2, ListSizes, ElemPlaces DEF IsElem

LEMMA ElemsHeld ==
  ASSUME ListIInv
  PROVE  \A i \in 1 .. Len(elems) : IsElem(list.arena, elems[i])
BY ElemsHeldBy DEF ListIInv

(* What the lookups return and where they leave the cursor. *)
LEMMA NextOfFollowed ==
  ASSUME NEW l, ArenaOK(l.arena), l.elem_padded_size = Padded,
         NEW p, IsElem(l.arena, p), NEW q, IsElem(l.arena, q),
         Follows(l.arena, p, q)
  PROVE  /\ NextElem(l, p).ptr = q
         /\ q.off = 0 \/ q.block = p.block
<1> DEFINE a == l.arena
           b == p.block
           right == a.block[b].right_offset
<1>1. /\ BlockOfElem(l, p) = b /\ b \in Blocks /\ b # Null
      /\ q = Ptr(q.block, q.off) /\ q.block \in Blocks /\ q.block # Null
  BY BlockOfElemIs, BlocksAssumption DEF IsElem, ElemPtr, Ptr
<1>2. /\ right \in Nat /\ p.off \in Nat /\ q.off \in Nat /\ Padded \in Nat \ {0}
  BY <1>1, ListSizes DEF IsElem, ElemPtr, ArenaOK, Arenas, MemBlocks
<1>3. LastOff(l, b) = right - Padded
  BY DEF LastOff
<1>4. CASE q.block = b /\ q.off = p.off + Padded
  <2>1. (p.off + Padded) + Padded <= right
    BY <1>4 DEF IsElem
  <2>2. ~AtBlockEnd(l, b, p)
    BY <1>2, <1>3, <2>1 DEF AtBlockEnd
  <2>3. NextElem(l, p) = [ptr |-> Ptr(b, p.off + l.elem_padded_size), cursor |-> b]
    BY <1>1, <2>2 DEF NextElem
  <2> QED  BY <1>1, <1>4, <2>3
<1>5. CASE p.off = right - Padded /\ q.block = a.block[b].next /\ q.off = 0
  <2>1. AtBlockEnd(l, b, p)
    BY <1>3, <1>5 DEF AtBlockEnd
  <2>2. NextElem(l, p) = IntoNextBlock(l, b)
    BY <1>1, <2>1 DEF NextElem
  <2>3. IntoNextBlock(l, b) = [ptr |-> Ptr(q.block, 0), cursor |-> q.block]
    BY <1>1, <1>5 DEF IntoNextBlock
  <2>4. q = Ptr(q.block, 0)
    BY <1>1, <1>5
  <2>5. NextElem(l, p).ptr = q
    BY <2>2, <2>3, <2>4
  <2> QED  BY <1>5, <2>5
<1> QED  BY <1>4, <1>5 DEF Follows

LEMMA NextOfLast ==
  ASSUME NEW l, ArenaOK(l.arena), l.elem_padded_size = Padded,
         NEW p, IsElem(l.arena, p),
         p = Ptr(l.arena.tail_block,
                 l.arena.block[l.arena.tail_block].right_offset - Padded)
  PROVE  NextElem(l, p).ptr = Null
<1> DEFINE b == l.arena.tail_block
<1>1. BlockOfElem(l, p) = b /\ b # Null
  BY BlockOfElemIs, BlocksAssumption DEF IsElem, ElemPtr, Ptr
<1>2. AtBlockEnd(l, b, p)
  BY DEF AtBlockEnd, LastOff, Ptr
<1>3. NextElem(l, p) = IntoNextBlock(l, b)
  BY <1>1, <1>2 DEF NextElem
<1>4. l.arena.block[b].next = Null
  BY TailHasNoNext
<1> QED  BY <1>3, <1>4 DEF IntoNextBlock

LEMMA PrevOfFollowing ==
  ASSUME NEW l, ArenaOK(l.arena), l.elem_padded_size = Padded,
         NEW p, IsElem(l.arena, p), NEW q, IsElem(l.arena, q),
         Follows(l.arena, p, q)
  PROVE  PrevElem(l, q).ptr = p
<1> DEFINE a == l.arena
           b == q.block
<1>1. /\ BlockOfElem(l, q) = b /\ b \in Blocks /\ b # Null
      /\ p = Ptr(p.block, p.off) /\ p.block \in Blocks /\ p.block # Null
      /\ p.block \in a.live
  BY BlockOfElemIs, BlocksAssumption DEF IsElem, ElemPtr, Ptr
<1>2. p.off \in Nat /\ Padded \in Nat \ {0}
  BY ListSizes DEF IsElem, ElemPtr
<1>3. CASE b = p.block /\ q.off = p.off + Padded
  <2>1. q.off # 0 /\ (p.off + Padded) - Padded = p.off
    BY <1>2, <1>3
  <2>2. PrevElem(l, q) = [ptr |-> Ptr(b, q.off - l.elem_padded_size), cursor |-> b]
    BY <1>1, <2>1 DEF PrevElem
  <2>3. q.off - l.elem_padded_size = p.off
    BY <1>3, <2>1
  <2> QED  BY <1>1, <1>3, <2>2, <2>3
<1>4. CASE p.off = a.block[p.block].right_offset - Padded
           /\ b = a.block[p.block].next /\ q.off = 0
  <2>1. a.block[b].prev = p.block
    BY <1>1, <1>4, LinksAgree
  <2>2. PrevElem(l, q) = IntoPrevBlock(l, b)
    BY <1>1, <1>4 DEF PrevElem
  <2>3. IntoPrevBlock(l, b).ptr = Ptr(p.block, PrevBlockLast(l, p.block))
    BY <1>1, <2>1 DEF IntoPrevBlock
  <2>4. PrevBlockLast(l, p.block) = p.off
    BY <1>4 DEF PrevBlockLast, LastOff
  <2> QED  BY <1>1, <2>2, <2>3, <2>4
<1> QED  BY <1>3, <1>4 DEF Follows

LEMMA CursorsLive ==
  ASSUME NEW l, ArenaOK(l.arena), l.arena.cursor_block \in l.arena.live,
         l.elem_padded_size = Padded
  PROVE  /\ FirstElem(l).cursor \in l.arena.live
         /\ LastElem(l).cursor \in l.arena.live
         /\ \A p : IsElem(l.arena, p) =>
              /\ NextElem(l, p).cursor \in l.arena.live
              /\ PrevElem(l, p).cursor \in l.arena.live
<1> DEFINE a == l.arena
<1>1. a.head_block \in a.live /\ a.tail_block \in a.live
  BY ChainEnds DEF ArenaOK, Arenas
<1>2. FirstElem(l).cursor \in a.live /\ LastElem(l).cursor \in a.live
  BY <1>1 DEF FirstElem, LastElem
<1>3. ASSUME NEW p, IsElem(a, p)
      PROVE  NextElem(l, p).cursor \in a.live /\ PrevElem(l, p).cursor \in a.live
  <2> DEFINE b == p.block
  <2>1. BlockOfElem(l, p) = b /\ b \in a.live /\ b # Null
    BY <1>3, BlockOfElemIs, BlocksAssumption DEF IsElem, ElemPtr
  <2>2. /\ a.block[b].next \in a.live \cup {Null}
        /\ a.block[b].prev \in a.live \cup {Null}
    BY <2>1, LinksAgree
  <2>3. IntoNextBlock(l, b).cursor \in a.live /\ IntoPrevBlock(l, b).cursor \in a.live
    BY <2>1, <2>2 DEF IntoNextBlock, IntoPrevBlock
  <2>4. NextElem(l, p).cursor \in {IntoNextBlock(l, b).cursor, b}
    BY <2>1 DEF NextElem
  <2>5. PrevElem(l, p).cursor \in {IntoPrevBlock(l, b).cursor, b}
    BY <2>1 DEF PrevElem
  <2> QED  BY <2>1, <2>3, <2>4, <2>5
<1> QED  BY <1>2, <1>3

-----------------------------------------------------------------------------
(* The invariant holds at the start and every operation keeps it.           *)
LEMMA InitListHolds ==
  ASSUME NEW n \in Blocks
  PROVE  ListHolds(InitList(n, ElemSize, ElemAlignment, ElemQtt), <<>>)
<1> DEFINE a == InitArena(n, BlockBytes, "middle")
           l == InitList(n, ElemSize, ElemAlignment, ElemQtt)
           none == <<>>
<1>2. l = [arena |-> a, elem_count |-> 0, elem_size |-> ElemSize, elem_padded_size |-> Padded]
  BY DEF InitList, Padded, BlockBytes
<1>3. ListShape(a) /\ ElemsInOrder(a, Padded) = none /\ a \in Arenas
  BY InitListShape DEF ListShape, ArenaOK
<1> HIDE DEF a, l
<1>5. /\ l \in Lists /\ l.elem_padded_size = Padded /\ l.arena = a
      /\ l.elem_count = 0
  BY <1>2, <1>3, ElemAssumption, ListSizes DEF Lists
<1>6. Len(none) = 0 /\ none \in Seq(ElemPtr)
  OBVIOUS
<1> HIDE DEF none
<1>7. Linked(l.arena, none) /\ FromHead(l.arena, none)
  <2>1. ~(\E i : i \in 1 .. Len(none) - 1)
    BY <1>6
  <2> QED  BY <1>6, <2>1 DEF Linked, FromHead
<1>8. ListHolds(l, none)
  BY <1>3, <1>5, <1>6, <1>7 DEF ListHolds
<1> QED  BY <1>8 DEF l, none

LEMMA InitListIInv == Init => ListIInv
BY InitListHolds DEF Init, ListIInv

LEMMA AllocListHolds ==
  ASSUME NEW l, NEW s, ListHolds(l, s), NEW qtt \in Batches,
         NEW g, g \in AllocListElems(l, qtt),
         NEW t, t = Cat(s, NewElems(g.arena, qtt))
  PROVE  ListHolds(g, t)
<1> DEFINE a == l.arena
<1>1. /\ l \in Lists /\ l.elem_padded_size = Padded /\ ListShape(a)
      /\ s \in Seq(ElemPtr) /\ l.elem_count = Len(s)
      /\ ElemsInOrder(a, Padded) = s /\ Linked(a, s)
      /\ BatchesFitHalf => FromHead(a, s)
  BY DEF ListHolds
<1>2. qtt \in 1 .. ElemQtt /\ qtt \in Nat
  BY BatchesAssumption, ListSizes
<1>3. PICK h \in AllocAtTail(a, qtt * Padded) :
        g = [l EXCEPT !.arena = h, !.elem_count = l.elem_count + qtt]
  BY <1>1 DEF AllocListElems, Lists
<1>4. Grown(a, h, qtt)
  BY <1>1, <1>2, <1>3, GrownArena DEF Grown
<1>5. ListShape(h) /\ h \in Arenas
  BY <1>4, GrownShape DEF ListShape, ArenaOK
<1>6. /\ g \in Lists /\ g.arena = h /\ g.elem_padded_size = Padded
      /\ g.elem_count = l.elem_count + qtt
  <2>1. l.elem_count + qtt \in Nat
    BY <1>1, <1>2 DEF Lists
  <2> DEFINE n == l.elem_count + qtt
  <2>2. g = [l EXCEPT !.arena = h, !.elem_count = n]
    BY <1>3
  <2> HIDE DEF n
  <2>3. n \in Nat
    BY <2>1 DEF n
  <2>4. /\ g \in Lists /\ g.arena = h /\ g.elem_padded_size = Padded
        /\ g.elem_count = n
    BY <1>1, <1>5, <2>2, <2>3 DEF Lists
  <2> QED  BY <2>4 DEF n
<1> DEFINE more == NewElems(h, qtt)
<1>7. t = Cat(s, more)
  BY <1>6
<1> HIDE DEF a, more
<1>8. s = ElemsInOrder(a, Padded)
  BY <1>1
<1>9. ElemsInOrder(h, Padded) = t
  BY <1>4, <1>7, <1>8, GrownElemsAre DEF more
<1>10. t \in Seq(ElemPtr) /\ Len(t) = Len(s) + qtt
  <2>1. more \in Seq(ElemPtr) /\ Len(more) = qtt
    BY <1>4, NewElemsFollow DEF NewElemsAre, more
  <2>2. IsCat(t, s, more, Len(s), qtt, ElemPtr)
    BY <1>1, <1>7, <2>1 DEF IsCat
  <2>3. Appended(t, s, more, Len(s), qtt, ElemPtr)
    BY <2>2, CatIs
  <2> QED  BY <2>3 DEF Appended
<1>11. t = Cat(s, NewElems(h, qtt))
  BY <1>7 DEF more
<1>12. Linked(h, t)
  <2>1. Linked(a, s)
    BY <1>1
  <2> QED  BY <1>4, <1>8, <1>11, <2>1, GrownLinked
<1>13. ASSUME BatchesFitHalf
       PROVE  FromHead(h, t)
  <2>1. qtt * Padded <= BlockBytes - (BlockBytes \div 2)
    BY <1>13 DEF BatchesFitHalf
  <2>2. FromHead(a, s)
    BY <1>1, <1>13
  <2> QED  BY <1>4, <1>8, <1>11, <2>1, <2>2, GrownFromHead
<1> QED  BY <1>1, <1>5, <1>6, <1>9, <1>10, <1>12, <1>13 DEF ListHolds

LEMMA AllocListIInv ==
  ASSUME ListIInv, NEW qtt \in Batches, AllocElems(qtt)
  PROVE  ListIInv'
<1>1. elems' = Cat(elems, NewElems(list'.arena, qtt))
  <2>1. NewElems(list'.arena, qtt)
          = [i \in 1 .. qtt |-> Ptr(TailPtr(list'.arena, qtt * Padded).block,
                                   TailPtr(list'.arena, qtt * Padded).off + (i - 1) * Padded)]
    BY DEF NewElems, PtrsFrom, Ptr
  <2> QED  BY <2>1 DEF AllocElems, Cat
<1>2. ListHolds(list, elems) /\ list' \in AllocListElems(list, qtt)
  BY DEF ListIInv, AllocElems
<1> QED  BY <1>1, <1>2, AllocListHolds DEF ListIInv

(* A lookup changes nothing but the cursor. *)
LEMMA CursorMoved ==
  ASSUME NEW a, ListShape(a), NEW c \in a.live,
         NEW h, h = [a EXCEPT !.cursor_block = c]
  PROVE  /\ ListShape(h) /\ ElemsInOrder(h, Padded) = ElemsInOrder(a, Padded)
         /\ \A s : Linked(a, s) => Linked(h, s)
         /\ \A s : FromHead(a, s) => FromHead(h, s)
<1>1. /\ ArenaOK(a) /\ a \in Arenas /\ Chained(a) /\ InBounds(a) /\ a.block_count \in Nat
      /\ c \in Blocks
  BY DEF ListShape, ArenaOK, Arenas
<1>2. /\ h \in Arenas /\ h.cursor_block = c /\ h.live = a.live /\ h.block = a.block
      /\ h.block_count = a.block_count /\ h.block_size = a.block_size
      /\ h.block_offset = a.block_offset
      /\ h.head_block = a.head_block /\ h.tail_block = a.tail_block
  BY <1>1 DEF Arenas
<1>3. Chained(h)
  BY <1>1, <1>2, SameLinksChained
<1>4. InBounds(h)
  BY <1>1, <1>2 DEF InBounds
<1>5. ArenaOK(h)
  BY <1>2, <1>3, <1>4 DEF ArenaOK
<1>6. ListShape(h)
  BY <1>2, <1>5 DEF ListShape, WholeElems
<1>7. ElemsInOrder(h, Padded) = ElemsInOrder(a, Padded)
  <2>1. Chain(h) = Chain(a)
    BY <1>1, <1>2, <1>5, SameLinksSameChain DEF SameLinks
  <2>2. \A b : ElemPtrs(h, b, Padded) = ElemPtrs(a, b, Padded)
    BY <1>2 DEF ElemPtrs
  <2> QED  BY <1>2, <2>1, <2>2 DEF ElemsInOrder
<1> QED  BY <1>2, <1>6, <1>7 DEF Linked, Follows, FromHead

LEMMA MoveListHolds ==
  ASSUME NEW l, NEW s, ListHolds(l, s), NEW c \in l.arena.live
  PROVE  ListHolds(WithCursor(l, c), s)
<1> DEFINE a == l.arena
           h == [a EXCEPT !.cursor_block = c]
           g == WithCursor(l, c)
<1>1. /\ l \in Lists /\ l.elem_padded_size = Padded /\ ListShape(a)
      /\ s \in Seq(ElemPtr) /\ l.elem_count = Len(s)
      /\ ElemsInOrder(a, Padded) = s /\ Linked(a, s)
      /\ BatchesFitHalf => FromHead(a, s)
  BY DEF ListHolds
<1>2. g = [l EXCEPT !.arena = h]
  BY <1>1 DEF WithCursor, Lists
<1>3. /\ ListShape(h) /\ ElemsInOrder(h, Padded) = s /\ Linked(h, s)
      /\ BatchesFitHalf => FromHead(h, s)
  BY <1>1, CursorMoved
<1>4. h \in Arenas
  BY <1>3 DEF ListShape, ArenaOK
<1> HIDE DEF h, g
<1>5. /\ g \in Lists /\ g.arena = h /\ g.elem_padded_size = Padded
      /\ g.elem_count = l.elem_count
  BY <1>1, <1>2, <1>4 DEF Lists
<1>6. ListHolds(g, s)
  BY <1>1, <1>3, <1>5 DEF ListHolds
<1> QED  BY <1>6 DEF g

LEMMA MoveListIInv ==
  ASSUME ListIInv, NEW lookup, lookup.cursor \in list.arena.live, MoveTo(lookup)
  PROVE  ListIInv'
BY MoveListHolds DEF ListIInv, MoveTo

LEMMA ResetListIInv ==
  ASSUME ListIInv, Reset
  PROVE  ListIInv'
<1> DEFINE a == list.arena
           h == ResetArena(a)
<1>1. /\ list \in Lists /\ list.elem_padded_size = Padded /\ ListShape(a)
      /\ elems \in Seq(ElemPtr) /\ list.elem_count = Len(elems)
      /\ ElemsInOrder(a, Padded) = elems
  BY DEF ListIInv, ListHolds
<1>2. list.elem_count = 0 /\ list' = [list EXCEPT !.arena = h] /\ elems' = elems
  BY <1>1 DEF Reset, ResetList, Lists
<1>3. elems = <<>>
  BY <1>1, <1>2, EmptySeq
<1>4. \A b \in a.live : b = a.head_block
  BY <1>1, <1>3, NoElemsOneBlock
<1>5. /\ ArenaOK(a) /\ a \in Arenas /\ a.live \subseteq Blocks /\ a.head_block \in a.live
      /\ a.block_size = BlockBytes /\ a.block_offset = "middle"
      /\ a.cursor_block \in a.live
  BY <1>1, ChainEnds DEF ListShape, ArenaOK, Arenas
<1>6. /\ ArenaOK(h) /\ h.block_size = a.block_size
      /\ h.block_offset = a.block_offset /\ h.live = a.live
  BY <1>5, ResetArenaOK
<1>7. /\ h.head_block = a.head_block /\ h.cursor_block = a.cursor_block
      /\ h.block = [b \in Blocks |-> IF b \in Walked(a) THEN Restarted(a, b)
                                                        ELSE a.block[b]]
  BY <1>5 DEF ResetArena, Arenas
<1> DEFINE b == a.head_block
<1>8. h.block[b].left_offset = BlockBytes \div 2 /\ h.block[b].right_offset = BlockBytes \div 2
  <2>1. h.block[b] = Restarted(a, b)
    BY <1>5, <1>7, WalkedIsLive
  <2>2. a.block[b] \in MemBlocks
    BY <1>5 DEF Arenas
  <2>3. StartOffset(a.block_size, a.block_offset) = BlockBytes \div 2
    BY <1>5 DEF StartOffset
  <2> QED  BY <2>1, <2>2, <2>3 DEF Restarted, MemBlocks
<1> HIDE DEF h
<1>9. BlockBytes \div 2 \in Nat /\ Padded \in Nat \ {0} /\ ElemQtt \in Nat
  BY ListSizes
<1>10. WholeElems(h, b)
  <2>1. BlockBytes \div 2 = BlockBytes \div 2 + 0 * Padded /\ 0 \in 0 .. ElemQtt
    BY <1>9
  <2> QED  BY <1>8, <2>1 DEF WholeElems
<1>11. ListShape(h)
  BY <1>4, <1>5, <1>6, <1>7, <1>8, <1>10 DEF ListShape
<1>12. ElemsInOrder(h, Padded) = <<>>
  <2>1. ElemsInOrder(h, Padded) \in Seq(ElemPtr)
    BY <1>6, <1>9, ElemsInOrderType
  <2>2. ASSUME NEW p \in Range(ElemsInOrder(h, Padded)) PROVE FALSE
    <3>1. /\ p \in ElemPtr /\ p.block \in h.live
          /\ h.block[p.block].left_offset <= p.off
          /\ p.off + Padded <= h.block[p.block].right_offset
      BY <1>6, <1>9, ElemPlaces
    <3> QED  BY <1>4, <1>6, <1>8, <1>9, <3>1 DEF ElemPtr
  <2> QED  BY <2>1, <2>2, EmptyRange
<1>13. h \in Arenas
  BY <1>6 DEF ArenaOK
<1>14. /\ list' \in Lists /\ list'.arena = h /\ list'.elem_padded_size = Padded
       /\ list'.elem_count = list.elem_count
  BY <1>1, <1>2, <1>13 DEF Lists
<1>15. Linked(h, elems) /\ FromHead(h, elems)
  BY <1>3 DEF Linked, FromHead
<1> QED  BY <1>1, <1>2, <1>3, <1>11, <1>12, <1>14, <1>15 DEF ListIInv, ListHolds

LEMMA NextListIInv ==
  ASSUME ListIInv, [Next]_vars
  PROVE  ListIInv'
<1>1. /\ ArenaOK(list.arena) /\ list.arena.cursor_block \in list.arena.live
      /\ list.elem_padded_size = Padded
  BY DEF ListIInv, ListHolds, ListShape
<1>2. /\ FirstElem(list).cursor \in list.arena.live
      /\ LastElem(list).cursor \in list.arena.live
      /\ \A p : IsElem(list.arena, p) => /\ NextElem(list, p).cursor \in list.arena.live
                                        /\ PrevElem(list, p).cursor \in list.arena.live
  BY <1>1, CursorsLive
<1>3. ASSUME NEW qtt \in Batches, AllocElems(qtt)
      PROVE  ListIInv'
  BY <1>3, AllocListIInv
<1>4. CASE GetFirst
  BY <1>2, <1>4, MoveListIInv DEF GetFirst
<1>5. CASE GetLast
  BY <1>2, <1>5, MoveListIInv DEF GetLast
<1>6. ASSUME NEW i \in 1 .. Len(elems), GetNext(elems[i]) \/ GetPrev(elems[i])
      PROVE  ListIInv'
  <2>1. IsElem(list.arena, elems[i])
    BY ElemsHeld
  <2>2. CASE GetNext(elems[i])
    BY <1>2, <2>1, <2>2, MoveListIInv DEF GetNext
  <2>3. CASE GetPrev(elems[i])
    BY <1>2, <2>1, <2>3, MoveListIInv DEF GetPrev
  <2> QED  BY <1>6, <2>2, <2>3
<1>7. CASE Reset
  BY <1>7, ResetListIInv
<1>8. CASE UNCHANGED vars
  BY <1>8 DEF vars, ListIInv, ListHolds
<1> QED  BY <1>3, <1>4, <1>5, <1>6, <1>7, <1>8 DEF Next

(* Of any list that holds some elements: the one after another, and the first. *)
LEMMA NextOfHeld ==
  ASSUME NEW l, NEW s, ListHolds(l, s), NEW i \in 1 .. Len(s)
  PROVE  /\ NextElem(l, s[i]).ptr = IF i < Len(s) THEN s[i + 1] ELSE Null
         /\ NextElem(l, s[i]).cursor \in l.arena.live
         /\ i = Len(s) => LastElem(l).ptr = s[i]
<1>1. /\ ArenaOK(l.arena) /\ l.elem_padded_size = Padded
      /\ l.arena.cursor_block \in l.arena.live
      /\ Linked(l.arena, s) /\ Len(s) \in Nat /\ l.elem_count = Len(s)
  BY LenProperties DEF ListHolds, ListShape
<1>2. IsElem(l.arena, s[i])
  BY ElemsHeldBy
<1>3. NextElem(l, s[i]).cursor \in l.arena.live
  BY <1>1, <1>2, CursorsLive
<1>4. CASE i < Len(s)
  <2>1. i \in 1 .. Len(s) - 1 /\ i + 1 \in 1 .. Len(s)
    BY <1>1, <1>4
  <2>2. IsElem(l.arena, s[i + 1]) /\ Follows(l.arena, s[i], s[i + 1])
    BY <1>1, <2>1, ElemsHeldBy DEF Linked
  <2>3. NextElem(l, s[i]).ptr = s[i + 1]
    BY <1>1, <1>2, <2>2, NextOfFollowed
  <2> QED  BY <1>1, <1>3, <1>4, <2>3
<1>5. CASE ~(i < Len(s))
  <2>1. i = Len(s) /\ Len(s) # 0
    BY <1>1, <1>5
  <2>2. s[i] = Ptr(l.arena.tail_block,
                   l.arena.block[l.arena.tail_block].right_offset - Padded)
    BY <1>1, <2>1 DEF Linked
  <2>3. NextElem(l, s[i]).ptr = Null
    BY <1>1, <1>2, <2>2, NextOfLast
  <2>4. LastElem(l).ptr = s[i]
    BY <1>1, <2>1, <2>2 DEF LastElem, LastOff
  <2> QED  BY <1>3, <1>5, <2>3, <2>4
<1> QED  BY <1>4, <1>5

LEMMA FirstOfHeld ==
  ASSUME NEW l, NEW s, ListHolds(l, s), BatchesFitHalf
  PROVE  /\ FirstElem(l).ptr = IF s = <<>> THEN Null ELSE s[1]
         /\ FirstElem(l).cursor \in l.arena.live
<1>1. /\ ArenaOK(l.arena) /\ l.elem_padded_size = Padded
      /\ l.arena.cursor_block \in l.arena.live
      /\ s \in Seq(ElemPtr) /\ l.elem_count = Len(s) /\ FromHead(l.arena, s)
  BY DEF ListHolds, ListShape
<1>2. FirstElem(l).cursor \in l.arena.live
  BY <1>1, CursorsLive
<1>3. s = <<>> <=> Len(s) = 0
  BY <1>1, EmptySeq
<1> QED  BY <1>1, <1>2, <1>3 DEF FirstElem, FromHead, HeadFirstOff

-----------------------------------------------------------------------------
(* The record and the pointers handed out keep their types (list.c:3-151),  *)
(* for every block count, element size, batch and wrap of size_t.           *)
THEOREM ListTypeCorrect == Spec => []TypeOK
<1>1. ASSUME ListIInv
      PROVE  TypeOK
  BY <1>1 DEF ListIInv, ListHolds, TypeOK, ElemPtr
<1> QED  BY <1>1, InitListIInv, NextListIInv, PTL DEF Spec

(* Blocks and offsets list every element once, in the order of allocation,  *)
(* with elem_count of them, and no lookup leaves the cursor outside the     *)
(* list (list.c:3-36, 38-151).                                              *)
THEOREM ListKeepsOrder == Spec => []PhysicalOrder
<1>1. ASSUME ListIInv
      PROVE  PhysicalOrder
  BY <1>1 DEF ListIInv, ListHolds, ListShape, ArenaOK, PhysicalOrder
<1> QED  BY <1>1, InitListIInv, NextListIInv, PTL DEF Spec

(* lf_get_next_list_elem (list.c:38-81), from any element and any cursor,   *)
(* gives the element allocated after it, over the gaps batches leave, and   *)
(* NULL after the last one, which lf_get_last_list_elem gives.              *)
THEOREM ListNextFollows == Spec => []NextFollows
<1>1. ASSUME ListIInv
      PROVE  NextFollows
  <2>1. ListHolds(list, elems) /\ Len(elems) \in Nat
    BY <1>1, LenProperties DEF ListIInv, ListHolds
  <2>2. ASSUME NEW i \in 1 .. Len(elems), ~(i < Len(elems))
        PROVE  i = Len(elems)
    BY <2>1, <2>2
  <2> QED  BY <2>1, <2>2, NextOfHeld DEF NextFollows
<1> QED  BY <1>1, InitListIInv, NextListIInv, PTL DEF Spec

(* lf_get_prev_list_elem (list.c:83-128) undoes lf_get_next_list_elem.      *)
THEOREM ListPrevInvertsNext == Spec => []PrevInvertsNext
<1>1. ASSUME ListIInv
      PROVE  PrevInvertsNext
  <2> SUFFICES ASSUME NEW i \in 2 .. Len(elems)
               PROVE  PrevElem(list, elems[i]).ptr = elems[i - 1]
    BY DEF PrevInvertsNext
  <2>1. /\ ArenaOK(list.arena) /\ list.elem_padded_size = Padded
        /\ Linked(list.arena, elems) /\ Len(elems) \in Nat
    BY <1>1, LenProperties DEF ListIInv, ListHolds, ListShape
  <2>2. /\ i - 1 \in 1 .. Len(elems) - 1 /\ (i - 1) + 1 = i
        /\ i \in 1 .. Len(elems) /\ i - 1 \in 1 .. Len(elems)
    BY <2>1
  <2>3. /\ IsElem(list.arena, elems[i]) /\ IsElem(list.arena, elems[i - 1])
        /\ Follows(list.arena, elems[i - 1], elems[i])
    BY <1>1, <2>1, <2>2, ElemsHeld DEF Linked
  <2> QED  BY <2>1, <2>3, PrevOfFollowing
<1> QED  BY <1>1, InitListIInv, NextListIInv, PTL DEF Spec

(* lf_get_arena_elem_by_content (arena.c:257-290) on a list finds every     *)
(* element wherever the cursor was left, and nothing that is not one.       *)
THEOREM ListSearchComplete == Spec => []SearchComplete
<1>1. ASSUME ListIInv
      PROVE  SearchComplete
  <2> SUFFICES ASSUME NEW b \in Blocks, NEW o \in 0 .. ElemQtt * Padded
               PROVE  GetElemByContent(list.arena, {Ptr(b, o)}, list.elem_padded_size) =
                        IF \E i \in 1 .. Len(elems) : elems[i] = Ptr(b, o)
                        THEN Ptr(b, o) ELSE Null
    BY DEF SearchComplete
  <2> DEFINE p == Ptr(b, o)
             found == GetElemByContent(list.arena, {p}, list.elem_padded_size)
  <2>1. /\ ArenaOK(list.arena) /\ list.elem_padded_size = Padded
        /\ list.arena.cursor_block \in list.arena.live
        /\ elems \in Seq(ElemPtr) /\ ElemsInOrder(list.arena, Padded) = elems
    BY <1>1 DEF ListIInv, ListHolds, ListShape
  <2>2. FoundIn(found, Range(ElemsInOrder(list.arena, Padded)) \cap {p})
    BY <2>1, ListSizes, GetElemFinds
  <2>3. p \in Range(elems) <=> \E i \in 1 .. Len(elems) : elems[i] = p
    BY <2>1, LenProperties DEF Range
  <2> HIDE DEF p, found
  <2>4. found = IF p \in Range(elems) THEN p ELSE Null
    BY <2>1, <2>2 DEF FoundIn
  <2> QED  BY <2>3, <2>4 DEF p, found
<1> QED  BY <1>1, InitListIInv, NextListIInv, PTL DEF Spec

(* lf_get_first_list_elem (list.c:130-139) gives the first element that was *)
(* allocated, as long as no batch outgrows the half block a list starts     *)
(* with.  (A larger one goes to a block of its own: the head block stays    *)
(* empty and the function returns a place that holds no element.)           *)
THEOREM ListFirstIsFirst ==
  ASSUME BatchesFitHalf
  PROVE  Spec => []FirstIsFirst
<1>1. ASSUME ListIInv
      PROVE  FirstIsFirst
  BY <1>1, FirstOfHeld DEF FirstIsFirst, ListIInv
<1> QED  BY <1>1, InitListIInv, NextListIInv, PTL DEF Spec
=============================================================================
