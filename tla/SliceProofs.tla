----------------------------- MODULE SliceProofs -----------------------------
(***************************************************************************)
(* Theorems about slices: ArenaSlices, with any number of slices of one    *)
(* arena and blocks and requests of any size; and Lexer, whose lexemes are *)
(* slices of its source, for every source and every size of its blocks.    *)
(***************************************************************************)
EXTENDS Lexer, ArenaSlices, ArenaOpsProofs, FiniteSetTheorems

LEMMA ModIs ==
  ASSUME NEW m \in Nat \ {0}, NEW x \in 0 .. m - 1
  PROVE  x % m = x
OBVIOUS

LEMMA ModType ==
  ASSUME NEW m \in Nat \ {0}, NEW x \in Int
  PROVE  x % m \in 0 .. m - 1
OBVIOUS

-----------------------------------------------------------------------------
(* The blocks of a sound arena, along its chain. *)
LEMMA BlocksOf ==
  ASSUME NEW a, ArenaOK(a)
  PROVE  /\ a \in Arenas /\ Chained(a) /\ InBounds(a) /\ a.block_size \in Nat
         /\ a.block_count \in Nat /\ a.block_count >= 1 /\ a.live \subseteq Blocks
         /\ a.head_block \in a.live /\ a.head_block \in Blocks
         /\ a.tail_block \in a.live /\ a.tail_block \in Blocks
         /\ \A b \in a.live : /\ a.block[b] \in MemBlocks
                              /\ a.block[b].left_offset \in Nat
                              /\ a.block[b].right_offset \in Nat
                              /\ a.block[b].left_offset <= a.block[b].right_offset
                              /\ a.block[b].right_offset <= a.block_size
                              /\ a.block[b].size = a.block_size
<1>1. /\ a \in Arenas /\ Chained(a) /\ InBounds(a)
      /\ a.block_count \in Nat /\ a.live \subseteq Blocks /\ a.block_size \in Nat
  BY DEF ArenaOK, Arenas
<1>2. a.head_block \in a.live /\ a.tail_block \in a.live /\ a.block_count >= 1
  BY <1>1, ChainEnds
<1>3. \A b \in a.live : a.block[b] \in MemBlocks
  BY <1>1 DEF Arenas
<1>4. \A b \in a.live : a.block[b].left_offset \in Nat /\ a.block[b].right_offset \in Nat
  BY <1>3 DEF MemBlocks
<1>5. \A b \in a.live : /\ a.block[b].left_offset <= a.block[b].right_offset
                        /\ a.block[b].right_offset <= a.block_size
                        /\ a.block[b].size = a.block_size
  BY <1>1 DEF InBounds
<1> QED  BY <1>1, <1>2, <1>3, <1>4, <1>5

LEMMA AlongChain ==
  ASSUME NEW a, ArenaOK(a)
  PROVE  /\ Chain(a) \in [1 .. a.block_count -> a.live]
         /\ \A i \in 1 .. a.block_count : Chain(a)[i] \in a.live
         /\ \A b \in a.live : \E i \in 1 .. a.block_count : Chain(a)[i] = b
         /\ \A i, j \in 1 .. a.block_count : Chain(a)[i] = Chain(a)[j] => i = j
         /\ Chain(a)[1] = a.head_block /\ Chain(a)[a.block_count] = a.tail_block
         /\ \A i \in 1 .. a.block_count :
              a.block[Chain(a)[i]].next = NextInChain(Chain(a), a.block_count, i)
<1>1. a.block_count \in Nat /\ Chained(a)
  BY BlocksOf
<1>2. Chain(a) \in [1 .. a.block_count -> a.live] /\ IsChain(a, Chain(a))
  BY <1>1, ChainOfChained
<1> QED  BY <1>2 DEF IsChain, NextInChain

(* The loop of _lf_get_arena_slice_size counts a number of bytes.           *)
CountNext(a, cur) == <<a.block[cur[1]].next, cur[2] + Used(a, cur[1])>>
CountAt(f, a, tail, cur) == IF cur[1] \in {Null, tail} THEN cur[2] ELSE f[CountNext(a, cur)]
IsCount(f, a, tail) == f = [cur \in Counts |-> CountAt(f, a, tail, cur)]

LEMMA CountNextType ==
  ASSUME NEW a \in Arenas, NEW cur \in Counts, cur[1] # Null
  PROVE  CountNext(a, cur) \in Counts
<1>1. cur[1] \in Blocks /\ cur[2] \in Int
  BY DEF Counts
<1>2. a.block[cur[1]] \in MemBlocks
  BY <1>1 DEF Arenas
<1>3. a.block[cur[1]].next \in Blocks \cup {Null} /\ Used(a, cur[1]) \in Int
  BY <1>2 DEF MemBlocks, Used
<1> QED  BY <1>1, <1>3 DEF CountNext, Counts

LEMMA CountExists ==
  ASSUME NEW a \in Arenas, NEW tail
  PROVE  \E f : IsCount(f, a, tail)
<1> DEFINE stop == {cur \in Counts : cur[1] \in {Null, tail}}
           val == [cur \in Counts |-> cur[2]]
           move == [cur \in Counts |-> CountNext(a, cur)]
<1>1. ASSUME NEW cur \in Counts \ stop
      PROVE  move[cur] \in Counts
  BY CountNextType
<1>2. PICK f : IsLoop(f, Counts, stop, val, move)
  <2>1. stop \in SUBSET Counts
    OBVIOUS
  <2> HIDE DEF stop, val, move
  <2> QED  BY <1>1, <2>1, LoopExists
<1>3. ASSUME NEW cur \in Counts
      PROVE  LoopAt(f, stop, val, move, cur) = CountAt(f, a, tail, cur)
  <2>1. /\ val[cur] = cur[2] /\ move[cur] = CountNext(a, cur)
        /\ cur \in stop <=> cur[1] \in {Null, tail}
    OBVIOUS
  <2> HIDE DEF val, move, stop
  <2> QED  BY <2>1 DEF LoopAt, CountAt
<1> HIDE DEF stop, val, move
<1> QED  BY <1>2, <1>3 DEF IsLoop, IsCount

LEMMA InnerSizeType ==
  ASSUME NEW a, ArenaOK(a), NEW sl, sl.head_block \in a.live
  PROVE  InnerSize(a, sl) \in Int
<1> DEFINE f == CHOOSE f : IsCount(f, a, sl.tail_block)
           s == Chain(a)
           n == a.block_count
<1>1. /\ a \in Arenas /\ n \in Nat /\ 1 <= n /\ a.live \subseteq Blocks /\ Chained(a)
  BY BlocksOf
<1>2. IsCount(f, a, sl.tail_block)
  BY <1>1, CountExists
<1>3. InnerSize(a, sl) = f[<<a.block[sl.head_block].next, 0>>]
  BY DEF InnerSize, IsCount, CountAt, CountNext
<1> HIDE DEF f
<1>4. \A cur \in Counts : f[cur] = CountAt(f, a, sl.tail_block, cur)
  BY <1>2 DEF IsCount
<1>5. \A x \in Int : f[<<Null, x>>] \in Int
  <2> TAKE x \in Int
  <2> DEFINE cur == <<Null, x>>
  <2>1. cur \in Counts /\ cur[1] = Null /\ cur[2] = x
    BY DEF Counts
  <2> HIDE DEF cur
  <2>2. f[cur] = x
    BY <1>4, <2>1 DEF CountAt
  <2> QED  BY <2>2 DEF cur
<1> DEFINE T == {k \in 1 .. n : \A x \in Int : f[<<s[k], x>>] \in Int}
<1>6. \A k \in 1 .. n : s[k] \in a.live /\ s[k] \in Blocks
                        /\ a.block[s[k]].next = NextInChain(s, n, k)
  BY <1>1, AlongChain
<1> HIDE DEF s
<1>7. ASSUME NEW k \in 1 .. n, k # n => k + 1 \in T
      PROVE  k \in T
  <2> SUFFICES ASSUME NEW x \in Int
               PROVE  f[<<s[k], x>>] \in Int
    OBVIOUS
  <2> DEFINE cur == <<s[k], x>>
             y == x + Used(a, s[k])
  <2>1. cur \in Counts /\ cur[1] = s[k] /\ cur[2] = x
    BY <1>6 DEF Counts
  <2>2. y \in Int
    <3>1. a.block[s[k]] \in MemBlocks
      BY <1>1, <1>6 DEF Arenas
    <3> QED  BY <3>1 DEF MemBlocks, Used
  <2>3. CountNext(a, cur) = <<NextInChain(s, n, k), y>>
    BY <1>6 DEF CountNext
  <2> HIDE DEF cur, y
  <2>4. f[<<NextInChain(s, n, k), y>>] \in Int
    <3>1. CASE k = n
      BY <1>5, <2>2, <3>1 DEF NextInChain
    <3>2. CASE k # n
      BY <1>7, <2>2, <3>2 DEF NextInChain
    <3> QED  BY <3>1, <3>2
  <2>5. f[cur] \in Int
    BY <1>4, <2>1, <2>3, <2>4 DEF CountAt
  <2> QED  BY <2>5 DEF cur
<1>8. n \in T
  <2>1. n \in 1 .. n
    BY <1>1
  <2> HIDE DEF T
  <2> QED  BY <1>7, <2>1
<1>9. \A k \in 1 .. n : k \in T
  <2>1. \A k \in 1 .. n - 1 : k + 1 \in T => k \in T
    <3> TAKE k \in 1 .. n - 1
    <3>1. k \in 1 .. n
      BY <1>1
    <3> HIDE DEF T
    <3> QED  BY <1>7, <3>1
  <2> HIDE DEF T
  <2> QED  BY <1>1, <1>8, <2>1, DownwardInduction
<1>10. PICK k \in 1 .. n : s[k] = sl.head_block
  <2>1. IsChain(a, s)
    BY <1>1, ChainOfChained DEF s
  <2> QED  BY <2>1 DEF IsChain
<1>11. f[<<NextInChain(s, n, k), 0>>] \in Int
  <2>1. CASE k = n
    BY <1>5, <2>1 DEF NextInChain
  <2>2. CASE k # n
    <3>1. k + 1 \in T
      <4>1. k + 1 \in 1 .. n
        BY <1>1, <2>2
      <4> HIDE DEF T
      <4> QED  BY <1>9, <4>1
    <3> QED  BY <2>2, <3>1 DEF NextInChain
  <2> QED  BY <2>1, <2>2
<1> QED  BY <1>3, <1>6, <1>10, <1>11

LEMMA InitSliceIs ==
  ASSUME NEW a, ArenaOK(a), NEW dest \in Slices, dest.head_block \in a.live
  PROVE  /\ InitSlice(a, dest) \in Slices
         /\ InitSlice(a, dest).head_block = dest.head_block
         /\ InitSlice(a, dest).tail_block = dest.tail_block
         /\ InitSlice(a, dest).head_offset = dest.head_offset
         /\ InitSlice(a, dest).tail_offset = dest.tail_offset
<1> DEFINE inner == InnerSize(a, dest)
           whole == SliceSize(a, dest)
<1>1. inner \in Int
  BY InnerSizeType
<1> HIDE DEF inner
<1>2. /\ a.block[dest.head_block].size \in Int
      /\ dest.head_offset \in Int /\ dest.tail_offset \in Int
  <2>1. a.block_size \in Int /\ a.block[dest.head_block].size = a.block_size
    BY BlocksOf
  <2> QED  BY <2>1 DEF Slices
<1>3. whole \in 0 .. SizeMod - 1
  <2> DEFINE x == IF dest.head_block = dest.tail_block
                  THEN dest.tail_offset - dest.head_offset
                  ELSE a.block[dest.head_block].size - dest.head_offset
                         + inner + dest.tail_offset
  <2>1. x \in Int
    BY <1>1, <1>2
  <2>2. whole = x % SizeMod
    BY DEF SliceSize, inner
  <2> HIDE DEF x
  <2> QED  BY <2>1, <2>2, SizeModAssumption, ModType
<1>4. InitSlice(a, dest) = [dest EXCEPT !.size = whole]
  BY DEF InitSlice
<1> HIDE DEF whole
<1> QED  BY <1>3, <1>4 DEF Slices

(* lf_grow_arena_slice_tail by one byte: within the block or, when that is  *)
(* used up, into the next one.                                              *)
GrowNext(a, cur) ==
  <<a.block[cur[1]].next, (cur[2] - a.block[cur[1]].size) % SizeMod,
    cur[3] + a.block[cur[1]].size>>
GrowEnd(sl, n, cur) ==
  [sl EXCEPT !.tail_block = cur[1], !.tail_offset = cur[2],
             !.size = (cur[3] + n) % SizeMod]
GrowAt(f, a, sl, n, cur) ==
  IF cur[1] = Null THEN Null
  ELSE IF n <= cur[2] THEN GrowEnd(sl, n, cur) ELSE f[GrowNext(a, cur)]
IsGrow(f, a, sl, n) == f = [cur \in Growths |-> GrowAt(f, a, sl, n, cur)]

LEMMA GrowNextType ==
  ASSUME NEW a \in Arenas, NEW cur \in Growths, cur[1] # Null
  PROVE  GrowNext(a, cur) \in Growths
<1>1. cur[1] \in Blocks /\ cur[2] \in Nat /\ cur[3] \in Nat
  BY DEF Growths
<1>2. a.block[cur[1]].next \in Blocks \cup {Null} /\ a.block[cur[1]].size \in Nat
  BY <1>1 DEF Arenas, MemBlocks
<1> DEFINE x == cur[2] - a.block[cur[1]].size
           rest == x % SizeMod
           size == cur[3] + a.block[cur[1]].size
<1>3. x \in Int /\ size \in Nat
  BY <1>1, <1>2
<1>4. rest \in Nat
  <2> HIDE DEF x
  <2>1. rest \in 0 .. SizeMod - 1
    BY <1>3, ModType, SizeModAssumption
  <2> HIDE DEF rest
  <2> QED  BY <2>1, SizeModAssumption
<1>5. GrowNext(a, cur) = <<a.block[cur[1]].next, rest, size>>
  BY DEF GrowNext
<1> HIDE DEF rest, size
<1> QED  BY <1>2, <1>3, <1>4, <1>5 DEF Growths

LEMMA GrowExists ==
  ASSUME NEW a \in Arenas, NEW sl, NEW n
  PROVE  \E f : IsGrow(f, a, sl, n)
<1> DEFINE stop == {cur \in Growths : cur[1] = Null \/ n <= cur[2]}
           val == [cur \in Growths |-> IF cur[1] = Null THEN Null ELSE GrowEnd(sl, n, cur)]
           move == [cur \in Growths |-> GrowNext(a, cur)]
<1>1. ASSUME NEW cur \in Growths \ stop
      PROVE  move[cur] \in Growths
  BY GrowNextType
<1>2. PICK f : IsLoop(f, Growths, stop, val, move)
  <2>1. stop \in SUBSET Growths
    OBVIOUS
  <2> HIDE DEF stop, val, move
  <2> QED  BY <1>1, <2>1, LoopExists
<1>3. ASSUME NEW cur \in Growths
      PROVE  LoopAt(f, stop, val, move, cur) = GrowAt(f, a, sl, n, cur)
  <2>1. /\ val[cur] = IF cur[1] = Null THEN Null ELSE GrowEnd(sl, n, cur)
        /\ move[cur] = GrowNext(a, cur)
        /\ cur \in stop <=> cur[1] = Null \/ n <= cur[2]
    OBVIOUS
  <2> HIDE DEF val, move, stop
  <2> QED  BY <2>1 DEF LoopAt, GrowAt
<1> HIDE DEF stop, val, move
<1> QED  BY <1>2, <1>3 DEF IsLoop, IsGrow

GrowsHere(a, sl) ==
  GrowSliceTail(a, sl, 1)
    = [sl EXCEPT !.tail_offset = @ + 1, !.size = (@ + 1) % SizeMod]
GrowsInto(a, sl) ==
  GrowSliceTail(a, sl, 1)
    = [sl EXCEPT !.tail_block = a.block[sl.tail_block].next, !.tail_offset = 1,
                 !.size = (@ + 1) % SizeMod]

LEMMA GrownByOne ==
  ASSUME NEW a, ArenaOK(a), NEW sl \in Slices, sl.tail_block \in a.live,
         NEW room, room = (a.block_size - sl.tail_offset) % SizeMod
  PROVE  /\ room # 0 => GrowsHere(a, sl)
         /\ room = 0 /\ a.block[sl.tail_block].next # Null => GrowsInto(a, sl)
<1> DEFINE next == a.block[sl.tail_block].next
           f == CHOOSE f : IsGrow(f, a, sl, 1)
<1>1. /\ a \in Arenas /\ a.live \subseteq Blocks /\ a.block_size \in Nat
      /\ a.block[sl.tail_block].size = a.block_size
  BY BlocksOf
<1>2. next \in Blocks \cup {Null}
  BY <1>1 DEF Arenas, MemBlocks
<1>3. sl.tail_offset \in Nat /\ SizeMod \in Nat \ {0} /\ sl.size \in Nat
  BY SizeModAssumption DEF Slices
<1>4. room \in 0 .. SizeMod - 1
  <2> DEFINE x == a.block_size - sl.tail_offset
  <2>1. x \in Int
    BY <1>1, <1>3
  <2> HIDE DEF x
  <2> QED  BY <1>3, <2>1, ModType DEF x
<1>5. IsGrow(f, a, sl, 1)
  BY <1>1, GrowExists
<1>6. GrowSliceTail(a, sl, 1) =
        IF 1 <= room
        THEN [sl EXCEPT !.tail_offset = @ + 1, !.size = (@ + 1) % SizeMod]
        ELSE f[<<next, 1 - room, sl.size>>]
  BY <1>1 DEF GrowSliceTail, IsGrow, GrowAt, GrowEnd, GrowNext
<1> HIDE DEF f, next
<1>7. ASSUME room # 0
      PROVE  GrowsHere(a, sl)
  <2>1. 1 <= room
    BY <1>3, <1>4, <1>7
  <2> QED  BY <1>6, <2>1 DEF GrowsHere
<1>8. ASSUME room = 0, next # Null
      PROVE  GrowsInto(a, sl)
  <2> DEFINE turn == <<next, 1, sl.size>>
  <2>1. ~(1 <= room) /\ 1 - room = 1
    BY <1>8
  <2>2. turn \in Growths /\ turn[1] = next /\ turn[2] = 1 /\ turn[3] = sl.size
    BY <1>2, <1>3, <1>8 DEF Growths
  <2>3. GrowSliceTail(a, sl, 1) = f[turn]
    BY <1>6, <2>1
  <2> HIDE DEF turn
  <2>4. f[turn] = GrowEnd(sl, 1, turn)
    BY <1>5, <1>8, <2>2 DEF IsGrow, GrowAt
  <2> QED  BY <2>2, <2>3, <2>4 DEF GrowEnd, GrowsInto, next
<1> QED  BY <1>7, <1>8 DEF next

-----------------------------------------------------------------------------
LEMMA SliceConstants ==
  /\ BlockSize \in Nat \ {0} /\ BlockSize < SizeMod /\ SizeMod \in Nat \ {0}
  /\ \A n \in Requests : n \in Nat /\ n \in 1 .. BlockSize
BY BlockAssumption, RequestsAssumption, SizeModAssumption

-----------------------------------------------------------------------------
(* What an allocation of n bytes does to the chain and to the offsets: room *)
(* taken in the block at that end, or a block of its own.                   *)
SoundArena(a) == ArenaOK(a) /\ a.block_size = BlockSize

HeadLowered(a, h, n) ==
  LET b == a.head_block
  IN  /\ SameLinks(a, h)
      /\ h.block[b].left_offset = a.block[b].left_offset - n
      /\ h.block[b].right_offset = a.block[b].right_offset
      /\ \A c \in a.live \ {b} : SameOffsets(a, h, c)

HeadAdded(a, h, n) ==
  LET b == h.head_block
  IN  /\ b \in Fresh(a) /\ h.live = a.live \cup {b}
      /\ h.block_count = a.block_count + 1 /\ h.tail_block = a.tail_block
      /\ h.block[b].next = a.head_block
      /\ h.block[b].left_offset = BlockSize - n
      /\ h.block[b].right_offset = BlockSize
      /\ \A c \in a.live : h.block[c].next = a.block[c].next /\ SameOffsets(a, h, c)

TailRaised(a, h, n) ==
  LET b == a.tail_block
  IN  /\ SameLinks(a, h)
      /\ h.block[b].left_offset = a.block[b].left_offset
      /\ h.block[b].right_offset = a.block[b].right_offset + n
      /\ \A c \in a.live \ {b} : SameOffsets(a, h, c)

TailAdded(a, h, n) ==
  LET b == h.tail_block
  IN  /\ b \in Fresh(a) /\ h.live = a.live \cup {b}
      /\ h.block_count = a.block_count + 1 /\ h.head_block = a.head_block
      /\ h.block[a.tail_block].next = b
      /\ h.block[b].left_offset = 0 /\ h.block[b].right_offset = n
      /\ \A c \in a.live \ {a.tail_block} : h.block[c].next = a.block[c].next
      /\ \A c \in a.live : SameOffsets(a, h, c)

LEMMA ArenaEnds ==
  ASSUME NEW a, SoundArena(a)
  PROVE  /\ ArenaOK(a) /\ a \in Arenas /\ Chained(a) /\ InBounds(a)
         /\ a.block_count \in Nat /\ a.block_count >= 1 /\ a.live \subseteq Blocks
         /\ a.block_size = BlockSize
         /\ a.head_block \in a.live /\ a.head_block \in Blocks
         /\ a.tail_block \in a.live /\ a.tail_block \in Blocks
         /\ \A b \in a.live : /\ a.block[b] \in MemBlocks
                              /\ a.block[b].left_offset \in Nat
                              /\ a.block[b].right_offset \in Nat
                              /\ a.block[b].left_offset <= a.block[b].right_offset
                              /\ a.block[b].right_offset <= BlockSize
                              /\ a.block[b].size = BlockSize
<1>1. ArenaOK(a) /\ a.block_size = BlockSize
  BY DEF SoundArena
<1> QED  BY <1>1, BlocksOf

LEMMA HeadAllocated ==
  ASSUME NEW a, SoundArena(a), NEW n \in 1 .. BlockSize, NEW h \in AllocAtHead(a, n)
  PROVE  SoundArena(h) /\ (HeadLowered(a, h, n) \/ HeadAdded(a, h, n))
<1>1. /\ ArenaOK(a) /\ a \in Arenas /\ Chained(a) /\ a.block_count \in Nat
      /\ a.live \subseteq Blocks /\ a.block_size = BlockSize
      /\ a.head_block \in a.live /\ a.head_block \in Blocks
      /\ a.block[a.head_block].left_offset \in Nat
  BY ArenaEnds
<1>2. n \in Nat /\ BlockSize \in Nat /\ n <= BlockSize
  BY SliceConstants
<1>3. CASE ~(HeadRoom(a) < n)
  <2>1. h = HeadTaken(a, n)
    BY <1>3 DEF AllocAtHead, HeadTaken
  <2>2. n <= a.block[a.head_block].left_offset
    BY <1>1, <1>2, <1>3 DEF HeadRoom
  <2>3. /\ ArenaOK(h) /\ h.block_size = a.block_size
        /\ h.live = a.live /\ h.block_count = a.block_count
        /\ h.head_block = a.head_block /\ h.tail_block = a.tail_block
        /\ h.block[a.head_block].left_offset = a.block[a.head_block].left_offset - n
        /\ h.block[a.head_block].right_offset = a.block[a.head_block].right_offset
        /\ \A b \in Blocks \ {a.head_block} : h.block[b] = a.block[b]
        /\ \A b \in a.live : h.block[b].next = a.block[b].next
    BY <1>1, <1>2, <2>1, <2>2, HeadBytesTaken
  <2>4. \A c \in a.live \ {a.head_block} : SameOffsets(a, h, c)
    BY <1>1, <2>3 DEF SameOffsets
  <2>5. HeadLowered(a, h, n)
    BY <2>3, <2>4 DEF HeadLowered, SameLinks
  <2> QED  BY <1>1, <2>3, <2>5 DEF SoundArena
<1>4. CASE HeadRoom(a) < n
  <2>1. PICK b \in Fresh(a) : h = HeadTaken(AllocHeadBlock(a, b), n)
    BY <1>4 DEF AllocAtHead, HeadTaken
  <2> DEFINE g == AllocHeadBlock(a, b)
  <2>2. b \in Blocks /\ b \notin a.live /\ b # a.head_block
    BY <1>1 DEF Fresh
  <2>3. /\ ArenaOK(g) /\ g.live = a.live \cup {b} /\ g.head_block = b
        /\ g.tail_block = a.tail_block /\ g.block_size = a.block_size
        /\ g.block_count = a.block_count + 1
        /\ g.block[b] = [left_offset |-> a.block_size, right_offset |-> a.block_size,
                         size |-> a.block_size, prev |-> Null, next |-> a.head_block]
        /\ g.block[a.head_block] = [a.block[a.head_block] EXCEPT !.prev = b]
        /\ \A c \in Blocks \ {b, a.head_block} : g.block[c] = a.block[c]
    BY <1>1, <2>2, AllocHeadBlockFields, AllocHeadBlockKeeps
  <2>4. /\ n <= g.block[g.head_block].left_offset /\ h = HeadTaken(g, n)
        /\ g.block[b].left_offset = BlockSize /\ g.block[b].right_offset = BlockSize
        /\ g.block[b].next = a.head_block
    BY <1>1, <1>2, <2>1, <2>3
  <2> HIDE DEF g
  <2>5. \A c \in a.live : g.block[c].next = a.block[c].next /\ SameOffsets(a, g, c)
    <3> TAKE c \in a.live
    <3>1. CASE c = a.head_block
      <4>1. a.block[c] \in MemBlocks
        BY <1>1, <3>1 DEF Arenas
      <4> QED  BY <2>3, <3>1, <4>1 DEF SameOffsets, MemBlocks
    <3>2. CASE c # a.head_block
      BY <1>1, <2>2, <2>3, <3>2 DEF SameOffsets
    <3> QED  BY <3>1, <3>2
  <2>6. /\ ArenaOK(h) /\ h.block_size = g.block_size /\ h.tail_block = g.tail_block
        /\ h.live = g.live /\ h.block_count = g.block_count /\ h.head_block = b
        /\ h.block[b].left_offset = BlockSize - n /\ h.block[b].right_offset = BlockSize
        /\ \A c \in Blocks \ {b} : h.block[c] = g.block[c]
        /\ \A c \in g.live : h.block[c].next = g.block[c].next
    BY <1>2, <2>3, <2>4, HeadBytesTaken
  <2>7. \A c \in a.live : h.block[c].next = a.block[c].next /\ SameOffsets(a, h, c)
    <3> TAKE c \in a.live
    <3>1. c \in Blocks \ {b} /\ c \in g.live
      BY <1>1, <2>2, <2>3
    <3> QED  BY <2>5, <2>6, <3>1 DEF SameOffsets
  <2>8. h.block[b].next = a.head_block
    BY <2>3, <2>4, <2>6
  <2>9. HeadAdded(a, h, n)
    BY <2>3, <2>6, <2>7, <2>8 DEF HeadAdded
  <2> QED  BY <1>1, <2>3, <2>6, <2>9 DEF SoundArena
<1> QED  BY <1>3, <1>4

LEMMA TailAllocated ==
  ASSUME NEW a, SoundArena(a), NEW n \in 1 .. BlockSize, NEW h \in AllocAtTail(a, n)
  PROVE  SoundArena(h) /\ (TailRaised(a, h, n) \/ TailAdded(a, h, n))
<1>1. /\ ArenaOK(a) /\ a \in Arenas /\ Chained(a) /\ a.block_count \in Nat
      /\ a.live \subseteq Blocks /\ a.block_size = BlockSize
      /\ a.tail_block \in a.live /\ a.tail_block \in Blocks
      /\ a.block[a.tail_block].right_offset \in Nat
      /\ a.block[a.tail_block].size = BlockSize
  BY ArenaEnds
<1>2. n \in Nat /\ BlockSize \in Nat /\ n <= BlockSize
  BY SliceConstants
<1>3. CASE ~(TailRoom(a) < n)
  <2>1. h = TailTaken(a, n)
    BY <1>3 DEF AllocAtTail, TailTaken
  <2>2. n <= a.block[a.tail_block].size - a.block[a.tail_block].right_offset
    BY <1>1, <1>2, <1>3 DEF TailRoom
  <2>3. /\ ArenaOK(h) /\ h.block_size = a.block_size
        /\ h.live = a.live /\ h.block_count = a.block_count
        /\ h.head_block = a.head_block /\ h.tail_block = a.tail_block
        /\ h.block[a.tail_block].right_offset = a.block[a.tail_block].right_offset + n
        /\ h.block[a.tail_block].left_offset = a.block[a.tail_block].left_offset
        /\ \A b \in Blocks \ {a.tail_block} : h.block[b] = a.block[b]
        /\ \A b \in a.live : h.block[b].next = a.block[b].next
    BY <1>1, <1>2, <2>1, <2>2, TailBytesTaken
  <2>4. \A c \in a.live \ {a.tail_block} : SameOffsets(a, h, c)
    BY <1>1, <2>3 DEF SameOffsets
  <2>5. TailRaised(a, h, n)
    BY <2>3, <2>4 DEF TailRaised, SameLinks
  <2> QED  BY <1>1, <2>3, <2>5 DEF SoundArena
<1>4. CASE TailRoom(a) < n
  <2>1. PICK b \in Fresh(a) : h = TailTaken(AllocTailBlock(a, b), n)
    BY <1>4 DEF AllocAtTail, TailTaken
  <2> DEFINE g == AllocTailBlock(a, b)
  <2>2. b \in Blocks /\ b \notin a.live /\ b # a.tail_block
    BY <1>1 DEF Fresh
  <2>3. /\ ArenaOK(g) /\ g.live = a.live \cup {b} /\ g.tail_block = b
        /\ g.head_block = a.head_block /\ g.block_size = a.block_size
        /\ g.block_count = a.block_count + 1
        /\ g.block[b] = [left_offset |-> 0, right_offset |-> 0,
                         size |-> a.block_size, prev |-> a.tail_block, next |-> Null]
        /\ g.block[a.tail_block] = [a.block[a.tail_block] EXCEPT !.next = b]
        /\ \A c \in Blocks \ {b, a.tail_block} : g.block[c] = a.block[c]
    BY <1>1, <2>2, AllocTailBlockFields, AllocTailBlockKeeps
  <2>4. /\ n <= g.block[g.tail_block].size - g.block[g.tail_block].right_offset
        /\ h = TailTaken(g, n)
        /\ g.block[b].left_offset = 0 /\ g.block[b].right_offset = 0
    BY <1>1, <1>2, <2>1, <2>3
  <2> HIDE DEF g
  <2>5. /\ g.block[a.tail_block].next = b
        /\ \A c \in a.live \ {a.tail_block} : g.block[c].next = a.block[c].next
        /\ \A c \in a.live : SameOffsets(a, g, c)
    <3>1. a.block[a.tail_block] \in MemBlocks
      BY <1>1 DEF Arenas
    <3>2. g.block[a.tail_block].next = b /\ SameOffsets(a, g, a.tail_block)
      BY <2>3, <3>1 DEF SameOffsets, MemBlocks
    <3>3. ASSUME NEW c \in a.live \ {a.tail_block}
          PROVE  g.block[c].next = a.block[c].next /\ SameOffsets(a, g, c)
      BY <1>1, <2>2, <2>3 DEF SameOffsets
    <3> QED  BY <3>2, <3>3
  <2>6. /\ ArenaOK(h) /\ h.block_size = g.block_size /\ h.head_block = g.head_block
        /\ h.live = g.live /\ h.block_count = g.block_count /\ h.tail_block = b
        /\ h.block[b].left_offset = 0 /\ h.block[b].right_offset = 0 + n
        /\ \A c \in Blocks \ {b} : h.block[c] = g.block[c]
    BY <1>2, <2>3, <2>4, TailBytesTaken
  <2>7. /\ h.block[a.tail_block].next = b
        /\ \A c \in a.live \ {a.tail_block} : h.block[c].next = a.block[c].next
        /\ \A c \in a.live : SameOffsets(a, h, c)
    <3>1. \A c \in a.live : h.block[c] = g.block[c]
      BY <1>1, <2>2, <2>6
    <3> QED  BY <1>1, <2>5, <3>1 DEF SameOffsets
  <2>8. h.block[b].right_offset = n
    BY <1>2, <2>6
  <2>9. TailAdded(a, h, n)
    BY <2>3, <2>6, <2>7, <2>8 DEF TailAdded
  <2> QED  BY <1>1, <2>3, <2>6, <2>9 DEF SoundArena
<1> QED  BY <1>3, <1>4

-----------------------------------------------------------------------------
(* The bytes of a slice, block by block from the i-th of the chain, its     *)
(* head block, to the j-th, its tail block.                                 *)
FromOff(a, sl, b) ==
  IF b = sl.head_block THEN sl.head_offset ELSE a.block[b].left_offset
ToOff(a, sl, b) ==
  IF b = sl.tail_block THEN sl.tail_offset ELSE a.block[b].right_offset

Part(b, from, to) == {[block |-> b, off |-> o] : o \in from .. to - 1}
PartOf(a, sl, b) == Part(b, FromOff(a, sl, b), ToOff(a, sl, b))

RangeOver(a, sl, i, j) == UNION {PartOf(a, sl, Chain(a)[k]) : k \in i .. j}

Spans(a, sl, i, j) ==
  /\ i \in 1 .. a.block_count /\ j \in i .. a.block_count
  /\ Chain(a)[i] = sl.head_block /\ Chain(a)[j] = sl.tail_block

(* Its offsets lie in the used bytes of their blocks. *)
Fits(a, sl) ==
  LET head == a.block[sl.head_block]
      tail == a.block[sl.tail_block]
  IN  /\ head.left_offset <= sl.head_offset
      /\ tail.left_offset <= sl.tail_offset /\ sl.tail_offset <= tail.right_offset
      /\ sl.head_block = sl.tail_block => sl.head_offset <= sl.tail_offset

Owns(a, sl, bytes) ==
  \E i, j \in 1 .. a.block_count :
     Spans(a, sl, i, j) /\ Fits(a, sl) /\ bytes = RangeOver(a, sl, i, j)

LEMMA ChainOnce ==
  ASSUME NEW a, SoundArena(a)
  PROVE  /\ \A i \in 1 .. a.block_count : Chain(a)[i] \in a.live
         /\ \A i, j \in 1 .. a.block_count : Chain(a)[i] = Chain(a)[j] => i = j
         /\ Chain(a)[1] = a.head_block /\ Chain(a)[a.block_count] = a.tail_block
         /\ \A i \in 1 .. a.block_count :
              a.block[Chain(a)[i]].next = NextInChain(Chain(a), a.block_count, i)
<1>1. ArenaOK(a)
  BY DEF SoundArena
<1> QED  BY <1>1, AlongChain

LEMMA SpansLive ==
  ASSUME NEW a, SoundArena(a), NEW sl, NEW i, NEW j, Spans(a, sl, i, j)
  PROVE  /\ i \in Nat /\ j \in Nat /\ i <= j /\ 1 <= i /\ j <= a.block_count
         /\ i \in 1 .. a.block_count /\ j \in 1 .. a.block_count
         /\ sl.head_block \in a.live /\ sl.tail_block \in a.live
<1>1. a.block_count \in Nat
  BY ArenaEnds
<1>2. i \in Nat /\ j \in Nat /\ i <= j /\ 1 <= i /\ j <= a.block_count
  BY <1>1 DEF Spans
<1>3. i \in 1 .. a.block_count /\ j \in 1 .. a.block_count
  BY <1>1, <1>2
<1> QED  BY <1>2, <1>3, ChainOnce DEF Spans

(* SlicePtrs lists just these bytes. *)
PartPtrs(b, from, to) == [i \in 1 .. to - from |-> [block |-> b, off |-> from + i - 1]]

LEMMA PartPtrsAre ==
  ASSUME NEW b \in Blocks, NEW from \in Nat, NEW to \in Nat
  PROVE  /\ PartPtrs(b, from, to) \in Seq(ElemPtr)
         /\ Range(PartPtrs(b, from, to)) = Part(b, from, to)
<1> DEFINE s == PartPtrs(b, from, to)
           n == IF from <= to THEN to - from ELSE 0
<1>1. n \in Nat /\ 1 .. n = 1 .. to - from
  OBVIOUS
<1>2. /\ DOMAIN s = 1 .. n
      /\ \A i \in 1 .. n : s[i] = [block |-> b, off |-> from + i - 1]
      /\ \A i \in 1 .. n : from + i - 1 \in from .. to - 1
  BY <1>1 DEF PartPtrs
<1>3. s \in [1 .. n -> ElemPtr]
  <2>1. s = [i \in 1 .. n |-> [block |-> b, off |-> from + i - 1]]
    BY <1>1 DEF PartPtrs
  <2>2. \A i \in 1 .. n : [block |-> b, off |-> from + i - 1] \in ElemPtr
    BY <1>2 DEF ElemPtr
  <2> QED  BY <2>1, <2>2
<1>4. s \in Seq(ElemPtr)
  BY <1>1, <1>3, SeqDef
<1> HIDE DEF s
<1>5. ASSUME NEW x \in Part(b, from, to)
      PROVE  x \in Range(s)
  <2>1. PICK o \in from .. to - 1 : x = [block |-> b, off |-> o]
    BY DEF Part
  <2>2. (o - from) + 1 \in 1 .. n /\ from + ((o - from) + 1) - 1 = o
    BY <1>1, <2>1
  <2>3. s[(o - from) + 1] = x
    BY <1>2, <2>1, <2>2
  <2> QED  BY <1>2, <2>2, <2>3 DEF Range
<1>6. ASSUME NEW x \in Range(s)
      PROVE  x \in Part(b, from, to)
  <2>1. PICK i \in 1 .. n : x = s[i]
    BY <1>2 DEF Range
  <2> QED  BY <1>2, <2>1 DEF Part
<1>7. Range(s) = Part(b, from, to)
  BY <1>5, <1>6
<1> QED  BY <1>4, <1>7 DEF s

PartsListed(a, sl, i, j) ==
  [k \in 1 .. j - i + 1 |->
     PartPtrs(Chain(a)[i + k - 1], FromOff(a, sl, Chain(a)[i + k - 1]),
              ToOff(a, sl, Chain(a)[i + k - 1]))]

LEMMA SliceBytes ==
  ASSUME NEW a, SoundArena(a), NEW sl \in Slices, NEW i, NEW j, Spans(a, sl, i, j)
  PROVE  ToSet(SlicePtrs(a, sl)) = RangeOver(a, sl, i, j)
<1> DEFINE s == Chain(a)
           At(b) == CHOOSE k \in 1 .. a.block_count : s[k] = b
           parts == [k \in 1 .. (j - i) + 1 |->
                       PartPtrs(s[i + k - 1], FromOff(a, sl, s[i + k - 1]),
                                ToOff(a, sl, s[i + k - 1]))]
<1>1. /\ i \in Nat /\ j \in Nat /\ i <= j /\ 1 <= i /\ j <= a.block_count
      /\ i \in 1 .. a.block_count /\ j \in 1 .. a.block_count
      /\ a.block_count \in Nat /\ a.live \subseteq Blocks
  BY SpansLive, ArenaEnds
<1>2. s[i] = sl.head_block /\ s[j] = sl.tail_block
  BY DEF Spans
<1>3. At(sl.head_block) = i /\ At(sl.tail_block) = j
  BY <1>1, <1>2, ChainOnce
<1>4. SlicePtrs(a, sl) = FlattenSeq(parts)
  <2>1. SlicePtrs(a, sl)
          = FlattenSeq(PartsListed(a, sl, At(sl.head_block), At(sl.tail_block)))
    BY DEF SlicePtrs, PartsListed, PartPtrs, FromOff, ToOff
  <2>2. PartsListed(a, sl, i, j) = parts
    BY DEF PartsListed
  <2> HIDE DEF s, At, parts
  <2> QED  BY <1>3, <2>1, <2>2
<1> HIDE DEF s, At
<1>5. \A k \in i .. j : s[k] \in a.live /\ s[k] \in Blocks
  <2>1. \A k \in i .. j : k \in 1 .. a.block_count
    BY <1>1
  <2> QED  BY <1>1, <2>1, ChainOnce DEF s
<1>6. ASSUME NEW k \in i .. j
      PROVE  FromOff(a, sl, s[k]) \in Nat /\ ToOff(a, sl, s[k]) \in Nat
  <2>1. a.block[s[k]].left_offset \in Nat /\ a.block[s[k]].right_offset \in Nat
    BY <1>5, ArenaEnds
  <2>2. sl.head_offset \in Nat /\ sl.tail_offset \in Nat
    BY DEF Slices
  <2> QED  BY <2>1, <2>2 DEF FromOff, ToOff
<1>7. ASSUME NEW k \in i .. j
      PROVE  /\ PartPtrs(s[k], FromOff(a, sl, s[k]), ToOff(a, sl, s[k])) \in Seq(ElemPtr)
             /\ Range(PartPtrs(s[k], FromOff(a, sl, s[k]), ToOff(a, sl, s[k])))
                  = PartOf(a, sl, s[k])
  BY <1>5, <1>6, PartPtrsAre DEF PartOf
<1> DEFINE n == (j - i) + 1
           blk(k) == PartPtrs(s[k], FromOff(a, sl, s[k]), ToOff(a, sl, s[k]))
<1>8. n \in Nat /\ \A k \in 1 .. n : i + k - 1 \in i .. j
  BY <1>1
<1>9. DOMAIN parts = 1 .. n /\ \A k \in 1 .. n : parts[k] = blk(i + k - 1)
  OBVIOUS
<1>10. parts \in Seq(Seq(ElemPtr)) /\ Len(parts) = n
  <2>1. parts = [k \in 1 .. n |-> blk(i + k - 1)]
    OBVIOUS
  <2>2. \A k \in 1 .. n : blk(i + k - 1) \in Seq(ElemPtr)
    BY <1>7, <1>8
  <2> HIDE DEF parts, n, blk
  <2>3. parts \in [1 .. n -> Seq(ElemPtr)]
    BY <2>1, <2>2
  <2> QED  BY <1>8, <2>3, SeqDef, LenProperties
<1>11. \A k \in 1 .. n : Range(parts[k]) = PartOf(a, sl, s[i + k - 1])
  BY <1>7, <1>8, <1>9
<1> HIDE DEF parts, n, blk
<1>12. Range(FlattenSeq(parts)) = UNION {Range(parts[k]) : k \in 1 .. n}
  BY <1>10, FlattenRange
<1>13. UNION {Range(parts[k]) : k \in 1 .. n} = UNION {PartOf(a, sl, s[k]) : k \in i .. j}
  <2>1. ASSUME NEW k \in i .. j
        PROVE  \E m \in 1 .. n : PartOf(a, sl, s[k]) = Range(parts[m])
    <3>1. (k - i) + 1 \in 1 .. n /\ i + ((k - i) + 1) - 1 = k
      BY <1>1 DEF n
    <3> QED  BY <1>11, <3>1
  <2>2. \A m \in 1 .. n : \E k \in i .. j : PartOf(a, sl, s[k]) = Range(parts[m])
    BY <1>8, <1>11
  <2> QED  BY <2>1, <2>2
<1> QED  BY <1>4, <1>12, <1>13 DEF RangeOver, s, ToSet, Range

-----------------------------------------------------------------------------
LEMMA PartSplit ==
  ASSUME NEW b, NEW from \in Int, NEW mid \in Int, NEW to \in Int,
         from <= mid, mid <= to
  PROVE  Part(b, from, to) = Part(b, from, mid) \cup Part(b, mid, to)
<1>1. \A o : o \in from .. to - 1 <=> o \in from .. mid - 1 \/ o \in mid .. to - 1
  OBVIOUS
<1> QED  BY <1>1 DEF Part

LEMMA RangeFirst ==
  ASSUME NEW a, NEW sl, NEW i \in Int, NEW j \in Int, i <= j
  PROVE  RangeOver(a, sl, i, j)
           = PartOf(a, sl, Chain(a)[i]) \cup RangeOver(a, sl, i + 1, j)
<1>1. \A k : k \in i .. j <=> k = i \/ k \in i + 1 .. j
  OBVIOUS
<1> QED  BY <1>1 DEF RangeOver

LEMMA RangeLast ==
  ASSUME NEW a, NEW sl, NEW i \in Int, NEW j \in Int, i <= j
  PROVE  RangeOver(a, sl, i, j)
           = RangeOver(a, sl, i, j - 1) \cup PartOf(a, sl, Chain(a)[j])
<1>1. \A k : k \in i .. j <=> k = j \/ k \in i .. j - 1
  OBVIOUS
<1> QED  BY <1>1 DEF RangeOver

(* The same parts, d places further along the chain. *)
SameParts(a, sl, h, sl2, i, j, d) ==
  \A k \in i .. j : PartOf(h, sl2, Chain(h)[k + d]) = PartOf(a, sl, Chain(a)[k])

LEMMA RangeSame ==
  ASSUME NEW a, NEW sl, NEW h, NEW sl2, NEW i \in Int, NEW j \in Int, NEW d \in Int,
         SameParts(a, sl, h, sl2, i, j, d)
  PROVE  RangeOver(h, sl2, i + d, j + d) = RangeOver(a, sl, i, j)
<1>1. \A k \in i .. j : k + d \in i + d .. j + d
  OBVIOUS
<1>2. \A m \in i + d .. j + d : m - d \in i .. j /\ (m - d) + d = m
  OBVIOUS
<1>3. \A x : x \in RangeOver(a, sl, i, j) => x \in RangeOver(h, sl2, i + d, j + d)
  BY <1>1 DEF RangeOver, SameParts
<1>4. \A x : x \in RangeOver(h, sl2, i + d, j + d) => x \in RangeOver(a, sl, i, j)
  <2> TAKE x
  <2> HAVE x \in RangeOver(h, sl2, i + d, j + d)
  <2>1. PICK m \in i + d .. j + d : x \in PartOf(h, sl2, Chain(h)[m])
    BY DEF RangeOver
  <2>2. x \in PartOf(a, sl, Chain(a)[m - d])
    BY <1>2, <2>1 DEF SameParts
  <2> QED  BY <1>2, <2>2 DEF RangeOver
<1> QED  BY <1>3, <1>4

LEMMA PartOfIs ==
  ASSUME NEW a, NEW sl, NEW h, NEW sl2, NEW b,
         FromOff(h, sl2, b) = FromOff(a, sl, b), ToOff(h, sl2, b) = ToOff(a, sl, b)
  PROVE  PartOf(h, sl2, b) = PartOf(a, sl, b)
BY DEF PartOf

(* The chain after an allocation. *)
LEMMA HeadLoweredChain ==
  ASSUME NEW a, SoundArena(a), NEW h, SoundArena(h), NEW n, HeadLowered(a, h, n)
  PROVE  Chain(h) = Chain(a) /\ h.head_block = a.head_block
         /\ h.tail_block = a.tail_block /\ h.block_count = a.block_count
<1>1. ArenaOK(a) /\ ArenaOK(h) /\ SameLinks(a, h)
  BY DEF SoundArena, HeadLowered
<1> QED  BY <1>1, SameLinksSameChain DEF SameLinks

LEMMA TailRaisedChain ==
  ASSUME NEW a, SoundArena(a), NEW h, SoundArena(h), NEW n, TailRaised(a, h, n)
  PROVE  Chain(h) = Chain(a) /\ h.head_block = a.head_block
         /\ h.tail_block = a.tail_block /\ h.block_count = a.block_count
<1>1. ArenaOK(a) /\ ArenaOK(h) /\ SameLinks(a, h)
  BY DEF SoundArena, TailRaised
<1> QED  BY <1>1, SameLinksSameChain DEF SameLinks

LEMMA HeadAddedChain ==
  ASSUME NEW a, SoundArena(a), NEW h, SoundArena(h), NEW n, HeadAdded(a, h, n)
  PROVE  /\ \A k \in 1 .. a.block_count : Chain(h)[k + 1] = Chain(a)[k]
         /\ Chain(h)[1] = h.head_block /\ h.block_count = a.block_count + 1
         /\ h.tail_block = a.tail_block /\ h.head_block \notin a.live
<1>1. Chained(a) /\ Chained(h) /\ a.block_count \in Nat
  BY ArenaEnds
<1>2. /\ h.head_block \in Fresh(a) /\ h.block_count = a.block_count + 1
      /\ h.block[h.head_block].next = a.head_block /\ h.tail_block = a.tail_block
      /\ \A c \in a.live : h.block[c].next = a.block[c].next
  BY DEF HeadAdded
<1>3. \A k \in 1 .. a.block_count : Chain(h)[k + 1] = Chain(a)[k]
  BY <1>1, <1>2, ChainShift
<1> QED  BY <1>2, <1>3, ChainOnce DEF Fresh

LEMMA TailAddedChain ==
  ASSUME NEW a, SoundArena(a), NEW h, SoundArena(h), NEW n, TailAdded(a, h, n)
  PROVE  /\ \A k \in 1 .. a.block_count : Chain(h)[k] = Chain(a)[k]
         /\ Chain(h)[a.block_count + 1] = h.tail_block
         /\ h.block_count = a.block_count + 1
         /\ h.head_block = a.head_block /\ h.tail_block \notin a.live
<1>1. Chained(a) /\ Chained(h) /\ a.block_count \in Nat /\ h.block_count \in Nat
  BY ArenaEnds
<1>2. /\ h.tail_block \in Fresh(a) /\ h.block_count = a.block_count + 1
      /\ h.head_block = a.head_block
      /\ \A c \in a.live \ {a.tail_block} : h.block[c].next = a.block[c].next
  BY DEF TailAdded
<1>3. a.block_count <= h.block_count
  BY <1>1, <1>2
<1>4. \A k \in 1 .. a.block_count : Chain(h)[k] = Chain(a)[k]
  BY <1>1, <1>2, <1>3, ChainPrefix
<1> QED  BY <1>2, <1>4, ChainOnce DEF Fresh

-----------------------------------------------------------------------------
(* What others allocate does not change a slice's bytes.                    *)
(* Where the slice does not end, its blocks keep their offsets.             *)
OffsetsKept(a, h, sl, i, j) ==
  \A k \in i .. j :
    LET b == Chain(a)[k]
    IN  /\ k # i => h.block[b].left_offset = a.block[b].left_offset
        /\ k # j => h.block[b].right_offset = a.block[b].right_offset

Moved(a, h, i, j, d) == \A k \in i .. j : Chain(h)[k + d] = Chain(a)[k]

LEMMA StillOwns ==
  ASSUME NEW a, SoundArena(a), NEW h, SoundArena(h), NEW sl, NEW i, NEW j,
         Spans(a, sl, i, j), NEW d \in {0, 1}, h.block_count >= a.block_count + d,
         Moved(a, h, i, j, d), OffsetsKept(a, h, sl, i, j), Fits(h, sl)
  PROVE  Owns(h, sl, RangeOver(a, sl, i, j))
<1>1. /\ i \in Nat /\ j \in Nat /\ i <= j /\ 1 <= i /\ j <= a.block_count
      /\ i \in 1 .. a.block_count /\ j \in 1 .. a.block_count
      /\ a.block_count \in Nat /\ h.block_count \in Nat
  BY SpansLive, ArenaEnds
<1>2. /\ i + d \in 1 .. h.block_count /\ j + d \in 1 .. h.block_count
      /\ j + d \in i + d .. h.block_count /\ d \in Int /\ i \in i .. j /\ j \in i .. j
  BY <1>1
<1>3. Spans(h, sl, i + d, j + d)
  BY <1>2 DEF Spans, Moved
<1>4. SameParts(a, sl, h, sl, i, j, d)
  <2> SUFFICES ASSUME NEW k \in i .. j
               PROVE  PartOf(h, sl, Chain(h)[k + d]) = PartOf(a, sl, Chain(a)[k])
    BY DEF SameParts
  <2> DEFINE b == Chain(a)[k]
  <2>1. Chain(h)[k + d] = b /\ k \in 1 .. a.block_count
    BY <1>1 DEF Moved
  <2>2. (b # sl.head_block => k # i) /\ (b # sl.tail_block => k # j)
    BY DEF Spans
  <2>3. /\ b # sl.head_block => h.block[b].left_offset = a.block[b].left_offset
        /\ b # sl.tail_block => h.block[b].right_offset = a.block[b].right_offset
    BY <2>2 DEF OffsetsKept
  <2> HIDE DEF b
  <2>4. PartOf(h, sl, b) = PartOf(a, sl, b)
    BY <2>3 DEF PartOf, FromOff, ToOff
  <2> QED  BY <2>1, <2>4 DEF b
<1>5. RangeOver(h, sl, i + d, j + d) = RangeOver(a, sl, i, j)
  BY <1>1, <1>2, <1>4, RangeSame
<1> QED  BY <1>2, <1>3, <1>5 DEF Owns

LEMMA HeadKeepsOwn ==
  ASSUME NEW a, SoundArena(a), NEW h, SoundArena(h), NEW n \in 1 .. BlockSize,
         HeadLowered(a, h, n) \/ HeadAdded(a, h, n),
         NEW sl \in Slices, NEW bytes, Owns(a, sl, bytes)
  PROVE  Owns(h, sl, bytes)
<1>1. PICK i, j \in 1 .. a.block_count :
        Spans(a, sl, i, j) /\ Fits(a, sl) /\ bytes = RangeOver(a, sl, i, j)
  BY DEF Owns
<1>2. /\ i \in Nat /\ j \in Nat /\ i <= j /\ 1 <= i /\ j <= a.block_count
      /\ sl.head_block \in a.live /\ sl.tail_block \in a.live
      /\ a.block_count \in Nat /\ h.block_count \in Nat /\ n \in Nat
  BY <1>1, SpansLive, ArenaEnds, SliceConstants
<1>3. \A k \in i .. j : /\ k \in 1 .. a.block_count /\ Chain(a)[k] \in a.live
                        /\ k # i => Chain(a)[k] # a.head_block
  <2>1. 1 \in 1 .. a.block_count /\ \A k \in i .. j : k \in 1 .. a.block_count
                                                      /\ (k # i => k # 1)
    BY <1>2
  <2> QED  BY <2>1, ChainOnce
<1>4. sl.head_offset \in Nat /\ sl.tail_offset \in Nat
  BY DEF Slices
<1>5. \A b \in a.live : a.block[b].left_offset \in Nat /\ a.block[b].right_offset \in Nat
  BY ArenaEnds
<1>6. CASE HeadLowered(a, h, n)
  <2>1. \A b \in a.live :
          /\ h.block[b].right_offset = a.block[b].right_offset
          /\ b # a.head_block => h.block[b].left_offset = a.block[b].left_offset
          /\ b = a.head_block => h.block[b].left_offset = a.block[b].left_offset - n
    BY <1>6 DEF HeadLowered, SameOffsets
  <2>2. OffsetsKept(a, h, sl, i, j)
    BY <1>3, <2>1 DEF OffsetsKept
  <2>3. Fits(h, sl)
    BY <1>1, <1>2, <1>4, <1>5, <2>1 DEF Fits
  <2>4. Chain(h) = Chain(a) /\ h.block_count = a.block_count
    BY <1>6, HeadLoweredChain
  <2>5. Moved(a, h, i, j, 0) /\ h.block_count >= a.block_count + 0
    <3>1. \A k \in i .. j : k + 0 = k
      OBVIOUS
    <3> QED  BY <1>2, <2>4, <3>1 DEF Moved
  <2> QED  BY <1>1, <2>2, <2>3, <2>5, StillOwns
<1>7. CASE HeadAdded(a, h, n)
  <2>1. \A b \in a.live :
          /\ h.block[b].right_offset = a.block[b].right_offset
          /\ h.block[b].left_offset = a.block[b].left_offset
    BY <1>7 DEF HeadAdded, SameOffsets
  <2>2. OffsetsKept(a, h, sl, i, j)
    BY <1>3, <2>1 DEF OffsetsKept
  <2>3. Fits(h, sl)
    BY <1>1, <1>2, <2>1 DEF Fits
  <2>4. Moved(a, h, i, j, 1) /\ h.block_count >= a.block_count + 1
    BY <1>2, <1>3, <1>7, HeadAddedChain DEF Moved
  <2> QED  BY <1>1, <2>2, <2>3, <2>4, StillOwns
<1> QED  BY <1>6, <1>7

LEMMA TailKeepsOwn ==
  ASSUME NEW a, SoundArena(a), NEW h, SoundArena(h), NEW n \in 1 .. BlockSize,
         TailRaised(a, h, n) \/ TailAdded(a, h, n),
         NEW sl \in Slices, NEW bytes, Owns(a, sl, bytes)
  PROVE  Owns(h, sl, bytes)
<1>1. PICK i, j \in 1 .. a.block_count :
        Spans(a, sl, i, j) /\ Fits(a, sl) /\ bytes = RangeOver(a, sl, i, j)
  BY DEF Owns
<1>2. /\ i \in Nat /\ j \in Nat /\ i <= j /\ 1 <= i /\ j <= a.block_count
      /\ sl.head_block \in a.live /\ sl.tail_block \in a.live
      /\ a.block_count \in Nat /\ h.block_count \in Nat /\ n \in Nat
  BY <1>1, SpansLive, ArenaEnds, SliceConstants
<1>3. \A k \in i .. j : /\ k \in 1 .. a.block_count /\ Chain(a)[k] \in a.live
                        /\ k # j => Chain(a)[k] # a.tail_block
  <2>1. /\ a.block_count \in 1 .. a.block_count
        /\ \A k \in i .. j : k \in 1 .. a.block_count /\ (k # j => k # a.block_count)
    BY <1>2
  <2> QED  BY <2>1, ChainOnce
<1>4. sl.head_offset \in Nat /\ sl.tail_offset \in Nat
  BY DEF Slices
<1>5. \A b \in a.live : a.block[b].left_offset \in Nat /\ a.block[b].right_offset \in Nat
  BY ArenaEnds
<1>6. \A k \in i .. j : k + 0 = k
  OBVIOUS
<1>7. CASE TailRaised(a, h, n)
  <2>1. \A b \in a.live :
          /\ h.block[b].left_offset = a.block[b].left_offset
          /\ b # a.tail_block => h.block[b].right_offset = a.block[b].right_offset
          /\ b = a.tail_block => h.block[b].right_offset = a.block[b].right_offset + n
    BY <1>7 DEF TailRaised, SameOffsets
  <2>2. OffsetsKept(a, h, sl, i, j)
    BY <1>3, <2>1 DEF OffsetsKept
  <2>3. Fits(h, sl)
    BY <1>1, <1>2, <1>4, <1>5, <2>1 DEF Fits
  <2>4. Chain(h) = Chain(a) /\ h.block_count = a.block_count
    BY <1>7, TailRaisedChain
  <2>5. Moved(a, h, i, j, 0) /\ h.block_count >= a.block_count + 0
    BY <1>2, <1>6, <2>4 DEF Moved
  <2> QED  BY <1>1, <2>2, <2>3, <2>5, StillOwns
<1>8. CASE TailAdded(a, h, n)
  <2>1. \A b \in a.live :
          /\ h.block[b].right_offset = a.block[b].right_offset
          /\ h.block[b].left_offset = a.block[b].left_offset
    BY <1>8 DEF TailAdded, SameOffsets
  <2>2. OffsetsKept(a, h, sl, i, j)
    BY <1>3, <2>1 DEF OffsetsKept
  <2>3. Fits(h, sl)
    BY <1>1, <1>2, <2>1 DEF Fits
  <2>4. /\ \A k \in 1 .. a.block_count : Chain(h)[k] = Chain(a)[k]
        /\ h.block_count = a.block_count + 1
    BY <1>8, TailAddedChain
  <2>5. Moved(a, h, i, j, 0) /\ h.block_count >= a.block_count + 0
    BY <1>2, <1>3, <1>6, <2>4 DEF Moved
  <2> QED  BY <1>1, <2>2, <2>3, <2>5, StillOwns
<1> QED  BY <1>7, <1>8

-----------------------------------------------------------------------------
(* A slice that allocates at an end of the arena gets just those bytes.     *)
LEMMA BytesAre ==
  ASSUME NEW ptr, ptr.off \in Int, NEW n \in Int
  PROVE  Bytes(ptr, n) = Part(ptr.block, ptr.off, ptr.off + n)
<1>1. ptr.off + n - 1 = (ptr.off + n) - 1
  OBVIOUS
<1> QED  BY <1>1 DEF Bytes, Part

HeadFollows(t, h, sl) ==
  /\ t \in Slices
  /\ t.head_block = h.head_block
  /\ t.head_offset = h.block[h.head_block].left_offset
  /\ t.tail_block = sl.tail_block /\ t.tail_offset = sl.tail_offset

LEMMA MovedHeadIs ==
  ASSUME NEW h, SoundArena(h), NEW sl \in Slices, NEW n \in Nat
  PROVE  HeadFollows(MovedHead(h, sl, n), h, sl)
<1> DEFINE t == MovedHead(h, sl, n)
<1>1. h.head_block \in Blocks /\ h.block[h.head_block].left_offset \in Nat
  BY ArenaEnds
<1>2. (sl.size + n) % SizeMod \in 0 .. SizeMod - 1
  <2>1. sl.size + n \in Int
    BY DEF Slices
  <2> QED  BY <2>1, SizeModAssumption, ModType
<1> DEFINE off == h.block[h.head_block].left_offset
           size == (sl.size + n) % SizeMod
<1>3. t = [sl EXCEPT !.head_block = h.head_block, !.head_offset = off, !.size = size]
  BY DEF MovedHead
<1> HIDE DEF off, size, t
<1>4. off \in Nat /\ size \in 0 .. SizeMod - 1
  BY <1>1, <1>2 DEF off, size
<1>5. /\ t \in Slices /\ t.head_block = h.head_block /\ t.head_offset = off
      /\ t.tail_block = sl.tail_block /\ t.tail_offset = sl.tail_offset
  BY <1>1, <1>3, <1>4 DEF Slices
<1> QED  BY <1>5 DEF off, t, HeadFollows

TailFollows(t, h, sl) ==
  /\ t \in Slices
  /\ t.tail_block = h.tail_block
  /\ t.tail_offset = h.block[h.tail_block].right_offset
  /\ t.head_block = sl.head_block /\ t.head_offset = sl.head_offset

LEMMA MovedTailIs ==
  ASSUME NEW h, SoundArena(h), NEW sl \in Slices, NEW n \in Nat
  PROVE  TailFollows(MovedTail(h, sl, n), h, sl)
<1> DEFINE t == MovedTail(h, sl, n)
<1>1. h.tail_block \in Blocks /\ h.block[h.tail_block].right_offset \in Nat
  BY ArenaEnds
<1>2. (sl.size + n) % SizeMod \in 0 .. SizeMod - 1
  <2>1. sl.size + n \in Int
    BY DEF Slices
  <2> QED  BY <2>1, SizeModAssumption, ModType
<1> DEFINE off == h.block[h.tail_block].right_offset
           size == (sl.size + n) % SizeMod
<1>3. t = [sl EXCEPT !.tail_block = h.tail_block, !.tail_offset = off, !.size = size]
  BY DEF MovedTail
<1> HIDE DEF off, size, t
<1>4. off \in Nat /\ size \in 0 .. SizeMod - 1
  BY <1>1, <1>2 DEF off, size
<1>5. /\ t \in Slices /\ t.tail_block = h.tail_block /\ t.tail_offset = off
      /\ t.head_block = sl.head_block /\ t.head_offset = sl.head_offset
  BY <1>1, <1>3, <1>4 DEF Slices
<1> QED  BY <1>5 DEF off, t, TailFollows

LEMMA HeadGrowsOwn ==
  ASSUME NEW a, SoundArena(a), NEW h, SoundArena(h), NEW n \in 1 .. BlockSize,
         HeadLowered(a, h, n) \/ HeadAdded(a, h, n),
         NEW sl \in Slices, NEW bytes, Owns(a, sl, bytes), ~LostHead(a, sl),
         NEW t, t = MovedHead(h, sl, n)
  PROVE  Owns(h, t, bytes \cup Bytes(HeadPtr(h), n))
<1>1. PICK i, j \in 1 .. a.block_count :
        Spans(a, sl, i, j) /\ Fits(a, sl) /\ bytes = RangeOver(a, sl, i, j)
  BY DEF Owns
<1>2. /\ j \in Nat /\ i <= j /\ j <= a.block_count
      /\ sl.head_block \in a.live /\ sl.tail_block \in a.live
      /\ a.block_count \in Nat /\ h.block_count \in Nat /\ n \in Nat
      /\ 1 \in 1 .. a.block_count
  BY <1>1, SpansLive, ArenaEnds, SliceConstants
<1> DEFINE hb == a.head_block
           left == a.block[hb].left_offset
<1>3. sl.head_offset \in Nat /\ sl.tail_offset \in Nat /\ hb \in a.live
  BY ArenaEnds DEF Slices
<1>4. \A b \in a.live : /\ a.block[b].left_offset \in Nat
                        /\ a.block[b].right_offset \in Nat
                        /\ a.block[b].left_offset <= a.block[b].right_offset
  BY ArenaEnds
<1>5. sl.head_block = hb /\ sl.head_offset = left
  BY <1>1, <1>2, <1>3, <1>4 DEF LostHead, Fits
<1>6. i = 1
  BY <1>1, <1>2, <1>5, ChainOnce DEF Spans
<1>7. /\ t.head_block = h.head_block /\ t.head_offset = h.block[h.head_block].left_offset
      /\ t.tail_block = sl.tail_block /\ t.tail_offset = sl.tail_offset
  BY <1>2, MovedHeadIs, ZenonT(60) DEF HeadFollows
<1>8. \A k \in 1 .. j : k \in 1 .. a.block_count /\ Chain(a)[k] \in a.live
                        /\ (k # 1 => Chain(a)[k] # hb)
  <2>1. \A k \in 1 .. j : k \in 1 .. a.block_count
    BY <1>2
  <2> QED  BY <1>2, <2>1, ChainOnce
<1>9. Bytes(HeadPtr(h), n)
        = Part(h.head_block, t.head_offset, t.head_offset + n)
  <2> DEFINE ptr == HeadPtr(h)
  <2>1. h.block[h.head_block].left_offset \in Int /\ n \in Int
    BY <1>2, ArenaEnds
  <2>2. ptr.block = h.head_block /\ ptr.off = t.head_offset /\ ptr.off \in Int
    BY <1>7, <2>1 DEF HeadPtr
  <2> HIDE DEF ptr
  <2>3. Bytes(ptr, n) = Part(ptr.block, ptr.off, ptr.off + n)
    BY <2>1, <2>2, BytesAre
  <2> QED  BY <2>2, <2>3 DEF ptr
<1>10. /\ Chain(a)[1] = hb /\ Chain(a)[j] = sl.tail_block
       /\ bytes = RangeOver(a, sl, 1, j)
       /\ a.block[sl.tail_block].left_offset <= sl.tail_offset
       /\ sl.tail_offset <= a.block[sl.tail_block].right_offset
       /\ hb = sl.tail_block => left <= sl.tail_offset
  BY <1>1, <1>5, <1>6 DEF Spans, Fits
<1>11. left \in Nat
  BY <1>3, <1>4
<1> HIDE DEF hb, left
<1>12. CASE HeadLowered(a, h, n)
  <2>1. /\ \A b \in a.live :
             /\ h.block[b].right_offset = a.block[b].right_offset
             /\ b # hb => h.block[b].left_offset = a.block[b].left_offset
        /\ h.block[hb].left_offset = left - n
    BY <1>12 DEF HeadLowered, SameOffsets, hb, left
  <2>2. Chain(h) = Chain(a) /\ h.block_count = a.block_count /\ h.head_block = hb
    BY <1>12, HeadLoweredChain DEF hb
  <2>3. t.head_block = hb /\ t.head_offset = left - n
    BY <1>7, <2>1, <2>2
  <2>4. Spans(h, t, 1, j) /\ 1 \in 1 .. h.block_count /\ j \in 1 .. h.block_count
    BY <1>1, <1>2, <1>6, <1>7, <1>10, <2>2, <2>3 DEF Spans
  <2>5. Fits(h, t)
    <3>1. h.block[t.head_block].left_offset <= t.head_offset
      BY <1>2, <1>11, <2>1, <2>3
    <3>2. /\ h.block[t.tail_block].left_offset <= t.tail_offset
          /\ t.tail_offset <= h.block[t.tail_block].right_offset
      <4>1. CASE sl.tail_block = hb
        BY <1>2, <1>3, <1>7, <1>10, <1>11, <2>1, <4>1
      <4>2. CASE sl.tail_block # hb
        BY <1>2, <1>7, <1>10, <2>1, <4>2
      <4> QED  BY <4>1, <4>2
    <3>3. t.head_block = t.tail_block => t.head_offset <= t.tail_offset
      BY <1>2, <1>3, <1>7, <1>10, <1>11, <2>3
    <3> QED  BY <3>1, <3>2, <3>3 DEF Fits
  <2>6. PartOf(h, t, hb) = Bytes(HeadPtr(h), n) \cup PartOf(a, sl, hb)
    <3> DEFINE to == ToOff(a, sl, hb)
    <3>1. ToOff(h, t, hb) = to /\ FromOff(h, t, hb) = left - n
          /\ FromOff(a, sl, hb) = left
      BY <1>3, <1>5, <1>7, <2>1, <2>3 DEF ToOff, FromOff
    <3>2. to \in Nat /\ left <= to
      BY <1>3, <1>4, <1>10 DEF ToOff, left
    <3> HIDE DEF to
    <3>3. left - n \in Int /\ left \in Int /\ to \in Int /\ left - n <= left
          /\ (left - n) + n = left
      BY <1>2, <1>11, <3>2
    <3>4. Bytes(HeadPtr(h), n) = Part(hb, left - n, left)
      BY <1>9, <2>2, <2>3, <3>3
    <3>5. Part(hb, left - n, to) = Part(hb, left - n, left) \cup Part(hb, left, to)
      BY <3>2, <3>3, PartSplit
    <3>6. PartOf(h, t, hb) = Part(hb, left - n, to) /\ PartOf(a, sl, hb) = Part(hb, left, to)
      BY <3>1 DEF PartOf, to
    <3> QED  BY <3>4, <3>5, <3>6
  <2>7. SameParts(a, sl, h, t, 2, j, 0)
    <3> SUFFICES ASSUME NEW k \in 2 .. j
                 PROVE  PartOf(h, t, Chain(h)[k + 0]) = PartOf(a, sl, Chain(a)[k])
      BY DEF SameParts
    <3> DEFINE b == Chain(a)[k]
    <3>1. Chain(h)[k + 0] = b /\ b \in a.live /\ b # hb
      BY <1>2, <1>8, <2>2
    <3> HIDE DEF b
    <3>2. PartOf(h, t, b) = PartOf(a, sl, b)
      BY <1>5, <1>7, <2>1, <2>3, <3>1 DEF PartOf, FromOff, ToOff
    <3> QED  BY <3>1, <3>2 DEF b
  <2>8. RangeOver(h, t, 2, j) = RangeOver(a, sl, 2, j)
    <3>1. 2 + 0 = 2 /\ j + 0 = j /\ j \in Int
      BY <1>2
    <3> QED  BY <2>7, <3>1, RangeSame
  <2>9. /\ RangeOver(h, t, 1, j) = PartOf(h, t, hb) \cup RangeOver(h, t, 2, j)
        /\ RangeOver(a, sl, 1, j) = PartOf(a, sl, hb) \cup RangeOver(a, sl, 2, j)
    <3>1. 1 + 1 = 2 /\ 1 <= j /\ j \in Int /\ Chain(h)[1] = hb
      BY <1>1, <1>2, <1>6, <1>10, <2>2
    <3> QED  BY <1>10, <3>1, RangeFirst
  <2>10. RangeOver(h, t, 1, j) = bytes \cup Bytes(HeadPtr(h), n)
    BY <1>10, <2>6, <2>8, <2>9
  <2> QED  BY <2>4, <2>5, <2>10 DEF Owns
<1>13. CASE HeadAdded(a, h, n)
  <2> DEFINE nb == h.head_block
  <2>1. /\ \A b \in a.live :
             /\ h.block[b].right_offset = a.block[b].right_offset
             /\ h.block[b].left_offset = a.block[b].left_offset
        /\ h.block[nb].left_offset = BlockSize - n /\ h.block[nb].right_offset = BlockSize
    BY <1>13 DEF HeadAdded, SameOffsets
  <2>2. /\ \A k \in 1 .. a.block_count : Chain(h)[k + 1] = Chain(a)[k]
        /\ Chain(h)[1] = nb /\ h.block_count = a.block_count + 1
        /\ nb \notin a.live
    BY <1>13, HeadAddedChain
  <2>3. t.head_block = nb /\ t.head_offset = BlockSize - n
        /\ t.head_offset = h.block[nb].left_offset
    BY <1>7, <2>1
  <2> HIDE DEF nb
  <2>4. /\ Spans(h, t, 1, j + 1)
        /\ 1 \in 1 .. h.block_count /\ j + 1 \in 1 .. h.block_count
    <3>1. /\ 1 \in 1 .. h.block_count /\ j + 1 \in 1 .. h.block_count
          /\ j + 1 \in 1 .. h.block_count /\ j \in 1 .. a.block_count
      BY <1>1, <1>2, <1>6, <2>2
    <3>2. Chain(h)[j + 1] = sl.tail_block
      BY <1>10, <2>2, <3>1
    <3> QED  BY <1>7, <2>2, <2>3, <3>1, <3>2 DEF Spans
  <2>5. Fits(h, t)
    <3>1. t.head_offset \in Nat /\ t.head_block # t.tail_block
      BY <1>2, <1>7, <2>2, <2>3, SliceConstants
    <3> QED  BY <1>2, <1>7, <1>10, <2>1, <2>3, <3>1 DEF Fits
  <2>6. PartOf(h, t, nb) = Bytes(HeadPtr(h), n)
    <3>1. FromOff(h, t, nb) = BlockSize - n /\ ToOff(h, t, nb) = BlockSize
      BY <1>2, <1>7, <2>1, <2>2, <2>3 DEF FromOff, ToOff
    <3>2. (BlockSize - n) + n = BlockSize
      BY <1>2, SliceConstants
    <3> QED  BY <1>9, <2>3, <3>1, <3>2 DEF PartOf, nb
  <2>7. SameParts(a, sl, h, t, 1, j, 1)
    <3> SUFFICES ASSUME NEW k \in 1 .. j
                 PROVE  PartOf(h, t, Chain(h)[k + 1]) = PartOf(a, sl, Chain(a)[k])
      BY DEF SameParts
    <3> DEFINE b == Chain(a)[k]
    <3>1. Chain(h)[k + 1] = b /\ b \in a.live /\ b # nb
      BY <1>8, <2>2
    <3> HIDE DEF b
    <3>2. FromOff(h, t, b) = FromOff(a, sl, b) /\ ToOff(h, t, b) = ToOff(a, sl, b)
      BY <1>5, <1>7, <2>1, <2>3, <3>1 DEF FromOff, ToOff, left
    <3> QED  BY <3>1, <3>2, PartOfIs DEF b
  <2>8. RangeOver(h, t, 2, j + 1) = RangeOver(a, sl, 1, j)
    <3>1. 1 + 1 = 2 /\ j \in Int
      BY <1>2
    <3> QED  BY <2>7, <3>1, RangeSame
  <2>9. RangeOver(h, t, 1, j + 1) = PartOf(h, t, nb) \cup RangeOver(h, t, 2, j + 1)
    <3>1. 1 + 1 = 2 /\ 1 <= j + 1 /\ j + 1 \in Int
      BY <1>2
    <3> QED  BY <2>2, <3>1, RangeFirst
  <2>10. RangeOver(h, t, 1, j + 1) = bytes \cup Bytes(HeadPtr(h), n)
    BY <1>10, <2>6, <2>8, <2>9
  <2> QED  BY <2>4, <2>5, <2>10 DEF Owns
<1> QED  BY <1>12, <1>13

LEMMA TailGrowsOwn ==
  ASSUME NEW a, SoundArena(a), NEW h, SoundArena(h), NEW n \in 1 .. BlockSize,
         TailRaised(a, h, n) \/ TailAdded(a, h, n),
         NEW sl \in Slices, NEW bytes, Owns(a, sl, bytes), ~LostTail(a, sl),
         NEW t, t = MovedTail(h, sl, n)
  PROVE  Owns(h, t, bytes \cup Bytes(TailPtr(h, n), n))
<1>1. PICK i, j \in 1 .. a.block_count :
        Spans(a, sl, i, j) /\ Fits(a, sl) /\ bytes = RangeOver(a, sl, i, j)
  BY DEF Owns
<1>2. /\ i \in Nat /\ j \in Nat /\ 1 <= i /\ i <= j /\ j <= a.block_count
      /\ sl.head_block \in a.live /\ sl.tail_block \in a.live
      /\ a.block_count \in Nat /\ h.block_count \in Nat /\ n \in Nat
      /\ a.block_count \in 1 .. a.block_count
  BY <1>1, SpansLive, ArenaEnds, SliceConstants
<1> DEFINE tb == a.tail_block
           right == a.block[tb].right_offset
           newBytes == Bytes(TailPtr(h, n), n)
<1>3. sl.head_offset \in Nat /\ sl.tail_offset \in Nat /\ tb \in a.live
  BY ArenaEnds DEF Slices
<1>4. \A b \in a.live : /\ a.block[b].left_offset \in Nat
                        /\ a.block[b].right_offset \in Nat
                        /\ a.block[b].left_offset <= a.block[b].right_offset
  BY ArenaEnds
<1>5. sl.tail_block = tb /\ sl.tail_offset = right
  BY <1>1, <1>2, <1>3, <1>4 DEF LostTail, Fits
<1>6. j = a.block_count
  BY <1>1, <1>2, <1>5, ChainOnce DEF Spans
<1>7. /\ t.tail_block = h.tail_block /\ t.tail_offset = h.block[h.tail_block].right_offset
      /\ t.head_block = sl.head_block /\ t.head_offset = sl.head_offset
  BY <1>2, MovedTailIs, ZenonT(60) DEF TailFollows
<1>8. \A k \in i .. j : k \in 1 .. a.block_count /\ Chain(a)[k] \in a.live
                        /\ (k # j => Chain(a)[k] # tb)
  <2>1. \A k \in i .. j : k \in 1 .. a.block_count
    BY <1>2
  <2> QED  BY <1>2, <1>6, <2>1, ChainOnce
<1>9. newBytes = Part(h.tail_block, t.tail_offset - n, t.tail_offset)
  <2> DEFINE ptr == TailPtr(h, n)
  <2>1. h.block[h.tail_block].right_offset \in Int /\ n \in Int
    BY <1>2, ArenaEnds
  <2>2. /\ ptr.block = h.tail_block /\ ptr.off = t.tail_offset - n
        /\ ptr.off \in Int /\ ptr.off + n = t.tail_offset
    BY <1>7, <2>1 DEF TailPtr
  <2> HIDE DEF ptr
  <2>3. Bytes(ptr, n) = Part(ptr.block, ptr.off, ptr.off + n)
    BY <2>1, <2>2, BytesAre
  <2> QED  BY <2>2, <2>3 DEF ptr
<1>10. /\ Chain(a)[i] = sl.head_block /\ Chain(a)[j] = tb
       /\ a.block[sl.head_block].left_offset <= sl.head_offset
       /\ a.block[tb].left_offset <= right
       /\ sl.head_block = tb => sl.head_offset <= right
  BY <1>1, <1>5 DEF Spans, Fits
<1>11. right \in Nat
  BY <1>3, <1>4
<1> HIDE DEF tb, right, newBytes
<1>12. CASE TailRaised(a, h, n)
  <2>1. /\ \A b \in a.live :
             /\ h.block[b].left_offset = a.block[b].left_offset
             /\ b # tb => h.block[b].right_offset = a.block[b].right_offset
        /\ h.block[tb].right_offset = right + n
    BY <1>12 DEF TailRaised, SameOffsets, tb, right
  <2>2. Chain(h) = Chain(a) /\ h.block_count = a.block_count /\ h.tail_block = tb
    BY <1>12, TailRaisedChain DEF tb
  <2>3. t.tail_block = tb /\ t.tail_offset = right + n
    BY <1>7, <2>1, <2>2
  <2>4. Spans(h, t, i, j) /\ i \in 1 .. h.block_count /\ j \in 1 .. h.block_count
    BY <1>1, <1>2, <1>7, <1>10, <2>2, <2>3 DEF Spans
  <2>5. Fits(h, t)
    <3>1. h.block[t.head_block].left_offset <= t.head_offset
      BY <1>2, <1>7, <1>10, <2>1
    <3>2. /\ h.block[t.tail_block].left_offset <= t.tail_offset
          /\ t.tail_offset <= h.block[t.tail_block].right_offset
      BY <1>2, <1>3, <1>4, <1>10, <1>11, <2>1, <2>3
    <3>3. t.head_block = t.tail_block => t.head_offset <= t.tail_offset
      BY <1>2, <1>3, <1>7, <1>10, <1>11, <2>3
    <3> QED  BY <3>1, <3>2, <3>3 DEF Fits
  <2>6. PartOf(h, t, tb) = PartOf(a, sl, tb) \cup newBytes
    <3> DEFINE from == FromOff(a, sl, tb)
    <3>1. FromOff(h, t, tb) = from /\ ToOff(h, t, tb) = right + n
          /\ ToOff(a, sl, tb) = right
      BY <1>3, <1>5, <1>7, <2>1, <2>3 DEF ToOff, FromOff
    <3>2. from \in Nat /\ from <= right
      BY <1>3, <1>4, <1>10 DEF FromOff
    <3> HIDE DEF from
    <3>3. right + n \in Int /\ right \in Int /\ from \in Int /\ right <= right + n
          /\ (right + n) - n = right
      BY <1>2, <1>11, <3>2
    <3>4. newBytes = Part(tb, right, right + n)
      BY <1>9, <2>2, <2>3, <3>3
    <3>5. Part(tb, from, right + n) = Part(tb, from, right) \cup Part(tb, right, right + n)
      BY <3>2, <3>3, PartSplit
    <3>6. PartOf(h, t, tb) = Part(tb, from, right + n)
          /\ PartOf(a, sl, tb) = Part(tb, from, right)
      BY <3>1 DEF PartOf, from
    <3> QED  BY <3>4, <3>5, <3>6
  <2>7. SameParts(a, sl, h, t, i, j - 1, 0)
    <3> SUFFICES ASSUME NEW k \in i .. j - 1
                 PROVE  PartOf(h, t, Chain(h)[k + 0]) = PartOf(a, sl, Chain(a)[k])
      BY DEF SameParts
    <3> DEFINE b == Chain(a)[k]
    <3>1. Chain(h)[k + 0] = b /\ b \in a.live /\ b # tb
      <4>1. k \in i .. j /\ k # j /\ k + 0 = k
        BY <1>2
      <4> QED  BY <1>8, <2>2, <4>1
    <3> HIDE DEF b
    <3>2. PartOf(h, t, b) = PartOf(a, sl, b)
      BY <1>5, <1>7, <2>1, <2>3, <3>1 DEF PartOf, FromOff, ToOff
    <3> QED  BY <3>1, <3>2 DEF b
  <2>8. RangeOver(h, t, i, j - 1) = RangeOver(a, sl, i, j - 1)
    <3>1. i + 0 = i /\ (j - 1) + 0 = j - 1 /\ j - 1 \in Int /\ i \in Int
      BY <1>2
    <3> QED  BY <2>7, <3>1, RangeSame
  <2>9. /\ RangeOver(h, t, i, j) = RangeOver(h, t, i, j - 1) \cup PartOf(h, t, tb)
        /\ RangeOver(a, sl, i, j) = RangeOver(a, sl, i, j - 1) \cup PartOf(a, sl, tb)
    <3>1. i <= j /\ i \in Int /\ j \in Int /\ Chain(h)[j] = tb
      BY <1>2, <1>10, <2>2
    <3> QED  BY <1>10, <3>1, RangeLast
  <2>10. RangeOver(h, t, i, j) = bytes \cup newBytes
    BY <1>1, <2>6, <2>8, <2>9
  <2> QED  BY <2>4, <2>5, <2>10 DEF Owns, newBytes
<1>13. CASE TailAdded(a, h, n)
  <2> DEFINE nb == h.tail_block
  <2>1. /\ \A b \in a.live :
             /\ h.block[b].right_offset = a.block[b].right_offset
             /\ h.block[b].left_offset = a.block[b].left_offset
        /\ h.block[nb].left_offset = 0 /\ h.block[nb].right_offset = n
    BY <1>13 DEF TailAdded, SameOffsets
  <2>2. /\ \A k \in 1 .. a.block_count : Chain(h)[k] = Chain(a)[k]
        /\ Chain(h)[j + 1] = nb /\ h.block_count = a.block_count + 1
        /\ nb \notin a.live
    BY <1>6, <1>13, TailAddedChain
  <2>3. t.tail_block = nb /\ t.tail_offset = n
        /\ t.tail_offset = h.block[nb].right_offset
    BY <1>7, <2>1
  <2> HIDE DEF nb
  <2>4. /\ Spans(h, t, i, j + 1)
        /\ i \in 1 .. h.block_count /\ j + 1 \in 1 .. h.block_count
    <3>1. /\ i \in 1 .. h.block_count /\ j + 1 \in 1 .. h.block_count
          /\ j + 1 \in i .. h.block_count /\ i \in 1 .. a.block_count
      BY <1>1, <1>2, <1>6, <2>2
    <3>2. Chain(h)[i] = sl.head_block
      BY <1>10, <2>2, <3>1
    <3> QED  BY <1>7, <2>2, <2>3, <3>1, <3>2 DEF Spans
  <2>5. Fits(h, t)
    <3>1. t.head_block # t.tail_block /\ 0 <= n /\ n <= n
      BY <1>2, <1>7, <2>2, <2>3
    <3> QED  BY <1>2, <1>7, <1>10, <2>1, <2>3, <3>1 DEF Fits
  <2>6. PartOf(h, t, nb) = newBytes
    <3>1. FromOff(h, t, nb) = 0 /\ ToOff(h, t, nb) = n
      BY <1>2, <1>7, <2>1, <2>2, <2>3 DEF FromOff, ToOff
    <3>2. n - n = 0
      BY <1>2
    <3> QED  BY <1>9, <2>3, <3>1, <3>2 DEF PartOf, nb
  <2>7. SameParts(a, sl, h, t, i, j, 0)
    <3> SUFFICES ASSUME NEW k \in i .. j
                 PROVE  PartOf(h, t, Chain(h)[k + 0]) = PartOf(a, sl, Chain(a)[k])
      BY DEF SameParts
    <3> DEFINE b == Chain(a)[k]
    <3>1. Chain(h)[k + 0] = b /\ b \in a.live /\ b # nb
      <4>1. k + 0 = k
        BY <1>2
      <4> QED  BY <1>8, <2>2, <4>1
    <3> HIDE DEF b
    <3>2. FromOff(h, t, b) = FromOff(a, sl, b) /\ ToOff(h, t, b) = ToOff(a, sl, b)
      BY <1>5, <1>7, <2>1, <2>3, <3>1 DEF FromOff, ToOff, right
    <3> QED  BY <3>1, <3>2, PartOfIs DEF b
  <2>8. RangeOver(h, t, i, j) = RangeOver(a, sl, i, j)
    <3>1. i + 0 = i /\ j + 0 = j /\ i \in Int /\ j \in Int
      BY <1>2
    <3> QED  BY <2>7, <3>1, RangeSame
  <2>9. RangeOver(h, t, i, j + 1) = RangeOver(h, t, i, j) \cup PartOf(h, t, nb)
    <3>1. (j + 1) - 1 = j /\ i <= j + 1 /\ j + 1 \in Int /\ i \in Int
      BY <1>2
    <3> QED  BY <2>2, <3>1, RangeLast
  <2>10. RangeOver(h, t, i, j + 1) = bytes \cup newBytes
    BY <1>1, <2>6, <2>8, <2>9
  <2> QED  BY <2>4, <2>5, <2>10 DEF Owns, newBytes
<1> QED  BY <1>12, <1>13

-----------------------------------------------------------------------------
(* A slice in the arena's blocks grows by one byte.                         *)
LEMMA SliceGrownByOne ==
  ASSUME NEW a, SoundArena(a), NEW sl \in Slices, sl.tail_block \in a.live,
         sl.tail_offset <= BlockSize
  PROVE  /\ sl.tail_offset # BlockSize => GrowsHere(a, sl)
         /\ sl.tail_offset = BlockSize /\ a.block[sl.tail_block].next # Null =>
              GrowsInto(a, sl)
<1> DEFINE room == (a.block_size - sl.tail_offset) % SizeMod
<1>1. ArenaOK(a) /\ a.block_size = BlockSize
  BY ArenaEnds
<1>2. sl.tail_offset \in Nat /\ BlockSize - sl.tail_offset \in 0 .. SizeMod - 1
      /\ SizeMod \in Nat \ {0} /\ BlockSize \in Nat
  BY SliceConstants DEF Slices
<1>3. room = BlockSize - sl.tail_offset
  <2> DEFINE x == BlockSize - sl.tail_offset
  <2> HIDE DEF x
  <2>1. x % SizeMod = x
    BY <1>2, ModIs DEF x
  <2> QED  BY <1>1, <2>1 DEF x
<1>4. /\ room # 0 => GrowsHere(a, sl)
      /\ room = 0 /\ a.block[sl.tail_block].next # Null => GrowsInto(a, sl)
  BY <1>1, GrownByOne
<1> HIDE DEF room
<1> QED  BY <1>2, <1>3, <1>4

(* The byte that follows belongs to nothing the slice has. *)
LEMMA GrowOwns ==
  ASSUME SoundArena(arena), NEW sl \in Slices, NEW bytes, Owns(arena, sl, bytes),
         NextByte(sl) # {}, NEW t, t = GrowSliceTail(arena, sl, 1)
  PROVE  t \in Slices /\ Owns(arena, t, bytes \cup NextByte(sl))
<1> DEFINE a == arena
           tb == sl.tail_block
           next == a.block[tb].next
           off == sl.tail_offset
           size == (sl.size + 1) % SizeMod
<1>1. PICK i, j \in 1 .. a.block_count :
        Spans(a, sl, i, j) /\ Fits(a, sl) /\ bytes = RangeOver(a, sl, i, j)
  BY DEF Owns
<1>2. /\ i \in Nat /\ j \in Nat /\ 1 <= i /\ i <= j /\ j <= a.block_count
      /\ sl.head_block \in a.live /\ tb \in a.live
      /\ a.block_count \in Nat
  BY <1>1, SpansLive, ArenaEnds
<1>3. /\ a.live \subseteq Blocks
      /\ \A b \in a.live : /\ a.block[b].left_offset \in Nat
                           /\ a.block[b].right_offset \in Nat
                           /\ a.block[b].left_offset <= a.block[b].right_offset
                           /\ a.block[b].right_offset <= BlockSize
                           /\ a.block[b].size = BlockSize
  BY ArenaEnds
<1>4. off \in Nat /\ sl.head_offset \in Nat /\ BlockSize \in Nat \ {0}
  BY SliceConstants DEF Slices
<1>5. /\ Chain(a)[i] = sl.head_block /\ Chain(a)[j] = tb
      /\ a.block[sl.head_block].left_offset <= sl.head_offset
      /\ a.block[tb].left_offset <= off /\ off <= a.block[tb].right_offset
      /\ sl.head_block = tb => sl.head_offset <= off
  BY <1>1 DEF Spans, Fits
<1>6. off <= BlockSize
  BY <1>2, <1>3, <1>4, <1>5
<1>7. size \in 0 .. SizeMod - 1
  <2>1. sl.size + 1 \in Int
    BY DEF Slices
  <2> QED  BY <2>1, SizeModAssumption, ModType
<1>8. \A k \in i .. j : k \in 1 .. a.block_count /\ Chain(a)[k] \in a.live
                        /\ (k # j => Chain(a)[k] # tb)
  <2>1. \A k \in i .. j : k \in 1 .. a.block_count
    BY <1>2
  <2> QED  BY <1>2, <1>5, <2>1, ChainOnce
<1>9. CASE off < a.block[tb].right_offset
  <2>1. off # BlockSize
    BY <1>2, <1>3, <1>4, <1>9
  <2>2. t = [sl EXCEPT !.tail_offset = off + 1, !.size = size]
    <3>1. GrowsHere(a, sl)
      <4>1. sl.tail_block \in a.live /\ sl.tail_offset <= BlockSize
            /\ sl.tail_offset # BlockSize
        BY <1>2, <1>6, <2>1
      <4> HIDE DEF a, tb, next, off, size
      <4> QED  BY <4>1, SliceGrownByOne DEF a
    <3> QED  BY <3>1 DEF GrowsHere
  <2>3. NextByte(sl) = {[block |-> tb, off |-> off]}
    BY <1>9 DEF NextByte
  <2> HIDE DEF size
  <2>4. /\ t \in Slices /\ t.tail_offset = off + 1 /\ t.tail_block = tb
        /\ t.head_block = sl.head_block /\ t.head_offset = sl.head_offset
    <3>1. off + 1 \in Nat
      BY <1>4
    <3> QED  BY <1>7, <2>2, <3>1 DEF Slices
  <2> HIDE DEF a, tb, off
  <2>5. Spans(a, t, i, j)
    BY <1>1, <2>4 DEF Spans, tb
  <2>6. Fits(a, t)
    BY <1>2, <1>3, <1>4, <1>5, <1>9, <2>4 DEF Fits
  <2>7. PartOf(a, t, tb) = PartOf(a, sl, tb) \cup {[block |-> tb, off |-> off]}
    <3> DEFINE from == FromOff(a, sl, tb)
    <3>1. FromOff(a, t, tb) = from /\ ToOff(a, t, tb) = off + 1 /\ ToOff(a, sl, tb) = off
      BY <2>4 DEF ToOff, FromOff, tb, off
    <3>2. from \in Nat /\ from <= off
      BY <1>2, <1>3, <1>4, <1>5 DEF FromOff
    <3> HIDE DEF from
    <3>3. from \in Int /\ off \in Int /\ off + 1 \in Int /\ off <= off + 1
      BY <1>4, <3>2
    <3>4. Part(tb, from, off + 1) = Part(tb, from, off) \cup Part(tb, off, off + 1)
      BY <3>2, <3>3, PartSplit
    <3>5. Part(tb, off, off + 1) = {[block |-> tb, off |-> off]}
      <4>1. off .. (off + 1) - 1 = {off}
        BY <1>4
      <4> QED  BY <4>1 DEF Part
    <3>6. PartOf(a, t, tb) = Part(tb, from, off + 1)
          /\ PartOf(a, sl, tb) = Part(tb, from, off)
      BY <3>1 DEF PartOf, from
    <3> QED  BY <3>4, <3>5, <3>6
  <2>8. SameParts(a, sl, a, t, i, j - 1, 0)
    <3> SUFFICES ASSUME NEW k \in i .. j - 1
                 PROVE  PartOf(a, t, Chain(a)[k + 0]) = PartOf(a, sl, Chain(a)[k])
      BY DEF SameParts
    <3> DEFINE b == Chain(a)[k]
    <3>1. Chain(a)[k + 0] = b /\ b # tb
      <4>1. k \in i .. j /\ k # j /\ k + 0 = k
        BY <1>2
      <4> QED  BY <1>8, <4>1
    <3> HIDE DEF b
    <3>2. FromOff(a, t, b) = FromOff(a, sl, b) /\ ToOff(a, t, b) = ToOff(a, sl, b)
      BY <2>4, <3>1 DEF FromOff, ToOff, tb
    <3> QED  BY <3>1, <3>2, PartOfIs DEF b
  <2>9. RangeOver(a, t, i, j - 1) = RangeOver(a, sl, i, j - 1)
    <3>1. i + 0 = i /\ (j - 1) + 0 = j - 1 /\ j - 1 \in Int /\ i \in Int
      BY <1>2
    <3> QED  BY <2>8, <3>1, RangeSame
  <2>10. /\ RangeOver(a, t, i, j) = RangeOver(a, t, i, j - 1) \cup PartOf(a, t, tb)
         /\ RangeOver(a, sl, i, j) = RangeOver(a, sl, i, j - 1) \cup PartOf(a, sl, tb)
    <3>1. i <= j /\ i \in Int /\ j \in Int
      BY <1>2
    <3> QED  BY <1>5, <3>1, RangeLast
  <2>11. RangeOver(a, t, i, j) = bytes \cup NextByte(sl)
    BY <1>1, <2>3, <2>7, <2>9, <2>10
  <2> QED  BY <2>4, <2>5, <2>6, <2>11 DEF Owns, a
<1>10. CASE ~(off < a.block[tb].right_offset)
  <2>1. /\ off = BlockSize /\ next # Null
        /\ a.block[next].left_offset = 0 /\ a.block[next].right_offset > 0
        /\ NextByte(sl) = {[block |-> next, off |-> 0]}
    <3>1. /\ off = a.block[tb].size /\ next # Null
          /\ a.block[next].left_offset = 0 /\ a.block[next].right_offset > 0
          /\ NextByte(sl) = {[block |-> next, off |-> 0]}
      BY <1>10 DEF NextByte
    <3> QED  BY <1>2, <1>3, <3>1
  <2>2. t = [sl EXCEPT !.tail_block = next, !.tail_offset = 1, !.size = size]
    <3>1. t = GrowSliceTail(a, sl, 1) /\ SoundArena(a) /\ tb \in a.live
      BY <1>2
    <3>2. sl.tail_offset <= BlockSize /\ sl.tail_offset = BlockSize
          /\ a.block[sl.tail_block].next # Null
      BY <1>6, <2>1
    <3>3. GrowsInto(a, sl)
      <4>1. sl.tail_block \in a.live
        BY <3>1
      <4> HIDE DEF a, tb, next, off, size
      <4> QED  BY <3>1, <3>2, <4>1, SliceGrownByOne
    <3> QED  BY <3>1, <3>3 DEF GrowsInto
  <2>3. off = a.block[tb].right_offset
    BY <1>2, <1>3, <1>4, <1>5, <2>1
  <2>4. j + 1 \in 1 .. a.block_count /\ Chain(a)[j + 1] = next
    <3>1. next = NextInChain(Chain(a), a.block_count, j)
      BY <1>5, ChainOnce
    <3>2. j # a.block_count
      BY <2>1, <3>1 DEF NextInChain
    <3> QED  BY <1>2, <3>1, <3>2 DEF NextInChain
  <2>5. next \in a.live
    BY <2>4, ChainOnce
  <2>6. \A k \in i .. j : Chain(a)[k] # next
    <3>1. \A k \in i .. j : k # j + 1
      BY <1>2
    <3> QED  BY <1>8, <2>4, <3>1, ChainOnce
  <2> HIDE DEF size, next
  <2>7. /\ t \in Slices /\ t.tail_offset = 1 /\ t.tail_block = next
        /\ t.head_block = sl.head_block /\ t.head_offset = sl.head_offset
    <3>1. next \in Blocks /\ 1 \in Nat
      BY <1>3, <2>5
    <3> QED  BY <1>7, <2>2, <3>1 DEF Slices
  <2> HIDE DEF a, tb, off
  <2>8. Spans(a, t, i, j + 1)
    <3>1. j + 1 \in i .. a.block_count
      BY <1>2, <2>4
    <3> QED  BY <1>5, <2>4, <2>7, <3>1 DEF Spans
  <2>9. Fits(a, t)
    <3>1. t.head_block # t.tail_block
      <4>1. i \in i .. j
        BY <1>2
      <4> QED  BY <1>5, <2>6, <2>7, <4>1
    <3> QED  BY <1>3, <1>5, <2>1, <2>5, <2>7, <3>1 DEF Fits
  <2>10. PartOf(a, t, next) = NextByte(sl)
    <3>1. FromOff(a, t, next) = 0 /\ ToOff(a, t, next) = 1
      <4>1. next # t.head_block
        <5>1. i \in i .. j
          BY <1>2
        <5> QED  BY <1>5, <2>6, <2>7, <5>1
      <4> QED  BY <2>1, <2>7, <4>1 DEF FromOff, ToOff
    <3>2. 0 .. 1 - 1 = {0}
      OBVIOUS
    <3>3. PartOf(a, t, next) = Part(next, 0, 1)
      BY <3>1 DEF PartOf
    <3>4. Part(next, 0, 1) = {[block |-> next, off |-> 0]}
      BY <3>2 DEF Part
    <3> QED  BY <2>1, <3>3, <3>4
  <2>11. SameParts(a, sl, a, t, i, j, 0)
    <3> SUFFICES ASSUME NEW k \in i .. j
                 PROVE  PartOf(a, t, Chain(a)[k + 0]) = PartOf(a, sl, Chain(a)[k])
      BY DEF SameParts
    <3> DEFINE b == Chain(a)[k]
    <3>1. Chain(a)[k + 0] = b /\ b # next
      <4>1. k + 0 = k
        BY <1>2
      <4> QED  BY <2>6, <4>1
    <3> HIDE DEF b
    <3>2. FromOff(a, t, b) = FromOff(a, sl, b) /\ ToOff(a, t, b) = ToOff(a, sl, b)
      BY <2>3, <2>7, <3>1 DEF FromOff, ToOff, tb, off
    <3> QED  BY <3>1, <3>2, PartOfIs DEF b
  <2>12. RangeOver(a, t, i, j) = RangeOver(a, sl, i, j)
    <3>1. i + 0 = i /\ j + 0 = j /\ j \in Int /\ i \in Int
      BY <1>2
    <3> QED  BY <2>11, <3>1, RangeSame
  <2>13. RangeOver(a, t, i, j + 1) = RangeOver(a, t, i, j) \cup PartOf(a, t, next)
    <3>1. i <= j + 1 /\ i \in Int /\ j + 1 \in Int /\ (j + 1) - 1 = j
      BY <1>2
    <3> QED  BY <2>4, <3>1, RangeLast
  <2>14. RangeOver(a, t, i, j + 1) = bytes \cup NextByte(sl)
    BY <1>1, <2>10, <2>12, <2>13
  <2> QED  BY <2>4, <2>7, <2>8, <2>9, <2>14 DEF Owns, a
<1> QED  BY <1>9, <1>10
-----------------------------------------------------------------------------
(* What a slice owns when its ends are set. *)
LEMMA MadeOwns ==
  ASSUME NEW a, SoundArena(a), NEW t \in Slices, NEW i \in 1 .. a.block_count,
         NEW j \in 1 .. a.block_count, Spans(a, t, i, j), Fits(a, t)
  PROVE  Owns(a, t, ToSet(SlicePtrs(a, t)))
<1>1. ToSet(SlicePtrs(a, t)) = RangeOver(a, t, i, j)
  BY SliceBytes
<1> QED  BY <1>1 DEF Owns

LEMMA WholeArenaOwns ==
  ASSUME NEW a, SoundArena(a)
  PROVE  LET t == SliceOfArena(a)
         IN  /\ t \in Slices /\ Owns(a, t, ToSet(SlicePtrs(a, t)))
             /\ ~LostTail(a, t) /\ ~LostHead(a, t)
<1> DEFINE dest == [head_block |-> a.head_block, tail_block |-> a.tail_block,
                    head_offset |-> a.block[a.head_block].left_offset,
                    tail_offset |-> a.block[a.tail_block].right_offset, size |-> 0]
           t == InitSlice(a, dest)
<1>1. /\ a.block_count \in Nat /\ a.block_count >= 1
      /\ a.head_block \in a.live /\ a.head_block \in Blocks
      /\ a.tail_block \in a.live /\ a.tail_block \in Blocks
      /\ \A b \in a.live : /\ a.block[b].left_offset \in Nat
                           /\ a.block[b].right_offset \in Nat
                           /\ a.block[b].left_offset <= a.block[b].right_offset
  BY ArenaEnds
<1>2. dest \in Slices /\ dest.head_block \in a.live
  BY <1>1, SizeModAssumption DEF Slices
<1>3. /\ dest.head_block = a.head_block /\ dest.tail_block = a.tail_block
      /\ dest.head_offset = a.block[a.head_block].left_offset
      /\ dest.tail_offset = a.block[a.tail_block].right_offset
  OBVIOUS
<1>4. SliceOfArena(a) = t
  BY DEF SliceOfArena
<1> HIDE DEF dest
<1>5. /\ t \in Slices
      /\ t.head_block = a.head_block /\ t.tail_block = a.tail_block
      /\ t.head_offset = a.block[a.head_block].left_offset
      /\ t.tail_offset = a.block[a.tail_block].right_offset
  BY <1>2, <1>3, InitSliceIs DEF SoundArena
<1> HIDE DEF t
<1>6. /\ 1 \in 1 .. a.block_count /\ a.block_count \in 1 .. a.block_count
      /\ Spans(a, t, 1, a.block_count)
  BY <1>1, <1>5, ChainOnce DEF Spans
<1>7. Fits(a, t)
  BY <1>1, <1>5 DEF Fits
<1>8. Owns(a, t, ToSet(SlicePtrs(a, t)))
  BY <1>5, <1>6, <1>7, MadeOwns
<1>9. ~LostTail(a, t) /\ ~LostHead(a, t)
  BY <1>1, <1>5 DEF LostTail, LostHead
<1> QED  BY <1>4, <1>5, <1>8, <1>9

LEMMA PartOwns ==
  ASSUME NEW a, SoundArena(a), NEW b \in a.live,
         NEW from \in a.block[b].left_offset .. a.block[b].right_offset,
         NEW to \in a.block[b].left_offset .. a.block[b].right_offset, from <= to,
         NEW t, t = InitSlice(a, [head_block |-> b, tail_block |-> b,
                                  head_offset |-> from, tail_offset |-> to, size |-> 0])
  PROVE  t \in Slices /\ Owns(a, t, ToSet(SlicePtrs(a, t)))
<1> DEFINE dest == [head_block |-> b, tail_block |-> b,
                    head_offset |-> from, tail_offset |-> to, size |-> 0]
<1>1. /\ b \in Blocks /\ a.block[b].left_offset \in Nat /\ a.block[b].right_offset \in Nat
      /\ Chained(a) /\ a.block_count \in Nat
  BY ArenaEnds
<1>2. from \in Nat /\ to \in Nat
      /\ a.block[b].left_offset <= from /\ a.block[b].left_offset <= to
      /\ to <= a.block[b].right_offset
  BY <1>1
<1>3. /\ dest \in Slices /\ dest.head_block = b /\ dest.tail_block = b
      /\ dest.head_offset = from /\ dest.tail_offset = to /\ t = InitSlice(a, dest)
  BY <1>1, <1>2, SizeModAssumption DEF Slices
<1> HIDE DEF dest
<1>4. /\ t \in Slices /\ t.head_block = b /\ t.tail_block = b
      /\ t.head_offset = from /\ t.tail_offset = to
  BY <1>3, InitSliceIs DEF SoundArena
<1>5. PICK k \in 1 .. a.block_count : Chain(a)[k] = b
  BY <1>1, ChainOfChained DEF IsChain
<1>6. Spans(a, t, k, k)
  BY <1>1, <1>4, <1>5 DEF Spans
<1>7. Fits(a, t)
  BY <1>2, <1>4 DEF Fits
<1> QED  BY <1>4, <1>6, <1>7, MadeOwns

(* A slice's bytes are bytes of blocks. *)
AllBytes == [block: Blocks, off: 0 .. BlockSize - 1]

LEMMA OwnsBytes ==
  ASSUME NEW a, SoundArena(a), NEW sl \in Slices, NEW bytes, Owns(a, sl, bytes)
  PROVE  bytes \subseteq AllBytes
<1>1. PICK i, j \in 1 .. a.block_count :
        Spans(a, sl, i, j) /\ Fits(a, sl) /\ bytes = RangeOver(a, sl, i, j)
  BY DEF Owns
<1>2. /\ i \in Nat /\ j \in Nat /\ 1 <= i /\ j <= a.block_count
      /\ sl.tail_block \in a.live /\ a.block_count \in Nat /\ a.live \subseteq Blocks
      /\ BlockSize \in Nat
      /\ \A b \in a.live : /\ a.block[b].left_offset \in Nat
                           /\ a.block[b].right_offset \in Nat
                           /\ a.block[b].right_offset <= BlockSize
  BY <1>1, SpansLive, ArenaEnds, SliceConstants
<1>3. ASSUME NEW k \in i .. j, NEW x \in PartOf(a, sl, Chain(a)[k])
      PROVE  x \in AllBytes
  <2> DEFINE b == Chain(a)[k]
             from == FromOff(a, sl, b)
             to == ToOff(a, sl, b)
  <2>1. b \in a.live
    <3>1. k \in 1 .. a.block_count
      BY <1>2
    <3> QED  BY <3>1, ChainOnce
  <2>2. x \in Part(b, from, to)
    BY <1>3 DEF PartOf
  <2> HIDE DEF b
  <2>3. from \in Nat
    BY <1>2, <2>1 DEF FromOff, Slices
  <2>4. to \in Nat /\ to <= BlockSize
    <3>1. sl.tail_offset <= a.block[sl.tail_block].right_offset /\ sl.tail_offset \in Nat
      BY <1>1 DEF Fits, Slices
    <3>2. sl.tail_offset <= BlockSize
      BY <1>2, <3>1
    <3> QED  BY <1>2, <2>1, <3>1, <3>2 DEF ToOff
  <2> HIDE DEF from, to
  <2>5. PICK o \in from .. to - 1 : x = [block |-> b, off |-> o]
    BY <2>2 DEF Part
  <2>6. o \in 0 .. BlockSize - 1
    BY <1>2, <2>3, <2>4
  <2> QED  BY <1>2, <2>1, <2>5, <2>6 DEF AllBytes
<1> QED  BY <1>1, <1>3 DEF RangeOver

-----------------------------------------------------------------------------
(* The inductive invariant: every slice's ends lie in order in the arena's  *)
(* chain, within the used bytes of their blocks, and what it owns is what   *)
(* lies between them.                                                       *)
Kept(a, sl, bytes) == sl # Null => sl \in Slices /\ Owns(a, sl, bytes)

SliceIInv ==
  /\ SoundArena(arena)
  /\ SlicesTypeOK
  /\ \A s \in SliceIds : Kept(arena, slices[s], own[s])

LEMMA InitSliceIInv ==
  ASSUME SlicesInit
  PROVE  SliceIInv
<1>1. PICK n \in Blocks : arena = InitArena(n, BlockSize, Offset)
  BY DEF SlicesInit
<1>2. SoundArena(arena)
  <2>1. BlockSize \in Nat /\ Offset \in Offsets
    BY SliceConstants, BlockAssumption
  <2>2. ArenaOK(arena)
    BY <1>1, <2>1, InitArenaOK
  <2> QED  BY <1>1, <2>2 DEF SoundArena, InitArena
<1> QED  BY <1>2 DEF SlicesInit, SliceIInv, SoundArena, ArenaOK, SlicesTypeOK, Kept

(* A step gives slice s a new value; the others keep what they own. *)
LEMMA OneSliceChanged ==
  ASSUME SliceIInv, SoundArena(arena'), NEW s \in SliceIds, NEW t \in Slices,
         NEW bytes, Owns(arena', t, bytes),
         slices' = [slices EXCEPT ![s] = t], own' = [own EXCEPT ![s] = bytes],
         \A q \in SliceIds \ {s} : Kept(arena', slices[q], own[q])
  PROVE  SliceIInv'
<1>1. bytes \subseteq AllBytes
  BY OwnsBytes
<1>2. SlicesTypeOK'
  <2>1. arena' \in Arenas
    BY DEF SoundArena, ArenaOK
  <2> QED  BY <1>1, <2>1 DEF SliceIInv, SlicesTypeOK, AllBytes
<1>3. ASSUME NEW q \in SliceIds
      PROVE  Kept(arena', slices'[q], own'[q])
  <2>1. CASE q = s
    <3>1. slices'[q] = t /\ own'[q] = bytes
      BY <2>1 DEF SliceIInv, SlicesTypeOK
    <3> QED  BY <3>1 DEF Kept
  <2>2. CASE q # s
    <3>1. slices'[q] = slices[q] /\ own'[q] = own[q]
      BY <2>2 DEF SliceIInv, SlicesTypeOK
    <3> QED  BY <2>2, <3>1
  <2> QED  BY <2>1, <2>2
<1> QED  BY <1>2, <1>3 DEF SliceIInv

LEMMA OthersKept ==
  ASSUME SliceIInv, SoundArena(arena'), NEW n \in Requests,
         arena' \in AllocAtHead(arena, n) \/ arena' \in AllocAtTail(arena, n)
  PROVE  \A q \in SliceIds : Kept(arena', slices[q], own[q])
<1> SUFFICES ASSUME NEW q \in SliceIds, slices[q] # Null
             PROVE  slices[q] \in Slices /\ Owns(arena', slices[q], own[q])
  BY DEF Kept
<1>1. slices[q] \in Slices /\ Owns(arena, slices[q], own[q]) /\ SoundArena(arena)
  BY DEF SliceIInv, Kept
<1>2. n \in 1 .. BlockSize
  BY SliceConstants
<1>3. CASE arena' \in AllocAtHead(arena, n)
  <2>1. HeadLowered(arena, arena', n) \/ HeadAdded(arena, arena', n)
    BY <1>1, <1>2, <1>3, HeadAllocated
  <2> QED  BY <1>1, <1>2, <2>1, HeadKeepsOwn
<1>4. CASE arena' \in AllocAtTail(arena, n)
  <2>1. TailRaised(arena, arena', n) \/ TailAdded(arena, arena', n)
    BY <1>1, <1>2, <1>4, TailAllocated
  <2> QED  BY <1>1, <1>2, <2>1, TailKeepsOwn
<1> QED  BY <1>3, <1>4

LEMMA StillSound ==
  ASSUME SliceIInv, NEW n \in Requests,
         arena' \in AllocAtHead(arena, n) \/ arena' \in AllocAtTail(arena, n)
  PROVE  SoundArena(arena') /\ n \in 1 .. BlockSize
<1>1. SoundArena(arena) /\ n \in 1 .. BlockSize
  BY SliceConstants DEF SliceIInv
<1> QED  BY <1>1, HeadAllocated, TailAllocated

LEMMA BecomeIInv ==
  ASSUME SliceIInv, NEW s \in SliceIds, NEW sl \in Slices,
         Owns(arena, sl, ToSet(SlicePtrs(arena, sl))), Become(s, sl)
  PROVE  SliceIInv'
<1> DEFINE bytes == ToSet(SlicePtrs(arena, sl))
<1>1. /\ slices' = [slices EXCEPT ![s] = sl] /\ own' = [own EXCEPT ![s] = bytes]
      /\ arena' = arena
  BY DEF Become
<1>2. SoundArena(arena') /\ Owns(arena', sl, bytes)
      /\ \A q \in SliceIds \ {s} : Kept(arena', slices[q], own[q])
  BY <1>1 DEF SliceIInv
<1> HIDE DEF bytes
<1> QED  BY <1>1, <1>2, OneSliceChanged

LEMMA TakeArenaIInv ==
  ASSUME SliceIInv, NEW s \in SliceIds, TakeArena(s)
  PROVE  SliceIInv'
<1>1. LET t == SliceOfArena(arena)
      IN  t \in Slices /\ Owns(arena, t, ToSet(SlicePtrs(arena, t)))
  BY WholeArenaOwns DEF SliceIInv
<1> QED  BY <1>1, BecomeIInv DEF TakeArena

LEMMA TakePartIInv ==
  ASSUME SliceIInv, NEW s \in SliceIds, TakePart(s)
  PROVE  SliceIInv'
<1>1. PICK b \in arena.live :
        \E from, to \in arena.block[b].left_offset .. arena.block[b].right_offset :
          /\ from <= to
          /\ Become(s, InitSlice(arena,
                         [head_block |-> b, tail_block |-> b, head_offset |-> from,
                          tail_offset |-> to, size |-> 0]))
  BY DEF TakePart
<1>2. PICK from \in arena.block[b].left_offset .. arena.block[b].right_offset,
           to \in arena.block[b].left_offset .. arena.block[b].right_offset :
          /\ from <= to
          /\ Become(s, InitSlice(arena,
                         [head_block |-> b, tail_block |-> b, head_offset |-> from,
                          tail_offset |-> to, size |-> 0]))
  BY <1>1
<1> DEFINE t == InitSlice(arena, [head_block |-> b, tail_block |-> b,
                                  head_offset |-> from, tail_offset |-> to, size |-> 0])
<1>3. from <= to /\ Become(s, t) /\ SoundArena(arena)
  BY <1>2 DEF SliceIInv
<1>4. t \in Slices /\ Owns(arena, t, ToSet(SlicePtrs(arena, t)))
  BY <1>3, PartOwns
<1> HIDE DEF t
<1> QED  BY <1>3, <1>4, BecomeIInv

LEMMA SliceAllocHeadIInv ==
  ASSUME SliceIInv, NEW s \in SliceIds, NEW n \in Requests, SliceAllocHead(s, n)
  PROVE  SliceIInv'
<1>1. CASE LostHead(arena, slices[s])
  BY <1>1 DEF SliceAllocHead, slices_vars, SliceIInv, SlicesTypeOK
<1>2. CASE ~LostHead(arena, slices[s])
  <2> DEFINE sl == slices[s]
             t == MovedHead(arena', sl, n)
             bytes == own[s] \cup Bytes(HeadPtr(arena'), n)
  <2>1. /\ arena' \in AllocAtHead(arena, n)
        /\ slices' = [slices EXCEPT ![s] = t] /\ own' = [own EXCEPT ![s] = bytes]
        /\ sl # Null
    BY <1>2 DEF SliceAllocHead, SliceIInv, SlicesTypeOK
  <2>2. sl \in Slices /\ Owns(arena, sl, own[s]) /\ SoundArena(arena) /\ ~LostHead(arena, sl)
    BY <1>2, <2>1 DEF SliceIInv, Kept
  <2>3. SoundArena(arena') /\ n \in 1 .. BlockSize /\ n \in Nat
    BY <2>1, StillSound
  <2>4. HeadLowered(arena, arena', n) \/ HeadAdded(arena, arena', n)
    BY <2>1, <2>2, <2>3, HeadAllocated
  <2>5. Owns(arena', t, bytes)
    <3> HIDE DEF sl
    <3> QED  BY <2>2, <2>3, <2>4, HeadGrowsOwn
  <2>6. t \in Slices
    BY <2>2, <2>3, MovedHeadIs DEF HeadFollows
  <2>7. \A q \in SliceIds : Kept(arena', slices[q], own[q])
    BY <2>1, <2>3, OthersKept
  <2> HIDE DEF sl, t, bytes
  <2> QED  BY <2>1, <2>3, <2>5, <2>6, <2>7, OneSliceChanged
<1> QED  BY <1>1, <1>2

LEMMA SliceAllocTailIInv ==
  ASSUME SliceIInv, NEW s \in SliceIds, NEW n \in Requests, SliceAllocTail(s, n)
  PROVE  SliceIInv'
<1>1. CASE LostTail(arena, slices[s])
  BY <1>1 DEF SliceAllocTail, slices_vars, SliceIInv, SlicesTypeOK
<1>2. CASE ~LostTail(arena, slices[s])
  <2> DEFINE sl == slices[s]
             t == MovedTail(arena', sl, n)
             bytes == own[s] \cup Bytes(TailPtr(arena', n), n)
  <2>1. /\ arena' \in AllocAtTail(arena, n)
        /\ slices' = [slices EXCEPT ![s] = t] /\ own' = [own EXCEPT ![s] = bytes]
        /\ sl # Null
    BY <1>2 DEF SliceAllocTail, SliceIInv, SlicesTypeOK
  <2>2. sl \in Slices /\ Owns(arena, sl, own[s]) /\ SoundArena(arena) /\ ~LostTail(arena, sl)
    BY <1>2, <2>1 DEF SliceIInv, Kept
  <2>3. SoundArena(arena') /\ n \in 1 .. BlockSize /\ n \in Nat
    BY <2>1, StillSound
  <2>4. TailRaised(arena, arena', n) \/ TailAdded(arena, arena', n)
    BY <2>1, <2>2, <2>3, TailAllocated
  <2>5. Owns(arena', t, bytes)
    <3> HIDE DEF sl
    <3> QED  BY <2>2, <2>3, <2>4, TailGrowsOwn
  <2>6. t \in Slices
    BY <2>2, <2>3, MovedTailIs DEF TailFollows
  <2>7. \A q \in SliceIds : Kept(arena', slices[q], own[q])
    BY <2>1, <2>3, OthersKept
  <2> HIDE DEF sl, t, bytes
  <2> QED  BY <2>1, <2>3, <2>5, <2>6, <2>7, OneSliceChanged
<1> QED  BY <1>1, <1>2

LEMMA GrowIInv ==
  ASSUME SliceIInv, NEW s \in SliceIds, Grow(s)
  PROVE  SliceIInv'
<1> DEFINE sl == slices[s]
           t == GrowSliceTail(arena, sl, 1)
           bytes == own[s] \cup NextByte(sl)
<1>1. /\ sl # Null /\ NextByte(sl) # {} /\ arena' = arena
      /\ slices' = [slices EXCEPT ![s] = t] /\ own' = [own EXCEPT ![s] = bytes]
  BY DEF Grow, SliceIInv, SlicesTypeOK
<1>2. sl \in Slices /\ Owns(arena, sl, own[s]) /\ SoundArena(arena)
  BY <1>1 DEF SliceIInv, Kept
<1>3. t \in Slices /\ Owns(arena, t, bytes)
  <2> HIDE DEF sl
  <2> QED  BY <1>1, <1>2, GrowOwns
<1>4. \A q \in SliceIds : Kept(arena', slices[q], own[q])
  BY <1>1 DEF SliceIInv
<1> HIDE DEF sl, t, bytes
<1>5. SoundArena(arena') /\ Owns(arena', t, bytes)
  BY <1>1, <1>2, <1>3
<1> QED  BY <1>1, <1>3, <1>4, <1>5, OneSliceChanged

LEMMA AllocIInv ==
  ASSUME SliceIInv, NEW n \in Requests, AllocHead(n) \/ AllocTail(n)
  PROVE  SliceIInv'
<1>1. /\ arena' \in AllocAtHead(arena, n) \/ arena' \in AllocAtTail(arena, n)
      /\ slices' = slices /\ own' = own
  BY DEF AllocHead, AllocTail
<1>2. SoundArena(arena')
  BY <1>1, StillSound
<1>3. \A q \in SliceIds : Kept(arena', slices[q], own[q])
  BY <1>1, <1>2, OthersKept
<1>4. SlicesTypeOK'
  BY <1>1, <1>2 DEF SliceIInv, SlicesTypeOK, SoundArena, ArenaOK
<1> QED  BY <1>1, <1>2, <1>3, <1>4 DEF SliceIInv

LEMMA ResetIInv ==
  ASSUME SliceIInv, Reset
  PROVE  SliceIInv'
<1>1. /\ arena' = ResetArena(arena) /\ SoundArena(arena)
      /\ slices' = [s \in SliceIds |-> Null] /\ own' = [s \in SliceIds |-> {}]
  BY DEF Reset, SliceIInv
<1>2. SoundArena(arena')
  BY <1>1, ResetArenaOK DEF SoundArena
<1>3. SlicesTypeOK' /\ \A q \in SliceIds : Kept(arena', slices'[q], own'[q])
  BY <1>1, <1>2 DEF SlicesTypeOK, Kept, SoundArena, ArenaOK
<1> QED  BY <1>2, <1>3 DEF SliceIInv

-----------------------------------------------------------------------------
LEMMA NextSliceIInv ==
  ASSUME SliceIInv, [SlicesNext]_slices_vars
  PROVE  SliceIInv'
<1>1. CASE \E s \in SliceIds : TakeArena(s) \/ TakePart(s) \/ Grow(s)
  BY <1>1, TakeArenaIInv, TakePartIInv, GrowIInv
<1>2. CASE \E s \in SliceIds, n \in Requests : SliceAllocHead(s, n) \/ SliceAllocTail(s, n)
  BY <1>2, SliceAllocHeadIInv, SliceAllocTailIInv
<1>3. CASE \E n \in Requests : AllocHead(n) \/ AllocTail(n)
  BY <1>3, AllocIInv
<1>4. CASE Reset
  BY <1>4, ResetIInv
<1>5. CASE UNCHANGED slices_vars
  BY <1>5 DEF slices_vars, SliceIInv, SlicesTypeOK
<1> QED  BY <1>1, <1>2, <1>3, <1>4, <1>5 DEF SlicesNext

LEMMA SpecSliceIInv == SlicesSpec => []SliceIInv
  BY InitSliceIInv, NextSliceIInv, PTL DEF SlicesSpec

(* A slice's fields stay in their types: an end is a block the arena can    *)
(* have, and every byte in the range lies inside its block.                 *)
THEOREM SliceTypeCorrect == SlicesSpec => []SlicesTypeOK
<1>1. SliceIInv => SlicesTypeOK
  BY DEF SliceIInv
<1> QED  BY <1>1, SpecSliceIInv, PTL

(* Whoever allocates in the arena, a slice's range is just the bytes it was *)
(* made of and those it got itself (adapters.c: lf_slice_alloc_at_head and  *)
(* _tail refuse once the slice has lost the end).                           *)
THEOREM SliceRangeIsOwn == SlicesSpec => []RangeIsOwn
<1>1. SliceIInv => RangeIsOwn
  <2> SUFFICES ASSUME SliceIInv, NEW s \in InUse
               PROVE  ToSet(SlicePtrs(arena, slices[s])) = own[s]
    BY DEF RangeIsOwn
  <2>1. SoundArena(arena) /\ slices[s] \in Slices /\ Owns(arena, slices[s], own[s])
    BY DEF SliceIInv, Kept, InUse
  <2> DEFINE sl == slices[s]
  <2>2. PICK i, j \in 1 .. arena.block_count :
          Spans(arena, sl, i, j) /\ own[s] = RangeOver(arena, sl, i, j)
    BY <2>1 DEF Owns
  <2> HIDE DEF sl
  <2>3. ToSet(SlicePtrs(arena, sl)) = RangeOver(arena, sl, i, j)
    <3>1. sl \in Slices
      BY <2>1 DEF sl
    <3> QED  BY <2>1, <2>2, <3>1, SliceBytes
  <2> QED  BY <2>2, <2>3 DEF sl
<1> QED  BY <1>1, SpecSliceIInv, PTL

-----------------------------------------------------------------------------
(* Which ends of the arena a step moves, and which a slice has lost.        *)
LEMMA HeadMoves ==
  ASSUME NEW a, SoundArena(a), NEW h, NEW n \in 1 .. BlockSize,
         HeadLowered(a, h, n) \/ HeadAdded(a, h, n), NEW sl \in Slices,
         sl.head_block \in a.live, sl.tail_block \in a.live
  PROVE  /\ LostTail(h, sl) <=> LostTail(a, sl)
         /\ LostHead(a, sl) => LostHead(h, sl)
         /\ <<h.head_block, h.block[h.head_block].left_offset>>
              # <<a.head_block, a.block[a.head_block].left_offset>>
<1>1. /\ a.head_block \in a.live /\ a.tail_block \in a.live
      /\ \A b \in a.live : a.block[b].left_offset \in Nat
      /\ n \in Nat /\ n >= 1 /\ sl.head_offset \in Nat
  BY ArenaEnds, SliceConstants DEF Slices
<1>2. CASE HeadLowered(a, h, n)
  <2>1. /\ h.head_block = a.head_block /\ h.tail_block = a.tail_block
        /\ h.block[a.head_block].left_offset = a.block[a.head_block].left_offset - n
        /\ h.block[a.tail_block].right_offset = a.block[a.tail_block].right_offset
    BY <1>1, <1>2 DEF HeadLowered, SameLinks, SameOffsets
  <2> QED  BY <1>1, <2>1 DEF LostTail, LostHead
<1>3. CASE HeadAdded(a, h, n)
  <2>1. /\ h.head_block \notin a.live /\ h.tail_block = a.tail_block
        /\ h.block[a.tail_block].right_offset = a.block[a.tail_block].right_offset
    BY <1>1, <1>3 DEF HeadAdded, SameOffsets, Fresh
  <2> QED  BY <1>1, <2>1 DEF LostTail, LostHead
<1> QED  BY <1>2, <1>3

LEMMA TailMoves ==
  ASSUME NEW a, SoundArena(a), NEW h, NEW n \in 1 .. BlockSize,
         TailRaised(a, h, n) \/ TailAdded(a, h, n), NEW sl \in Slices,
         sl.head_block \in a.live, sl.tail_block \in a.live
  PROVE  /\ LostHead(h, sl) <=> LostHead(a, sl)
         /\ LostTail(a, sl) => LostTail(h, sl)
         /\ <<h.tail_block, h.block[h.tail_block].right_offset>>
              # <<a.tail_block, a.block[a.tail_block].right_offset>>
<1>1. /\ a.head_block \in a.live /\ a.tail_block \in a.live
      /\ \A b \in a.live : a.block[b].right_offset \in Nat
      /\ n \in Nat /\ n >= 1 /\ sl.tail_offset \in Nat
  BY ArenaEnds, SliceConstants DEF Slices
<1>2. CASE TailRaised(a, h, n)
  <2>1. /\ h.head_block = a.head_block /\ h.tail_block = a.tail_block
        /\ h.block[a.tail_block].right_offset = a.block[a.tail_block].right_offset + n
        /\ h.block[a.head_block].left_offset = a.block[a.head_block].left_offset
    BY <1>1, <1>2 DEF TailRaised, SameLinks, SameOffsets
  <2> QED  BY <1>1, <2>1 DEF LostTail, LostHead
<1>3. CASE TailAdded(a, h, n)
  <2>1. /\ h.tail_block \notin a.live /\ h.head_block = a.head_block
        /\ h.block[a.head_block].left_offset = a.block[a.head_block].left_offset
    BY <1>1, <1>3 DEF TailAdded, SameOffsets, Fresh
  <2> QED  BY <1>1, <2>1 DEF LostTail, LostHead
<1> QED  BY <1>2, <1>3

(* A slice that still has the tail has no byte to grow over, and the byte   *)
(* it grows over is new to it.                                              *)
LEMMA NoNextAtTail ==
  ASSUME SoundArena(arena), NEW sl \in Slices, ~LostTail(arena, sl)
  PROVE  NextByte(sl) = {}
<1> DEFINE tb == arena.tail_block
<1>1. sl.tail_block = tb /\ ~(sl.tail_offset < arena.block[tb].right_offset)
  BY DEF LostTail
<1>2. arena.block[tb].next = Null
  <2>1. arena.block_count \in Nat /\ arena.block_count >= 1
    BY ArenaEnds
  <2>2. arena.block_count \in 1 .. arena.block_count
    BY <2>1
  <2> QED  BY <2>2, ChainOnce DEF NextInChain
<1> QED  BY <1>1, <1>2 DEF NextByte

LEMMA NextByteNew ==
  ASSUME SoundArena(arena), NEW sl \in Slices, NEW bytes, Owns(arena, sl, bytes),
         NextByte(sl) # {}
  PROVE  bytes \cup NextByte(sl) # bytes
<1> DEFINE a == arena
           tb == sl.tail_block
           next == a.block[tb].next
<1>1. PICK i, j \in 1 .. a.block_count :
        Spans(a, sl, i, j) /\ Fits(a, sl) /\ bytes = RangeOver(a, sl, i, j)
  BY DEF Owns
<1>2. /\ i \in Nat /\ j \in Nat /\ 1 <= i /\ i <= j /\ j <= a.block_count
      /\ a.block_count \in Nat /\ Chain(a)[j] = tb
  BY <1>1, SpansLive, ArenaEnds DEF Spans
<1>3. \A k \in i .. j : k \in 1 .. a.block_count
  BY <1>2
<1>4. ASSUME NEW x, NEW k \in i .. j, x \in PartOf(a, sl, Chain(a)[k])
      PROVE  /\ x.block = Chain(a)[k]
             /\ k = j => x.off < sl.tail_offset
  <2>1. PICK o \in FromOff(a, sl, Chain(a)[k]) .. ToOff(a, sl, Chain(a)[k]) - 1 :
          x = [block |-> Chain(a)[k], off |-> o]
    BY <1>4 DEF PartOf, Part
  <2>2. ASSUME k = j
        PROVE  o < sl.tail_offset
    <3>1. ToOff(a, sl, Chain(a)[k]) = sl.tail_offset /\ sl.tail_offset \in Int
      BY <1>2, <2>2 DEF ToOff, Slices
    <3> QED  BY <2>1, <3>1
  <2> QED  BY <2>1, <2>2
<1>5. CASE sl.tail_offset < a.block[tb].right_offset
  <2> DEFINE x == [block |-> tb, off |-> sl.tail_offset]
  <2>1. x \in NextByte(sl)
    BY <1>5 DEF NextByte
  <2>2. x \notin bytes
    <3> SUFFICES ASSUME x \in bytes PROVE FALSE
      OBVIOUS
    <3>1. PICK k \in i .. j : x \in PartOf(a, sl, Chain(a)[k])
      BY <1>1 DEF RangeOver
    <3>2. Chain(a)[k] = tb /\ (k = j => x.off < x.off)
      BY <1>4, <3>1
    <3>3. k = j
      <4>1. k \in 1 .. a.block_count
        BY <1>3
      <4> QED  BY <1>2, <3>2, <4>1, ChainOnce
    <3>4. x.off \in Nat
      BY DEF Slices
    <3> QED  BY <3>2, <3>3, <3>4
  <2> QED  BY <2>1, <2>2
<1>6. CASE ~(sl.tail_offset < a.block[tb].right_offset)
  <2> DEFINE x == [block |-> next, off |-> 0]
  <2>1. x \in NextByte(sl) /\ next # Null
    BY <1>6 DEF NextByte
  <2>2. j + 1 \in 1 .. a.block_count /\ Chain(a)[j + 1] = next
    <3>1. next = NextInChain(Chain(a), a.block_count, j)
      BY <1>2, ChainOnce
    <3>2. j # a.block_count
      BY <2>1, <3>1 DEF NextInChain
    <3> QED  BY <1>2, <3>1, <3>2 DEF NextInChain
  <2>3. x \notin bytes
    <3> SUFFICES ASSUME x \in bytes PROVE FALSE
      OBVIOUS
    <3>1. PICK k \in i .. j : x \in PartOf(a, sl, Chain(a)[k])
      BY <1>1 DEF RangeOver
    <3>2. Chain(a)[k] = next
      BY <1>4, <3>1
    <3>3. k = j + 1
      <4>1. k \in 1 .. a.block_count
        BY <1>3
      <4> QED  BY <2>2, <3>2, <4>1, ChainOnce
    <3> QED  BY <1>2, <3>3
  <2> QED  BY <2>1, <2>3
<1> QED  BY <1>5, <1>6

LEMMA GrowKeepsHead ==
  ASSUME SoundArena(arena), NEW sl \in Slices, NEW bytes, Owns(arena, sl, bytes),
         NextByte(sl) # {}, NEW t, t = GrowSliceTail(arena, sl, 1)
  PROVE  t.head_block = sl.head_block /\ t.head_offset = sl.head_offset
<1>1. PICK i, j \in 1 .. arena.block_count : Spans(arena, sl, i, j) /\ Fits(arena, sl)
  BY DEF Owns
<1>2. sl.tail_block \in arena.live
  BY <1>1, SpansLive
<1>3. sl.tail_offset <= BlockSize /\ arena.block[sl.tail_block].size = BlockSize
      /\ arena.block[sl.tail_block].right_offset <= BlockSize
  <2>1. sl.tail_offset <= arena.block[sl.tail_block].right_offset /\ sl.tail_offset \in Nat
    BY <1>1 DEF Fits, Slices
  <2>2. /\ arena.block[sl.tail_block].right_offset <= BlockSize
        /\ arena.block[sl.tail_block].right_offset \in Nat /\ BlockSize \in Nat
        /\ arena.block[sl.tail_block].size = BlockSize
    BY <1>2, ArenaEnds, SliceConstants
  <2> QED  BY <2>1, <2>2
<1>4. CASE sl.tail_offset # BlockSize
  <2>1. GrowsHere(arena, sl)
    BY <1>2, <1>3, <1>4, SliceGrownByOne
  <2> QED  BY <2>1 DEF GrowsHere, Slices
<1>5. CASE sl.tail_offset = BlockSize
  <2>1. arena.block[sl.tail_block].next # Null
    <3>1. ~(sl.tail_offset < arena.block[sl.tail_block].right_offset)
      BY <1>3, <1>5, SliceConstants, ArenaEnds, <1>2
    <3> QED  BY <3>1 DEF NextByte
  <2>2. GrowsInto(arena, sl)
    BY <1>2, <1>3, <1>5, <2>1, SliceGrownByOne
  <2> QED  BY <2>2 DEF GrowsInto, Slices
<1> QED  BY <1>4, <1>5

-----------------------------------------------------------------------------
(* Who loses and who gets an end, step by step. *)
LEMMA OwnedSlice ==
  ASSUME SliceIInv, NEW s \in InUse
  PROVE  /\ SoundArena(arena) /\ s \in SliceIds
         /\ slices[s] \in Slices /\ Owns(arena, slices[s], own[s])
         /\ slices[s].head_block \in arena.live /\ slices[s].tail_block \in arena.live
<1>1. SoundArena(arena) /\ s \in SliceIds /\ slices[s] \in Slices
      /\ Owns(arena, slices[s], own[s])
  BY DEF SliceIInv, Kept, InUse
<1>2. PICK i, j \in 1 .. arena.block_count : Spans(arena, slices[s], i, j)
  BY <1>1 DEF Owns
<1> QED  BY <1>1, <1>2, SpansLive

LEMMA NothingMoves ==
  ASSUME NEW s \in InUse, arena' = arena, slices'[s] = slices[s]
  PROVE  EndsKept(s)
BY DEF EndsKept

LEMMA HeadAllocKeepsEnds ==
  ASSUME SliceIInv, NEW s \in InUse, NEW n \in Requests,
         arena' \in AllocAtHead(arena, n), slices'[s] = slices[s], own'[s] = own[s]
  PROVE  EndsKept(s)
<1> DEFINE sl == slices[s]
<1>1. /\ SoundArena(arena) /\ n \in 1 .. BlockSize /\ sl \in Slices
      /\ sl.head_block \in arena.live /\ sl.tail_block \in arena.live
  BY OwnedSlice, SliceConstants
<1>2. HeadLowered(arena, arena', n) \/ HeadAdded(arena, arena', n)
  BY <1>1, HeadAllocated
<1> HIDE DEF sl
<1>3. /\ LostTail(arena', sl) <=> LostTail(arena, sl)
      /\ LostHead(arena, sl) => LostHead(arena', sl)
      /\ HeadEnd' # HeadEnd
  BY <1>1, <1>2, HeadMoves DEF HeadEnd
<1> QED  BY <1>3 DEF EndsKept, sl

LEMMA TailAllocKeepsEnds ==
  ASSUME SliceIInv, NEW s \in InUse, NEW n \in Requests,
         arena' \in AllocAtTail(arena, n), slices'[s] = slices[s], own'[s] = own[s]
  PROVE  EndsKept(s)
<1> DEFINE sl == slices[s]
<1>1. /\ SoundArena(arena) /\ n \in 1 .. BlockSize /\ sl \in Slices
      /\ sl.head_block \in arena.live /\ sl.tail_block \in arena.live
  BY OwnedSlice, SliceConstants
<1>2. TailRaised(arena, arena', n) \/ TailAdded(arena, arena', n)
  BY <1>1, TailAllocated
<1> HIDE DEF sl
<1>3. /\ LostHead(arena', sl) <=> LostHead(arena, sl)
      /\ LostTail(arena, sl) => LostTail(arena', sl)
      /\ TailEnd' # TailEnd
  BY <1>1, <1>2, TailMoves DEF TailEnd
<1> QED  BY <1>3 DEF EndsKept, sl

LEMMA SliceHeadKeepsEnds ==
  ASSUME SliceIInv, NEW s \in InUse, NEW n \in Requests, SliceAllocHead(s, n)
  PROVE  EndsKept(s)
<1>1. CASE LostHead(arena, slices[s])
  BY <1>1, NothingMoves DEF SliceAllocHead, slices_vars
<1>2. CASE ~LostHead(arena, slices[s])
  <2> DEFINE sl == slices[s]
             t == MovedHead(arena', sl, n)
  <2>1. /\ SoundArena(arena) /\ n \in 1 .. BlockSize /\ n \in Nat /\ sl \in Slices
        /\ sl.head_block \in arena.live /\ sl.tail_block \in arena.live
    BY OwnedSlice, SliceConstants
  <2>2. arena' \in AllocAtHead(arena, n) /\ slices'[s] = t
    BY <1>2, OwnedSlice DEF SliceAllocHead, SliceIInv, SlicesTypeOK
  <2> HIDE DEF sl
  <2>3. SoundArena(arena') /\ (HeadLowered(arena, arena', n) \/ HeadAdded(arena, arena', n))
    BY <2>1, <2>2, HeadAllocated
  <2>4. LostTail(arena', sl) <=> LostTail(arena, sl)
    BY <2>1, <2>3, HeadMoves
  <2>5. HeadFollows(t, arena', sl)
    BY <2>1, <2>3, MovedHeadIs
  <2> HIDE DEF t
  <2>6. ~LostHead(arena', t) /\ (LostTail(arena', t) <=> LostTail(arena', sl))
    BY <2>5 DEF HeadFollows, LostHead, LostTail, Slices
  <2>7. /\ ~LostHead(arena, slices[s]) /\ ~LostHead(arena', slices'[s])
        /\ LostTail(arena', slices'[s]) <=> LostTail(arena, slices[s])
    BY <1>2, <2>2, <2>4, <2>6 DEF sl
  <2> QED  BY <2>7 DEF EndsKept
<1> QED  BY <1>1, <1>2

LEMMA SliceTailKeepsEnds ==
  ASSUME SliceIInv, NEW s \in InUse, NEW n \in Requests, SliceAllocTail(s, n)
  PROVE  EndsKept(s)
<1>1. CASE LostTail(arena, slices[s])
  BY <1>1, NothingMoves DEF SliceAllocTail, slices_vars
<1>2. CASE ~LostTail(arena, slices[s])
  <2> DEFINE sl == slices[s]
             t == MovedTail(arena', sl, n)
  <2>1. /\ SoundArena(arena) /\ n \in 1 .. BlockSize /\ n \in Nat /\ sl \in Slices
        /\ sl.head_block \in arena.live /\ sl.tail_block \in arena.live
    BY OwnedSlice, SliceConstants
  <2>2. arena' \in AllocAtTail(arena, n) /\ slices'[s] = t
    BY <1>2, OwnedSlice DEF SliceAllocTail, SliceIInv, SlicesTypeOK
  <2> HIDE DEF sl
  <2>3. SoundArena(arena') /\ (TailRaised(arena, arena', n) \/ TailAdded(arena, arena', n))
    BY <2>1, <2>2, TailAllocated
  <2>4. LostHead(arena', sl) <=> LostHead(arena, sl)
    BY <2>1, <2>3, TailMoves
  <2>5. TailFollows(t, arena', sl)
    BY <2>1, <2>3, MovedTailIs
  <2> HIDE DEF t
  <2>6. ~LostTail(arena', t) /\ (LostHead(arena', t) <=> LostHead(arena', sl))
    BY <2>5 DEF TailFollows, LostHead, LostTail, Slices
  <2>7. /\ ~LostTail(arena, slices[s]) /\ ~LostTail(arena', slices'[s])
        /\ LostHead(arena', slices'[s]) <=> LostHead(arena, slices[s])
    BY <1>2, <2>2, <2>4, <2>6 DEF sl
  <2> QED  BY <2>7 DEF EndsKept
<1> QED  BY <1>1, <1>2

LEMMA GrowKeepsEnds ==
  ASSUME SliceIInv, NEW s \in InUse, Grow(s)
  PROVE  EndsKept(s)
<1> DEFINE sl == slices[s]
           t == GrowSliceTail(arena, sl, 1)
<1>1. SoundArena(arena) /\ sl \in Slices /\ Owns(arena, sl, own[s])
  BY OwnedSlice
<1>2. /\ NextByte(sl) # {} /\ arena' = arena /\ slices'[s] = t
      /\ own'[s] = own[s] \cup NextByte(sl)
  BY OwnedSlice DEF Grow, SliceIInv, SlicesTypeOK
<1> HIDE DEF sl
<1>3. t.head_block = sl.head_block /\ t.head_offset = sl.head_offset
  BY <1>1, <1>2, GrowKeepsHead
<1>4. own'[s] # own[s]
  BY <1>1, <1>2, NextByteNew
<1>5. LostTail(arena, sl)
  BY <1>1, <1>2, NoNextAtTail
<1> HIDE DEF t
<1>6. /\ LostHead(arena', slices'[s]) <=> LostHead(arena, slices[s])
      /\ LostTail(arena, slices[s]) /\ arena' = arena
  BY <1>2, <1>3, <1>5 DEF LostHead, sl
<1> QED  BY <1>4, <1>6 DEF EndsKept

LEMMA StepMovesEnds ==
  ASSUME SliceIInv, SlicesNext, NEW s \in InUse
  PROVE  EndsMove(s)
<1>1. ASSUME TakeArena(s)
      PROVE  ~LostTail(arena', slices'[s]) /\ ~LostHead(arena', slices'[s])
  <2>1. slices'[s] = SliceOfArena(arena) /\ arena' = arena
    BY <1>1, OwnedSlice DEF TakeArena, Become, SliceIInv, SlicesTypeOK
  <2> QED  BY <2>1, WholeArenaOwns DEF SliceIInv
<1>2. ASSUME ~TakeArena(s), ~TakePart(s), ~Reset
      PROVE  EndsKept(s)
  <2>1. ASSUME NEW q \in SliceIds, q # s, TakeArena(q) \/ TakePart(q) \/ Grow(q)
        PROVE  EndsKept(s)
    <3>1. arena' = arena
      BY <2>1 DEF TakeArena, TakePart, Become, Grow
    <3>2. slices'[s] = slices[s]
      <4>1. PICK v : slices' = [slices EXCEPT ![q] = v]
        BY <2>1 DEF TakeArena, TakePart, Become, Grow
      <4> QED  BY <2>1, <4>1, OwnedSlice DEF SliceIInv, SlicesTypeOK
    <3> QED  BY <3>1, <3>2, NothingMoves
  <2>2. ASSUME NEW q \in SliceIds, q # s, NEW n \in Requests,
               SliceAllocHead(q, n) \/ SliceAllocTail(q, n)
        PROVE  EndsKept(s)
    <3>1. CASE UNCHANGED slices_vars
      BY <3>1, NothingMoves DEF slices_vars
    <3>2. CASE ~UNCHANGED slices_vars
      <4>1. /\ arena' \in AllocAtHead(arena, n) \/ arena' \in AllocAtTail(arena, n)
            /\ \E v, w : slices' = [slices EXCEPT ![q] = v] /\ own' = [own EXCEPT ![q] = w]
        BY <2>2, <3>2 DEF SliceAllocHead, SliceAllocTail, SliceIInv, SlicesTypeOK
      <4>2. slices'[s] = slices[s] /\ own'[s] = own[s]
        BY <2>2, <4>1, OwnedSlice DEF SliceIInv, SlicesTypeOK
      <4> QED  BY <4>1, <4>2, HeadAllocKeepsEnds, TailAllocKeepsEnds
    <3> QED  BY <3>1, <3>2
  <2>3. ASSUME NEW n \in Requests, AllocHead(n) \/ AllocTail(n)
        PROVE  EndsKept(s)
    BY <2>3, HeadAllocKeepsEnds, TailAllocKeepsEnds DEF AllocHead, AllocTail
  <2>4. ASSUME NEW n \in Requests, SliceAllocHead(s, n) \/ SliceAllocTail(s, n)
        PROVE  EndsKept(s)
    BY <2>4, SliceHeadKeepsEnds, SliceTailKeepsEnds
  <2>5. ASSUME Grow(s)
        PROVE  EndsKept(s)
    BY <2>5, GrowKeepsEnds
  <2> QED  BY <1>2, <2>1, <2>2, <2>3, <2>4, <2>5 DEF SlicesNext
<1> QED  BY <1>1, <1>2 DEF EndsMove

(* A slice of the whole arena has both ends; it loses one only when somebody *)
(* else moves that end of the arena, gets the tail back only by taking in    *)
(* bytes it did not have, and never gets the head back (the guards of        *)
(* lf_slice_alloc_at_head and _tail, lf_grow_arena_slice_tail).              *)
THEOREM SliceEndsChangeHands == SlicesSpec => EndsChangeHands
<1>1. SliceIInv /\ [SlicesNext]_slices_vars => [\A s \in InUse : EndsMove(s)]_slices_vars
  BY StepMovesEnds
<1> QED  BY <1>1, SpecSliceIInv, PTL DEF SlicesSpec, EndsChangeHands

-----------------------------------------------------------------------------
(* How many bytes a slice has.  Its size lies between the number of bytes it *)
(* owns and the number its range spans, as long as memory holds fewer bytes *)
(* than a size_t counts.                                                    *)
MemoryFits == IsFiniteSet(Blocks) /\ BlockSize * Cardinality(Blocks) < SizeMod

Spanned(sl, i, j) == (j - i) * BlockSize + sl.tail_offset - sl.head_offset

Counted(a, sl, bytes) ==
  /\ IsFiniteSet(bytes) /\ Cardinality(bytes) <= sl.size
  /\ \E i, j \in 1 .. a.block_count : Spans(a, sl, i, j) /\ sl.size <= Spanned(sl, i, j)

CountIInv == \A s \in SliceIds : slices[s] # Null => Counted(arena, slices[s], own[s])

LEMMA PartCount ==
  ASSUME NEW b, NEW from \in Int, NEW to \in Int, from <= to
  PROVE  IsFiniteSet(Part(b, from, to)) /\ Cardinality(Part(b, from, to)) <= to - from
<1> DEFINE S == from .. to - 1
           f == [o \in S |-> [block |-> b, off |-> o]]
<1>1. IsFiniteSet(S) /\ Cardinality(S) = to - from
  <2>1. IsFiniteSet(S) /\ Cardinality(S) = IF from > to - 1 THEN 0 ELSE (to - 1) - from + 1
    BY FS_Interval
  <2> QED  BY <2>1
<1>2. f \in Surjection(S, Part(b, from, to))
  BY DEF Surjection, Part
<1> HIDE DEF S, f
<1>3. IsFiniteSet(Part(b, from, to)) /\ Cardinality(Part(b, from, to)) <= Cardinality(S)
  BY <1>1, <1>2, FS_Surjection
<1> QED  BY <1>1, <1>3

LEMMA UnionCount ==
  ASSUME NEW S, IsFiniteSet(S), NEW T, IsFiniteSet(T), NEW m \in Int, NEW n \in Int,
         Cardinality(S) <= m, Cardinality(T) <= n
  PROVE  IsFiniteSet(S \cup T) /\ Cardinality(S \cup T) <= m + n
<1>1. /\ IsFiniteSet(S \cup T)
      /\ Cardinality(S \cup T) = Cardinality(S) + Cardinality(T) - Cardinality(S \cap T)
  BY FS_Union
<1>2. Cardinality(S) \in Nat /\ Cardinality(T) \in Nat
  BY FS_CardinalityType
<1>3. Cardinality(S \cap T) \in Nat
  <2>1. IsFiniteSet(S \cap T)
    BY FS_Intersection
  <2> QED  BY <2>1, FS_CardinalityType
<1> QED  BY <1>1, <1>2, <1>3

(* No range is longer than memory. *)
LEMMA SpanFits ==
  ASSUME MemoryFits, NEW a, SoundArena(a), NEW sl \in Slices, NEW i, NEW j,
         Spans(a, sl, i, j), Fits(a, sl)
  PROVE  Spanned(sl, i, j) \in Int /\ Spanned(sl, i, j) < SizeMod
<1> DEFINE c == a.block_count
           m == Cardinality(Blocks)
           x == (j - i) * BlockSize
           y == BlockSize * m
<1>1. /\ i \in Nat /\ j \in Nat /\ i <= j /\ 1 <= i /\ j <= c /\ c \in Nat
      /\ sl.tail_block \in a.live /\ a.live \subseteq Blocks
  BY SpansLive, ArenaEnds
<1>2. BlockSize \in Nat \ {0} /\ SizeMod \in Nat
  BY SliceConstants
<1>3. m \in Nat /\ c <= m
  <2>1. /\ \A k \in 1 .. c : Chain(a)[k] \in a.live
        /\ \A k, l \in 1 .. c : Chain(a)[k] = Chain(a)[l] => k = l
    BY ChainOnce
  <2> DEFINE f == [k \in 1 .. c |-> Chain(a)[k]]
  <2>2. f \in Injection(1 .. c, Blocks)
    BY <1>1, <2>1 DEF Injection, IsInjective
  <2>3. Cardinality(1 .. c) <= m
    <3> HIDE DEF f, m, c
    <3> QED  BY <2>2, FS_Injection DEF MemoryFits, m
  <2>4. Cardinality(1 .. c) = c
    BY <1>1, FS_Interval
  <2>5. m \in Nat
    BY FS_CardinalityType DEF MemoryFits
  <2> QED  BY <2>3, <2>4, <2>5
<1>4. sl.tail_offset \in Nat /\ sl.tail_offset <= BlockSize /\ sl.head_offset \in Nat
  <2>1. a.block[sl.tail_block].right_offset \in Nat
        /\ a.block[sl.tail_block].right_offset <= BlockSize
    BY <1>1, ArenaEnds
  <2> QED  BY <1>2, <2>1 DEF Fits, Slices
<1>5. x \in Nat /\ y \in Nat /\ x + BlockSize <= y
  <2>1. (j - i) + 1 <= m /\ (j - i) \in Nat
    BY <1>1, <1>3
  <2> DEFINE d == j - i
  <2> HIDE DEF d, m
  <2>2. d \in Nat /\ m \in Nat /\ d + 1 <= m
    BY <1>3, <2>1 DEF d
  <2>3. (d + 1) * BlockSize <= m * BlockSize /\ d * BlockSize \in Nat
        /\ (d + 1) * BlockSize = d * BlockSize + BlockSize /\ BlockSize * m = m * BlockSize
    BY <1>2, <2>2
  <2> QED  BY <1>2, <2>2, <2>3 DEF d, m
<1>6. y < SizeMod
  BY DEF MemoryFits
<1> HIDE DEF x, y
<1>7. x + sl.tail_offset - sl.head_offset \in Int
      /\ x + sl.tail_offset - sl.head_offset < SizeMod
  BY <1>2, <1>4, <1>5, <1>6
<1> QED  BY <1>7 DEF Spanned, x

(* A size that got larger is still not too large to count. *)
LEMMA SizeGrows ==
  ASSUME NEW m \in Nat, NEW size \in Nat, NEW n \in Nat, NEW x \in Int,
         size + n <= x, x < m
  PROVE  (size + n) % m = size + n
<1>1. m \in Nat \ {0} /\ size + n \in 0 .. m - 1
  OBVIOUS
<1> DEFINE y == size + n
<1> HIDE DEF y
<1>2. y % m = y
  BY <1>1, ModIs DEF y
<1> QED  BY <1>2 DEF y

(* An allocation by somebody else moves blocks along the chain, no more.    *)
ChainMoved(a, h) ==
  \E d \in {0, 1} : /\ h.block_count >= a.block_count + d
                    /\ \A k \in 1 .. a.block_count : Chain(h)[k + d] = Chain(a)[k]

LEMMA AllocMoves ==
  ASSUME NEW a, SoundArena(a), NEW h, SoundArena(h), NEW n,
         \/ HeadLowered(a, h, n) \/ HeadAdded(a, h, n)
         \/ TailRaised(a, h, n) \/ TailAdded(a, h, n)
  PROVE  ChainMoved(a, h)
<1>1. a.block_count \in Nat /\ \A k \in 1 .. a.block_count : k + 0 = k
  BY ArenaEnds
<1>2. CASE HeadLowered(a, h, n)
  <2>1. Chain(h) = Chain(a) /\ h.block_count = a.block_count
    BY <1>2, HeadLoweredChain
  <2>2. h.block_count >= a.block_count + 0
        /\ \A k \in 1 .. a.block_count : Chain(h)[k + 0] = Chain(a)[k]
    BY <1>1, <2>1
  <2> QED  BY <2>2 DEF ChainMoved
<1>3. CASE TailRaised(a, h, n)
  <2>1. Chain(h) = Chain(a) /\ h.block_count = a.block_count
    BY <1>3, TailRaisedChain
  <2>2. h.block_count >= a.block_count + 0
        /\ \A k \in 1 .. a.block_count : Chain(h)[k + 0] = Chain(a)[k]
    BY <1>1, <2>1
  <2> QED  BY <2>2 DEF ChainMoved
<1>4. CASE HeadAdded(a, h, n)
  <2>1. h.block_count >= a.block_count + 1
        /\ \A k \in 1 .. a.block_count : Chain(h)[k + 1] = Chain(a)[k]
    BY <1>1, <1>4, HeadAddedChain
  <2> QED  BY <2>1 DEF ChainMoved
<1>5. CASE TailAdded(a, h, n)
  <2>1. h.block_count >= a.block_count + 0
        /\ \A k \in 1 .. a.block_count : Chain(h)[k + 0] = Chain(a)[k]
    BY <1>1, <1>5, TailAddedChain
  <2> QED  BY <2>1 DEF ChainMoved
<1> QED  BY <1>2, <1>3, <1>4, <1>5

LEMMA StillCounted ==
  ASSUME NEW a, SoundArena(a), NEW h, SoundArena(h), ChainMoved(a, h),
         NEW sl \in Slices, NEW bytes, Counted(a, sl, bytes)
  PROVE  Counted(h, sl, bytes)
<1>1. PICK i, j \in 1 .. a.block_count : Spans(a, sl, i, j) /\ sl.size <= Spanned(sl, i, j)
  BY DEF Counted
<1>2. PICK d \in {0, 1} : /\ h.block_count >= a.block_count + d
                          /\ \A k \in 1 .. a.block_count : Chain(h)[k + d] = Chain(a)[k]
  BY DEF ChainMoved
<1>3. /\ i \in Nat /\ j \in Nat /\ i <= j /\ 1 <= i /\ j <= a.block_count
      /\ a.block_count \in Nat /\ h.block_count \in Nat
  BY <1>1, SpansLive, ArenaEnds
<1>4. /\ i + d \in 1 .. h.block_count /\ j + d \in 1 .. h.block_count
      /\ j + d \in i + d .. h.block_count /\ (j + d) - (i + d) = j - i
  BY <1>2, <1>3
<1>5. Spans(h, sl, i + d, j + d)
  BY <1>1, <1>2, <1>4 DEF Spans
<1>6. Spanned(sl, i + d, j + d) = Spanned(sl, i, j)
  BY <1>4 DEF Spanned
<1> QED  BY <1>1, <1>4, <1>5, <1>6 DEF Counted

(* A slice that gets n bytes more spans n more at least. *)
LEMMA MoreCounted ==
  ASSUME MemoryFits, NEW h, SoundArena(h), NEW sl \in Slices, NEW t \in Slices,
         NEW n \in Nat, t.size = (sl.size + n) % SizeMod,
         NEW bytes, IsFiniteSet(bytes), Cardinality(bytes) <= sl.size,
         NEW new, IsFiniteSet(new), Cardinality(new) <= n,
         NEW i, NEW j, Spans(h, t, i, j), Fits(h, t), sl.size + n <= Spanned(t, i, j)
  PROVE  Counted(h, t, bytes \cup new)
<1>1. Spanned(t, i, j) \in Int /\ Spanned(t, i, j) < SizeMod /\ SizeMod \in Nat
      /\ i \in 1 .. h.block_count /\ j \in 1 .. h.block_count
  BY SpanFits, SliceConstants, SpansLive
<1>2. sl.size \in Nat
  BY <1>1 DEF Slices
<1>3. t.size = sl.size + n
  <2> DEFINE x == Spanned(t, i, j)
             size == sl.size
  <2>1. x \in Int /\ x < SizeMod /\ SizeMod \in Nat /\ size \in Nat /\ size + n <= x
    BY <1>1, <1>2
  <2> HIDE DEF x, size
  <2>2. (size + n) % SizeMod = size + n
    BY <2>1, SizeGrows
  <2> QED  BY <2>2 DEF size
<1>4. IsFiniteSet(bytes \cup new) /\ Cardinality(bytes \cup new) <= sl.size + n
  <2>1. sl.size \in Int /\ n \in Int
    BY <1>2
  <2> QED  BY <2>1, UnionCount
<1> QED  BY <1>1, <1>3, <1>4 DEF Counted

LEMMA BytesCount ==
  ASSUME NEW ptr, ptr.off \in Int, NEW n \in Nat
  PROVE  IsFiniteSet(Bytes(ptr, n)) /\ Cardinality(Bytes(ptr, n)) <= n
<1> DEFINE from == ptr.off
           to == ptr.off + n
<1>1. from \in Int /\ to \in Int /\ from <= to /\ to - from = n
  OBVIOUS
<1>2. Bytes(ptr, n) = Part(ptr.block, from, to)
  BY BytesAre
<1> HIDE DEF from, to
<1> QED  BY <1>1, <1>2, PartCount

LEMMA HeadAllocCounted ==
  ASSUME MemoryFits, NEW a, SoundArena(a), NEW h, SoundArena(h), NEW n \in 1 .. BlockSize,
         HeadLowered(a, h, n) \/ HeadAdded(a, h, n),
         NEW sl \in Slices, NEW bytes, Owns(a, sl, bytes), ~LostHead(a, sl),
         Counted(a, sl, bytes), NEW t, t = MovedHead(h, sl, n)
  PROVE  Counted(h, t, bytes \cup Bytes(HeadPtr(h), n))
<1>1. n \in Nat /\ BlockSize \in Nat /\ n <= BlockSize
  BY SliceConstants
<1>2. HeadFollows(t, h, sl) /\ t.size = (sl.size + n) % SizeMod
  <2>1. t.size = (sl.size + n) % SizeMod
    BY DEF MovedHead, Slices
  <2> QED  BY <1>1, <2>1, MovedHeadIs
<1>3. Owns(h, t, bytes \cup Bytes(HeadPtr(h), n))
  BY HeadGrowsOwn
<1>4. Fits(h, t) /\ Fits(a, sl)
  BY <1>3 DEF Owns
<1>5. PICK i, j \in 1 .. a.block_count : Spans(a, sl, i, j) /\ sl.size <= Spanned(sl, i, j)
  BY DEF Counted
<1>6. /\ i \in Nat /\ j \in Nat /\ i <= j /\ 1 <= i /\ j <= a.block_count
      /\ a.block_count \in Nat /\ h.block_count \in Nat /\ 1 \in 1 .. a.block_count
      /\ a.head_block \in a.live /\ h.head_block \in h.live
      /\ a.block[a.head_block].left_offset \in Nat
      /\ h.block[h.head_block].left_offset \in Nat
  BY <1>5, SpansLive, ArenaEnds
<1> DEFINE left == a.block[a.head_block].left_offset
<1>7. /\ sl.head_block = a.head_block /\ sl.head_offset = left
      /\ sl.head_offset \in Nat /\ sl.tail_offset \in Nat /\ sl.size \in Nat
  <2>1. sl.head_block = a.head_block /\ ~(sl.head_offset > left)
    BY DEF LostHead
  <2>2. left <= sl.head_offset /\ sl.head_offset \in Nat
    BY <1>4, <2>1 DEF Fits, Slices
  <2> QED  BY <1>6, <2>1, <2>2, SliceConstants DEF Slices
<1>8. i = 1
  BY <1>5, <1>6, <1>7, ChainOnce DEF Spans
<1>9. IsFiniteSet(bytes) /\ Cardinality(bytes) <= sl.size
  BY DEF Counted
<1>10. IsFiniteSet(Bytes(HeadPtr(h), n)) /\ Cardinality(Bytes(HeadPtr(h), n)) <= n
  <2>1. HeadPtr(h).off \in Int
    BY <1>6 DEF HeadPtr
  <2> QED  BY <1>1, <2>1, BytesCount
<1> DEFINE x == (j - i) * BlockSize
<1>11. x \in Int /\ Spanned(sl, i, j) = x + sl.tail_offset - sl.head_offset
  BY <1>1, <1>6 DEF Spanned
<1>12. \E k, l \in 1 .. h.block_count : Spans(h, t, k, l) /\ sl.size + n <= Spanned(t, k, l)
  <2>1. CASE HeadLowered(a, h, n)
    <3>1. /\ Chain(h) = Chain(a) /\ h.block_count = a.block_count
          /\ h.head_block = a.head_block
      BY <2>1, HeadLoweredChain
    <3>2. t.head_offset = left - n /\ t.tail_offset = sl.tail_offset
      BY <1>2, <2>1, <3>1 DEF HeadFollows, HeadLowered
    <3>3. Spans(h, t, i, j)
      BY <1>2, <1>5, <1>7, <3>1 DEF Spans, HeadFollows
    <3>4. Spanned(t, i, j) = x + sl.tail_offset - (left - n)
      BY <3>2 DEF Spanned
    <3> HIDE DEF x, left
    <3>5. sl.size + n <= Spanned(t, i, j)
      BY <1>1, <1>5, <1>7, <1>11, <3>4
    <3> QED  BY <3>1, <3>3, <3>5
  <2>2. CASE HeadAdded(a, h, n)
    <3>1. /\ \A k \in 1 .. a.block_count : Chain(h)[k + 1] = Chain(a)[k]
          /\ Chain(h)[1] = h.head_block /\ h.block_count = a.block_count + 1
      BY <2>2, HeadAddedChain
    <3>2. t.head_offset = BlockSize - n /\ t.tail_offset = sl.tail_offset
      BY <1>2, <2>2 DEF HeadFollows, HeadAdded
    <3>3. 1 \in 1 .. h.block_count /\ j + 1 \in 1 .. h.block_count
      BY <1>6, <3>1
    <3>4. Spans(h, t, 1, j + 1)
      BY <1>2, <1>5, <3>1, <3>3 DEF Spans, HeadFollows
    <3>5. ((j + 1) - 1) * BlockSize = x + BlockSize
      BY <1>1, <1>6, <1>8
    <3>6. Spanned(t, 1, j + 1) = (x + BlockSize) + sl.tail_offset - (BlockSize - n)
      BY <3>2, <3>5 DEF Spanned
    <3> HIDE DEF x, left
    <3>7. sl.size + n <= Spanned(t, 1, j + 1)
      BY <1>1, <1>5, <1>7, <1>11, <3>6
    <3> QED  BY <3>3, <3>4, <3>7
  <2> QED  BY <2>1, <2>2
<1> HIDE DEF x, left
<1>13. t \in Slices
  BY <1>2 DEF HeadFollows
<1> QED  BY <1>1, <1>2, <1>4, <1>9, <1>10, <1>12, <1>13, MoreCounted

LEMMA TailAllocCounted ==
  ASSUME MemoryFits, NEW a, SoundArena(a), NEW h, SoundArena(h), NEW n \in 1 .. BlockSize,
         TailRaised(a, h, n) \/ TailAdded(a, h, n),
         NEW sl \in Slices, NEW bytes, Owns(a, sl, bytes), ~LostTail(a, sl),
         Counted(a, sl, bytes), NEW t, t = MovedTail(h, sl, n)
  PROVE  Counted(h, t, bytes \cup Bytes(TailPtr(h, n), n))
<1>1. n \in Nat /\ BlockSize \in Nat /\ n <= BlockSize
  BY SliceConstants
<1>2. TailFollows(t, h, sl) /\ t.size = (sl.size + n) % SizeMod
  <2>1. t.size = (sl.size + n) % SizeMod
    BY DEF MovedTail, Slices
  <2> QED  BY <1>1, <2>1, MovedTailIs
<1>3. Owns(h, t, bytes \cup Bytes(TailPtr(h, n), n))
  BY TailGrowsOwn
<1>4. Fits(h, t) /\ Fits(a, sl)
  BY <1>3 DEF Owns
<1>5. PICK i, j \in 1 .. a.block_count : Spans(a, sl, i, j) /\ sl.size <= Spanned(sl, i, j)
  BY DEF Counted
<1>6. /\ i \in Nat /\ j \in Nat /\ i <= j /\ 1 <= i /\ j <= a.block_count
      /\ a.block_count \in Nat /\ h.block_count \in Nat
      /\ a.block_count \in 1 .. a.block_count
      /\ a.tail_block \in a.live /\ h.tail_block \in h.live
      /\ a.block[a.tail_block].right_offset \in Nat
      /\ a.block[a.tail_block].right_offset <= BlockSize
      /\ h.block[h.tail_block].right_offset \in Nat
  BY <1>5, SpansLive, ArenaEnds
<1> DEFINE right == a.block[a.tail_block].right_offset
<1>7. /\ sl.tail_block = a.tail_block /\ sl.tail_offset = right
      /\ sl.head_offset \in Nat /\ sl.tail_offset \in Nat /\ sl.size \in Nat
  <2>1. sl.tail_block = a.tail_block /\ ~(sl.tail_offset < right)
    BY DEF LostTail
  <2>2. sl.tail_offset <= right /\ sl.tail_offset \in Nat
    BY <1>4, <2>1 DEF Fits, Slices
  <2> QED  BY <1>6, <2>1, <2>2, SliceConstants DEF Slices
<1>8. j = a.block_count
  BY <1>5, <1>6, <1>7, ChainOnce DEF Spans
<1>9. IsFiniteSet(bytes) /\ Cardinality(bytes) <= sl.size
  BY DEF Counted
<1>10. IsFiniteSet(Bytes(TailPtr(h, n), n)) /\ Cardinality(Bytes(TailPtr(h, n), n)) <= n
  <2>1. TailPtr(h, n).off \in Int
    BY <1>1, <1>6 DEF TailPtr
  <2> QED  BY <1>1, <2>1, BytesCount
<1> DEFINE x == (j - i) * BlockSize
<1>11. x \in Int /\ Spanned(sl, i, j) = x + sl.tail_offset - sl.head_offset
  BY <1>1, <1>6 DEF Spanned
<1>12. \E k, l \in 1 .. h.block_count : Spans(h, t, k, l) /\ sl.size + n <= Spanned(t, k, l)
  <2>1. CASE TailRaised(a, h, n)
    <3>1. /\ Chain(h) = Chain(a) /\ h.block_count = a.block_count
          /\ h.tail_block = a.tail_block
      BY <2>1, TailRaisedChain
    <3>2. t.tail_offset = right + n /\ t.head_offset = sl.head_offset
      BY <1>2, <2>1, <3>1 DEF TailFollows, TailRaised
    <3>3. Spans(h, t, i, j)
      BY <1>2, <1>5, <1>7, <3>1 DEF Spans, TailFollows
    <3>4. Spanned(t, i, j) = x + (right + n) - sl.head_offset
      BY <3>2 DEF Spanned
    <3> HIDE DEF x, right
    <3>5. sl.size + n <= Spanned(t, i, j)
      BY <1>1, <1>5, <1>7, <1>11, <3>4
    <3> QED  BY <3>1, <3>3, <3>5
  <2>2. CASE TailAdded(a, h, n)
    <3>1. /\ \A k \in 1 .. a.block_count : Chain(h)[k] = Chain(a)[k]
          /\ Chain(h)[a.block_count + 1] = h.tail_block
          /\ h.block_count = a.block_count + 1
      BY <2>2, TailAddedChain
    <3>2. t.tail_offset = n /\ t.head_offset = sl.head_offset
      BY <1>2, <2>2 DEF TailFollows, TailAdded
    <3>3. i \in 1 .. h.block_count /\ j + 1 \in 1 .. h.block_count
          /\ j + 1 \in i .. h.block_count
      BY <1>6, <1>8, <3>1
    <3>4. Spans(h, t, i, j + 1)
      BY <1>2, <1>5, <1>8, <3>1, <3>3 DEF Spans, TailFollows
    <3>5. ((j + 1) - i) * BlockSize = x + BlockSize
      BY <1>1, <1>6
    <3>6. Spanned(t, i, j + 1) = (x + BlockSize) + n - sl.head_offset
      BY <3>2, <3>5 DEF Spanned
    <3>7. right \in Nat /\ right <= BlockSize
      BY <1>6
    <3> HIDE DEF x, right
    <3>8. sl.size + n <= Spanned(t, i, j + 1)
      BY <1>1, <1>5, <1>7, <1>11, <3>6, <3>7
    <3> QED  BY <3>3, <3>4, <3>8
  <2> QED  BY <2>1, <2>2
<1> HIDE DEF x, right
<1>13. t \in Slices
  BY <1>2 DEF TailFollows
<1> QED  BY <1>1, <1>2, <1>4, <1>9, <1>10, <1>12, <1>13, MoreCounted

LEMMA GrowCounted ==
  ASSUME MemoryFits, SoundArena(arena), NEW sl \in Slices, NEW bytes,
         Owns(arena, sl, bytes), NextByte(sl) # {}, Counted(arena, sl, bytes),
         NEW t, t = GrowSliceTail(arena, sl, 1)
  PROVE  Counted(arena, t, bytes \cup NextByte(sl))
<1> DEFINE a == arena
           tb == sl.tail_block
           off == sl.tail_offset
           next == a.block[tb].next
           size == (sl.size + 1) % SizeMod
<1>1. t \in Slices /\ Owns(a, t, bytes \cup NextByte(sl))
  BY GrowOwns
<1>2. Fits(a, t) /\ Fits(a, sl) /\ IsFiniteSet(bytes) /\ Cardinality(bytes) <= sl.size
  BY <1>1 DEF Owns, Counted
<1>3. PICK i, j \in 1 .. a.block_count : Spans(a, sl, i, j) /\ sl.size <= Spanned(sl, i, j)
  BY DEF Counted
<1>4. /\ i \in Nat /\ j \in Nat /\ i <= j /\ 1 <= i /\ j <= a.block_count
      /\ a.block_count \in Nat /\ tb \in a.live
      /\ a.block[tb].right_offset \in Nat /\ a.block[tb].right_offset <= BlockSize
      /\ a.block[tb].size = BlockSize
      /\ Chain(a)[i] = sl.head_block /\ Chain(a)[j] = tb
  BY <1>3, SpansLive, ArenaEnds DEF Spans
<1>5. /\ BlockSize \in Nat /\ off \in Nat /\ sl.head_offset \in Nat /\ sl.size \in Nat
      /\ off <= a.block[tb].right_offset
  BY <1>2, SliceConstants DEF Slices, Fits
<1>6. off <= BlockSize
  BY <1>4, <1>5
<1>7. IsFiniteSet(NextByte(sl)) /\ Cardinality(NextByte(sl)) <= 1
  <2>1. NextByte(sl) = {[block |-> tb, off |-> off]}
        \/ NextByte(sl) = {[block |-> next, off |-> 0]}
    BY DEF NextByte
  <2>2. \A p : IsFiniteSet({p}) /\ Cardinality({p}) = 1
    BY FS_Singleton
  <2>3. IsFiniteSet(NextByte(sl)) /\ Cardinality(NextByte(sl)) = 1
    BY <2>1, <2>2
  <2> QED  BY <2>3
<1> DEFINE x == (j - i) * BlockSize
<1>8. x \in Int /\ Spanned(sl, i, j) = x + off - sl.head_offset
  BY <1>4, <1>5 DEF Spanned
<1>9. /\ t.size = size
      /\ \E k, l \in 1 .. a.block_count : Spans(a, t, k, l) /\ sl.size + 1 <= Spanned(t, k, l)
  <2>1. CASE off < a.block[tb].right_offset
    <3>1. off # BlockSize
      BY <1>4, <1>5, <2>1
    <3>2. GrowsHere(a, sl)
      <4>1. sl.tail_block \in a.live /\ sl.tail_offset <= BlockSize
            /\ sl.tail_offset # BlockSize
        BY <1>4, <1>6, <3>1
      <4> HIDE DEF a, tb, next, off, size, x
      <4> QED  BY <4>1, SliceGrownByOne DEF a
    <3>3. t = [sl EXCEPT !.tail_offset = off + 1, !.size = size]
      BY <3>2 DEF GrowsHere
    <3> HIDE DEF size
    <3>4. /\ t.tail_offset = off + 1 /\ t.tail_block = tb /\ t.size = size
          /\ t.head_block = sl.head_block /\ t.head_offset = sl.head_offset
      BY <3>3 DEF Slices
    <3>5. Spans(a, t, i, j)
      BY <1>3, <3>4 DEF Spans
    <3>6. Spanned(t, i, j) = x + (off + 1) - sl.head_offset
      BY <3>4 DEF Spanned
    <3> HIDE DEF x, off
    <3>7. sl.size + 1 <= Spanned(t, i, j)
      BY <1>3, <1>5, <1>8, <3>6
    <3> QED  BY <3>4, <3>5, <3>7
  <2>2. CASE ~(off < a.block[tb].right_offset)
    <3>1. off = BlockSize /\ next # Null
      <4>1. off = a.block[tb].size /\ next # Null
        BY <2>2 DEF NextByte
      <4> QED  BY <1>4, <4>1
    <3>2. GrowsInto(a, sl)
      <4>1. sl.tail_block \in a.live /\ sl.tail_offset <= BlockSize
            /\ sl.tail_offset = BlockSize /\ a.block[sl.tail_block].next # Null
        BY <1>4, <1>6, <3>1
      <4> HIDE DEF a, tb, next, off, size, x
      <4> QED  BY <4>1, SliceGrownByOne DEF a
    <3>3. t = [sl EXCEPT !.tail_block = next, !.tail_offset = 1, !.size = size]
      BY <3>2 DEF GrowsInto
    <3>4. j + 1 \in 1 .. a.block_count /\ Chain(a)[j + 1] = next
      <4>1. next = NextInChain(Chain(a), a.block_count, j)
        BY <1>4, ChainOnce
      <4>2. j # a.block_count
        BY <3>1, <4>1 DEF NextInChain
      <4> QED  BY <1>4, <4>1, <4>2 DEF NextInChain
    <3> HIDE DEF size, next
    <3>5. /\ t.tail_offset = 1 /\ t.tail_block = next /\ t.size = size
          /\ t.head_block = sl.head_block /\ t.head_offset = sl.head_offset
      BY <3>3 DEF Slices
    <3>6. Spans(a, t, i, j + 1)
      <4>1. j + 1 \in i .. a.block_count
        BY <1>4, <3>4
      <4> QED  BY <1>4, <3>4, <3>5, <4>1 DEF Spans
    <3>7. ((j + 1) - i) * BlockSize = x + BlockSize
      BY <1>4, <1>5
    <3>8. Spanned(t, i, j + 1) = (x + BlockSize) + 1 - sl.head_offset
      BY <3>5, <3>7 DEF Spanned
    <3> HIDE DEF x, off
    <3>9. sl.size + 1 <= Spanned(t, i, j + 1)
      BY <1>3, <1>5, <1>8, <3>1, <3>8
    <3> QED  BY <3>4, <3>5, <3>6, <3>9
  <2> QED  BY <2>1, <2>2
<1>10. 1 \in Nat /\ t.size = (sl.size + 1) % SizeMod
  BY <1>9
<1> HIDE DEF a, tb, off, next, size, x
<1>11. Counted(a, t, bytes \cup NextByte(sl))
  BY <1>1, <1>2, <1>7, <1>9, <1>10, MoreCounted DEF a
<1> QED  BY <1>11 DEF a

(* A slice made by the client in one block ... *)
LEMMA PartCounted ==
  ASSUME MemoryFits, NEW a, SoundArena(a), NEW b \in a.live,
         NEW from \in a.block[b].left_offset .. a.block[b].right_offset,
         NEW to \in a.block[b].left_offset .. a.block[b].right_offset, from <= to,
         NEW t, t = InitSlice(a, [head_block |-> b, tail_block |-> b,
                                  head_offset |-> from, tail_offset |-> to, size |-> 0])
  PROVE  Counted(a, t, ToSet(SlicePtrs(a, t)))
<1> DEFINE dest == [head_block |-> b, tail_block |-> b,
                    head_offset |-> from, tail_offset |-> to, size |-> 0]
<1>1. /\ b \in Blocks /\ a.block[b].left_offset \in Nat /\ a.block[b].right_offset \in Nat
      /\ a.block[b].right_offset <= BlockSize
      /\ Chained(a) /\ a.block_count \in Nat
      /\ BlockSize \in Nat /\ BlockSize < SizeMod /\ SizeMod \in Nat \ {0}
  BY ArenaEnds, SliceConstants
<1>2. from \in Nat /\ to \in Nat /\ to <= BlockSize
  BY <1>1
<1>3. /\ dest \in Slices /\ dest.head_block = b /\ dest.tail_block = b
      /\ dest.head_offset = from /\ dest.tail_offset = to /\ t = InitSlice(a, dest)
  BY <1>1, <1>2, SizeModAssumption DEF Slices
<1>4. SliceSize(a, dest) = to - from
  <2> DEFINE x == to - from
  <2>1. x \in 0 .. SizeMod - 1
    BY <1>1, <1>2
  <2>2. SliceSize(a, dest) = x % SizeMod
    BY <1>3 DEF SliceSize
  <2> HIDE DEF x, dest
  <2>3. SliceSize(a, dest) = x
    BY <1>1, <2>1, <2>2, ModIs
  <2> QED  BY <2>3 DEF x
<1> HIDE DEF dest
<1>5. /\ t \in Slices /\ t.head_block = b /\ t.tail_block = b
      /\ t.head_offset = from /\ t.tail_offset = to
  BY <1>3, InitSliceIs DEF SoundArena
<1>6. t.size = to - from
  BY <1>3, <1>4 DEF InitSlice, Slices
<1>7. PICK k \in 1 .. a.block_count : Chain(a)[k] = b
  BY <1>1, ChainOfChained DEF IsChain
<1>8. Spans(a, t, k, k)
  BY <1>1, <1>5, <1>7 DEF Spans
<1>9. Spanned(t, k, k) = to - from
  <2>1. (k - k) * BlockSize = 0
    BY <1>1
  <2> QED  BY <1>2, <1>5, <2>1 DEF Spanned
<1>10. ToSet(SlicePtrs(a, t)) = Part(b, from, to)
  <2>1. ToSet(SlicePtrs(a, t)) = RangeOver(a, t, k, k)
    BY <1>5, <1>8, SliceBytes
  <2>2. RangeOver(a, t, k, k) = PartOf(a, t, b)
    <3>1. k .. k = {k}
      OBVIOUS
    <3> QED  BY <1>7, <3>1 DEF RangeOver
  <2>3. PartOf(a, t, b) = Part(b, from, to)
    BY <1>5 DEF PartOf, FromOff, ToOff
  <2> QED  BY <2>1, <2>2, <2>3
<1>11. IsFiniteSet(Part(b, from, to)) /\ Cardinality(Part(b, from, to)) <= to - from
  <2>1. from \in Int /\ to \in Int
    BY <1>2
  <2> QED  BY <2>1, PartCount
<1>12. to - from <= to - from
  BY <1>2
<1> QED  BY <1>6, <1>8, <1>9, <1>10, <1>11, <1>12 DEF Counted

(* ... and the bytes between the end blocks of one made over several: the   *)
(* loop of _lf_get_arena_slice_size counts them.                            *)
CountsUpTo(a, f, sl, j, k, c) ==
  /\ c \in Nat /\ c <= (j - k) * BlockSize
  /\ \A x \in Int : f[<<Chain(a)[k], x>>] = x + c
  /\ IsFiniteSet(RangeOver(a, sl, k, j - 1))
  /\ Cardinality(RangeOver(a, sl, k, j - 1)) <= c

LEMMA InnerCounts ==
  ASSUME NEW a, SoundArena(a), NEW sl, NEW i, NEW j, Spans(a, sl, i, j), i < j
  PROVE  /\ InnerSize(a, sl) \in Nat /\ InnerSize(a, sl) <= (j - (i + 1)) * BlockSize
         /\ IsFiniteSet(RangeOver(a, sl, i + 1, j - 1))
         /\ Cardinality(RangeOver(a, sl, i + 1, j - 1)) <= InnerSize(a, sl)
<1> DEFINE f == CHOOSE f : IsCount(f, a, sl.tail_block)
           s == Chain(a)
           n == a.block_count
<1>1. /\ a \in Arenas /\ n \in Nat /\ a.live \subseteq Blocks
      /\ i \in Nat /\ j \in Nat /\ 1 <= i /\ j <= n /\ i \in 1 .. n /\ j \in 1 .. n
      /\ BlockSize \in Nat
  BY ArenaEnds, SpansLive, SliceConstants
<1>2. IsCount(f, a, sl.tail_block)
  BY <1>1, CountExists
<1>3. InnerSize(a, sl) = f[<<a.block[sl.head_block].next, 0>>]
  BY DEF InnerSize, IsCount, CountAt, CountNext
<1> HIDE DEF f
<1>4. \A cur \in Counts : f[cur] = CountAt(f, a, sl.tail_block, cur)
  BY <1>2 DEF IsCount
<1>5. /\ \A k \in 1 .. n : /\ s[k] \in a.live /\ s[k] \in Blocks
                           /\ a.block[s[k]].next = NextInChain(s, n, k)
      /\ \A k, l \in 1 .. n : s[k] = s[l] => k = l
      /\ s[i] = sl.head_block /\ s[j] = sl.tail_block
  BY <1>1, ChainOnce DEF Spans
<1>6. s[j] # Null /\ \A k \in 1 .. n : s[k] # Null
  BY <1>1, <1>5, BlocksAssumption
<1> DEFINE T == {k \in i + 1 .. j : \E c : CountsUpTo(a, f, sl, j, k, c)}
<1>7. CountsUpTo(a, f, sl, j, j, 0)
  <2>1. 0 <= (j - j) * BlockSize
    <3>1. j - j = 0 /\ 0 * BlockSize = 0
      BY <1>1
    <3> QED  BY <3>1
  <2>2. ASSUME NEW x \in Int
        PROVE  f[<<s[j], x>>] = x + 0
    <3> DEFINE cur == <<s[j], x>>
    <3>1. cur \in Counts /\ cur[1] = s[j] /\ cur[2] = x
      BY <1>1, <1>5 DEF Counts
    <3> HIDE DEF cur
    <3>2. f[cur] = x
      BY <1>4, <1>5, <3>1 DEF CountAt
    <3> QED  BY <3>2 DEF cur
  <2>3. RangeOver(a, sl, j, j - 1) = {}
    <3>1. j .. j - 1 = {}
      BY <1>1
    <3> QED  BY <3>1 DEF RangeOver
  <2> HIDE DEF s
  <2>4. IsFiniteSet(RangeOver(a, sl, j, j - 1)) /\ Cardinality(RangeOver(a, sl, j, j - 1)) = 0
    BY <2>3, FS_EmptySet
  <2>5. Cardinality(RangeOver(a, sl, j, j - 1)) <= 0
    BY <2>4
  <2> QED  BY <2>1, <2>2, <2>4, <2>5 DEF CountsUpTo, s
<1>8. ASSUME NEW k \in i + 1 .. j - 1, NEW c, CountsUpTo(a, f, sl, j, k + 1, c)
      PROVE  CountsUpTo(a, f, sl, j, k, Used(a, s[k]) + c)
  <2> DEFINE b == s[k]
             u == Used(a, b)
             rest == RangeOver(a, sl, k + 1, j - 1)
  <2>1. k \in 1 .. n /\ k + 1 \in 1 .. n /\ k # n /\ k # i /\ k # j /\ k \in Nat
        /\ k \in Int /\ j - 1 \in Int /\ k <= j - 1
    BY <1>1
  <2>2. b # sl.head_block /\ b # sl.tail_block /\ b \in a.live /\ b \in Blocks /\ b # Null
        /\ a.block[b].next = s[k + 1]
    BY <1>1, <1>5, <1>6, <2>1 DEF NextInChain
  <2>3. /\ a.block[b].left_offset \in Nat /\ a.block[b].right_offset \in Nat
        /\ a.block[b].left_offset <= a.block[b].right_offset
        /\ a.block[b].right_offset <= BlockSize
    BY <2>2, ArenaEnds
  <2>4. u \in Nat /\ u <= BlockSize
    BY <1>1, <2>3 DEF Used
  <2>5. /\ c \in Nat /\ c <= (j - (k + 1)) * BlockSize
        /\ \A x \in Int : f[<<s[k + 1], x>>] = x + c
        /\ IsFiniteSet(rest) /\ Cardinality(rest) <= c
    BY <1>8 DEF CountsUpTo
  <2>6. u + c \in Nat /\ u + c <= (j - k) * BlockSize
    <3> DEFINE y == (j - (k + 1)) * BlockSize
    <3>1. (j - k) * BlockSize = y + BlockSize /\ y \in Int
      BY <1>1, <2>1
    <3> HIDE DEF y, u
    <3> QED  BY <1>1, <2>4, <2>5, <3>1 DEF y
  <2>7. ASSUME NEW x \in Int
        PROVE  f[<<b, x>>] = x + (u + c)
    <3> DEFINE cur == <<b, x>>
    <3>1. cur \in Counts /\ cur[1] = b /\ cur[2] = x
      BY <2>2 DEF Counts
    <3>2. CountNext(a, cur) = <<s[k + 1], x + u>>
      BY <2>2 DEF CountNext
    <3> HIDE DEF cur, u, b
    <3>3. f[cur] = f[<<s[k + 1], x + u>>]
      BY <1>4, <2>2, <3>1, <3>2 DEF CountAt
    <3>4. x + u \in Int
      BY <2>4
    <3>5. f[<<s[k + 1], x + u>>] = (x + u) + c
      BY <2>5, <3>4
    <3>6. (x + u) + c = x + (u + c)
      BY <2>4, <2>5
    <3> QED  BY <3>3, <3>5, <3>6 DEF cur
  <2>8. RangeOver(a, sl, k, j - 1) = PartOf(a, sl, b) \cup rest
    BY <2>1, RangeFirst
  <2>9. IsFiniteSet(PartOf(a, sl, b)) /\ Cardinality(PartOf(a, sl, b)) <= u
    <3>1. PartOf(a, sl, b) = Part(b, a.block[b].left_offset, a.block[b].right_offset)
      BY <2>2 DEF PartOf, FromOff, ToOff
    <3>2. a.block[b].left_offset \in Int /\ a.block[b].right_offset \in Int
      BY <2>3
    <3> QED  BY <2>3, <3>1, <3>2, PartCount DEF Used
  <2> HIDE DEF b, u, rest
  <2>10. IsFiniteSet(PartOf(a, sl, b) \cup rest)
         /\ Cardinality(PartOf(a, sl, b) \cup rest) <= u + c
    <3>1. u \in Int /\ c \in Int
      BY <2>4, <2>5
    <3> QED  BY <2>5, <2>9, <3>1, UnionCount
  <2>11. CountsUpTo(a, f, sl, j, k, u + c)
    BY <2>6, <2>7, <2>8, <2>10 DEF CountsUpTo, b, s
  <2> QED  BY <2>11 DEF u, b
<1>9. \A k \in i + 1 .. j : k \in T
  <2>1. j \in T
    <3>1. j \in i + 1 .. j
      BY <1>1
    <3> QED  BY <1>7, <3>1
  <2>2. \A k \in i + 1 .. j - 1 : k + 1 \in T => k \in T
    <3> SUFFICES ASSUME NEW k \in i + 1 .. j - 1, k + 1 \in T
                 PROVE  k \in T
      OBVIOUS
    <3>1. k \in i + 1 .. j
      BY <1>1
    <3>2. PICK c : CountsUpTo(a, f, sl, j, k + 1, c)
      OBVIOUS
    <3>3. CountsUpTo(a, f, sl, j, k, Used(a, s[k]) + c)
      BY <1>8, <3>2
    <3> QED  BY <3>1, <3>3
  <2>3. i + 1 \in Nat /\ j \in Nat
    BY <1>1
  <2> HIDE DEF T
  <2> QED  BY <2>1, <2>2, <2>3, DownwardInduction
<1>10. PICK c : CountsUpTo(a, f, sl, j, i + 1, c)
  <2>1. i + 1 \in i + 1 .. j
    BY <1>1
  <2> QED  BY <1>9, <2>1
<1>11. a.block[sl.head_block].next = s[i + 1]
  <2>1. i # n
    BY <1>1
  <2> QED  BY <1>1, <1>5, <2>1 DEF NextInChain
<1>12. InnerSize(a, sl) = c
  <2>1. f[<<s[i + 1], 0>>] = 0 + c /\ c \in Nat
    BY <1>10 DEF CountsUpTo
  <2> QED  BY <1>3, <1>11, <2>1
<1> QED  BY <1>10, <1>12 DEF CountsUpTo

LEMMA WholeArenaCounted ==
  ASSUME MemoryFits, NEW a, SoundArena(a)
  PROVE  Counted(a, SliceOfArena(a), ToSet(SlicePtrs(a, SliceOfArena(a))))
<1> DEFINE dest == [head_block |-> a.head_block, tail_block |-> a.tail_block,
                    head_offset |-> a.block[a.head_block].left_offset,
                    tail_offset |-> a.block[a.tail_block].right_offset, size |-> 0]
           t == InitSlice(a, dest)
           n == a.block_count
           hb == a.head_block
           tb == a.tail_block
           left == a.block[hb].left_offset
           right == a.block[tb].right_offset
           used == a.block[hb].right_offset
           inner == InnerSize(a, dest)
           first == PartOf(a, t, hb)
           middle == RangeOver(a, t, 2, n - 1)
           last == PartOf(a, t, tb)
<1>1. /\ n \in Nat /\ n >= 1 /\ hb \in a.live /\ hb \in Blocks /\ tb \in a.live /\ tb \in Blocks
      /\ a.block[hb].size = BlockSize /\ a.block[tb].left_offset \in Nat
      /\ left \in Nat /\ used \in Nat /\ left <= used /\ used <= BlockSize
      /\ right \in Nat /\ a.block[tb].left_offset <= right
      /\ BlockSize \in Nat /\ SizeMod \in Nat \ {0} /\ BlockSize < SizeMod
      /\ Chain(a)[1] = hb /\ Chain(a)[n] = tb
  BY ArenaEnds, SliceConstants, ChainOnce
<1>2. /\ dest \in Slices /\ dest.head_block = hb /\ dest.tail_block = tb
      /\ dest.head_offset = left /\ dest.tail_offset = right
  BY <1>1 DEF Slices
<1>3. SliceOfArena(a) = t
  BY DEF SliceOfArena
<1> HIDE DEF dest
<1>4. /\ t \in Slices /\ t.head_block = hb /\ t.tail_block = tb
      /\ t.head_offset = left /\ t.tail_offset = right /\ t.size = SliceSize(a, dest)
  <2>1. t.size = SliceSize(a, dest)
    BY <1>2 DEF InitSlice, Slices
  <2> QED  BY <1>1, <1>2, <2>1, InitSliceIs DEF SoundArena
<1> HIDE DEF t
<1>5. 1 \in 1 .. n /\ n \in 1 .. n
  BY <1>1
<1>6. Spans(a, t, 1, n) /\ Spans(a, dest, 1, n)
  BY <1>1, <1>2, <1>4, <1>5 DEF Spans
<1>7. Fits(a, t)
  BY <1>1, <1>4 DEF Fits
<1> DEFINE x == Spanned(t, 1, n)
           bytes == RangeOver(a, t, 1, n)
<1>8. x \in Int /\ x < SizeMod /\ ToSet(SlicePtrs(a, t)) = bytes
  BY <1>4, <1>6, <1>7, SpanFits, SliceBytes
<1> SUFFICES Counted(a, t, bytes)
  BY <1>3, <1>8
(* It is enough to count what is reduced to a size_t. *)
<1>9. ASSUME NEW c \in Int, SliceSize(a, dest) = c % SizeMod,
             IsFiniteSet(bytes), Cardinality(bytes) <= c, c <= x
      PROVE  Counted(a, t, bytes)
  <2>1. Cardinality(bytes) \in Nat
    BY <1>9, FS_CardinalityType
  <2>2. c \in 0 .. SizeMod - 1
    <3> HIDE DEF x, bytes
    <3> QED  BY <1>1, <1>8, <1>9, <2>1
  <2>3. t.size = c
    BY <1>1, <1>4, <1>9, <2>2, ModIs
  <2> QED  BY <1>5, <1>6, <1>9, <2>3 DEF Counted
<1>10. CASE n = 1
  <2>1. hb = tb
    BY <1>1, <1>10
  <2>2. right - left \in Int /\ SliceSize(a, dest) = (right - left) % SizeMod
    BY <1>1, <1>2, <2>1 DEF SliceSize
  <2>3. x = right - left
    <3>1. (n - 1) * BlockSize = 0
      BY <1>1, <1>10
    <3> QED  BY <1>1, <1>4, <3>1 DEF Spanned
  <2>4. bytes = Part(hb, left, right)
    <3>1. 1 .. n = {1}
      BY <1>10
    <3>2. bytes = PartOf(a, t, hb)
      BY <1>1, <3>1 DEF RangeOver
    <3> QED  BY <1>4, <2>1, <3>2 DEF PartOf, FromOff, ToOff
  <2>5. left <= right /\ left \in Int /\ right \in Int
    BY <1>1, <2>1
  <2>6. IsFiniteSet(bytes) /\ Cardinality(bytes) <= right - left
    <3> HIDE DEF bytes
    <3> QED  BY <2>4, <2>5, PartCount
  <2>7. right - left <= x
    BY <2>2, <2>3
  <2> QED  BY <1>9, <2>2, <2>6, <2>7
<1>11. CASE n # 1
  <2>1. 1 < n /\ 1 + 1 = 2 /\ 1 \in Int /\ n \in Int /\ 2 \in Int /\ n - 1 \in Int
        /\ 1 <= n /\ 2 <= n
    BY <1>1, <1>11
  <2>2. hb # tb
    BY <1>1, <1>5, <1>11, ChainOnce
  <2>3. /\ inner \in Nat /\ inner <= (n - 2) * BlockSize
        /\ IsFiniteSet(middle) /\ Cardinality(middle) <= inner
    <3>1. /\ inner \in Nat /\ inner <= (n - (1 + 1)) * BlockSize
          /\ IsFiniteSet(RangeOver(a, dest, 1 + 1, n - 1))
          /\ Cardinality(RangeOver(a, dest, 1 + 1, n - 1)) <= inner
      <4> HIDE DEF inner, n
      <4> QED  BY <1>6, <2>1, InnerCounts DEF inner
    <3>2. RangeOver(a, dest, 2, n - 1) = middle
      BY <1>2, <1>4 DEF RangeOver, PartOf, FromOff, ToOff
    <3> QED  BY <2>1, <3>1, <3>2
  <2> DEFINE c == BlockSize - left + inner + right
             y == (n - 2) * BlockSize
  <2>4. SliceSize(a, dest) = c % SizeMod
    BY <1>1, <1>2, <2>2 DEF SliceSize
  <2>5. c \in Int /\ c <= x
    <3>1. (n - 1) * BlockSize = y + BlockSize /\ y \in Int
      BY <1>1
    <3>2. x = (y + BlockSize) + right - left
      BY <1>4, <3>1 DEF Spanned
    <3> HIDE DEF y, x, inner, left, right
    <3> QED  BY <1>1, <2>3, <3>1, <3>2 DEF y
  <2>6. IsFiniteSet(first) /\ Cardinality(first) <= used - left
    <3>1. first = Part(hb, left, used)
      BY <1>4, <2>2 DEF PartOf, FromOff, ToOff
    <3>2. left \in Int /\ used \in Int /\ left <= used
      BY <1>1
    <3> HIDE DEF first, left, used
    <3> QED  BY <3>1, <3>2, PartCount
  <2>7. IsFiniteSet(last) /\ Cardinality(last) <= right
    <3> DEFINE from == a.block[tb].left_offset
    <3>1. last = Part(tb, from, right)
      BY <1>4, <2>2 DEF PartOf, FromOff, ToOff
    <3>2. from \in Int /\ right \in Int /\ from <= right /\ right - from <= right
      BY <1>1
    <3> HIDE DEF last, from, right
    <3>3. IsFiniteSet(last) /\ Cardinality(last) <= right - from
      BY <3>1, <3>2, PartCount
    <3>4. Cardinality(last) \in Nat
      BY <3>3, FS_CardinalityType
    <3> QED  BY <3>2, <3>3, <3>4
  <2>8. bytes = (first \cup middle) \cup last
    <3>1. bytes = first \cup RangeOver(a, t, 2, n)
      BY <1>1, <2>1, RangeFirst
    <3>2. RangeOver(a, t, 2, n) = middle \cup last
      BY <1>1, <2>1, RangeLast
    <3> QED  BY <3>1, <3>2
  <2> HIDE DEF first, middle, last, inner, bytes, x
  <2>9. used - left \in Int /\ inner \in Int /\ right \in Int
    BY <1>1, <2>3
  <2>10. IsFiniteSet(first \cup middle)
         /\ Cardinality(first \cup middle) <= (used - left) + inner
    BY <2>3, <2>6, <2>9, UnionCount
  <2>11. (used - left) + inner \in Int
    BY <2>9
  <2>12. IsFiniteSet((first \cup middle) \cup last)
         /\ Cardinality((first \cup middle) \cup last) <= ((used - left) + inner) + right
    BY <2>7, <2>9, <2>10, <2>11, UnionCount
  <2>13. Cardinality(bytes) \in Nat /\ IsFiniteSet(bytes)
    BY <2>8, <2>12, FS_CardinalityType
  <2>14. Cardinality(bytes) <= c
    BY <1>1, <2>3, <2>8, <2>12, <2>13
  <2> HIDE DEF c
  <2> QED  BY <1>9, <2>4, <2>5, <2>13, <2>14
<1> QED  BY <1>10, <1>11

LEMMA InitCountIInv ==
  ASSUME SlicesInit
  PROVE  CountIInv
BY DEF SlicesInit, CountIInv

(* A step gives slice s a new value; the others count what they counted.    *)
LEMMA OneSliceCounted ==
  ASSUME SliceIInv, CountIInv, SoundArena(arena'),
         arena' = arena \/ ChainMoved(arena, arena'),
         NEW s \in SliceIds, NEW t, NEW bytes, Counted(arena', t, bytes),
         slices' = [slices EXCEPT ![s] = t], own' = [own EXCEPT ![s] = bytes]
  PROVE  CountIInv'
<1> SUFFICES ASSUME NEW q \in SliceIds, slices'[q] # Null
             PROVE  Counted(arena', slices'[q], own'[q])
  BY DEF CountIInv
<1>1. CASE q = s
  <2>1. slices'[q] = t /\ own'[q] = bytes
    BY <1>1 DEF SliceIInv, SlicesTypeOK
  <2> QED  BY <2>1
<1>2. CASE q # s
  <2>1. slices'[q] = slices[q] /\ own'[q] = own[q]
    BY <1>2 DEF SliceIInv, SlicesTypeOK
  <2>2. SoundArena(arena) /\ slices[q] \in Slices /\ Counted(arena, slices[q], own[q])
    BY <2>1 DEF SliceIInv, Kept, CountIInv
  <2>3. Counted(arena', slices[q], own[q])
    BY <2>2, StillCounted
  <2> QED  BY <2>1, <2>3
<1> QED  BY <1>1, <1>2

LEMMA AllocMovesChain ==
  ASSUME SliceIInv, NEW n \in Requests,
         arena' \in AllocAtHead(arena, n) \/ arena' \in AllocAtTail(arena, n)
  PROVE  SoundArena(arena') /\ ChainMoved(arena, arena')
<1>1. SoundArena(arena) /\ SoundArena(arena') /\ n \in 1 .. BlockSize
  BY StillSound DEF SliceIInv
<1>2. \/ HeadLowered(arena, arena', n) \/ HeadAdded(arena, arena', n)
      \/ TailRaised(arena, arena', n) \/ TailAdded(arena, arena', n)
  BY <1>1, HeadAllocated, TailAllocated
<1> QED  BY <1>1, <1>2, AllocMoves

LEMMA BecomeCounted ==
  ASSUME SliceIInv, CountIInv, NEW s \in SliceIds, NEW t,
         Counted(arena, t, ToSet(SlicePtrs(arena, t))), Become(s, t)
  PROVE  CountIInv'
<1> DEFINE bytes == ToSet(SlicePtrs(arena, t))
<1>1. /\ slices' = [slices EXCEPT ![s] = t] /\ own' = [own EXCEPT ![s] = bytes]
      /\ arena' = arena /\ SoundArena(arena') /\ Counted(arena', t, bytes)
  BY DEF Become, SliceIInv
<1> HIDE DEF bytes
<1> QED  BY <1>1, OneSliceCounted

LEMMA TakePartCountIInv ==
  ASSUME MemoryFits, SliceIInv, CountIInv, NEW s \in SliceIds, TakePart(s)
  PROVE  CountIInv'
<1>1. PICK b \in arena.live :
        \E from, to \in arena.block[b].left_offset .. arena.block[b].right_offset :
          /\ from <= to
          /\ Become(s, InitSlice(arena,
                         [head_block |-> b, tail_block |-> b, head_offset |-> from,
                          tail_offset |-> to, size |-> 0]))
  BY DEF TakePart
<1>2. PICK from \in arena.block[b].left_offset .. arena.block[b].right_offset,
           to \in arena.block[b].left_offset .. arena.block[b].right_offset :
          /\ from <= to
          /\ Become(s, InitSlice(arena,
                         [head_block |-> b, tail_block |-> b, head_offset |-> from,
                          tail_offset |-> to, size |-> 0]))
  BY <1>1
<1> DEFINE t == InitSlice(arena, [head_block |-> b, tail_block |-> b,
                                  head_offset |-> from, tail_offset |-> to, size |-> 0])
<1>3. from <= to /\ Become(s, t) /\ SoundArena(arena)
  BY <1>2 DEF SliceIInv
<1>4. Counted(arena, t, ToSet(SlicePtrs(arena, t)))
  BY <1>3, PartCounted
<1> HIDE DEF t
<1> QED  BY <1>3, <1>4, BecomeCounted

LEMMA SliceAllocCountIInv ==
  ASSUME MemoryFits, SliceIInv, CountIInv, NEW s \in SliceIds, NEW n \in Requests,
         SliceAllocHead(s, n) \/ SliceAllocTail(s, n)
  PROVE  CountIInv'
<1> DEFINE sl == slices[s]
           h == arena'
<1>1. CASE UNCHANGED slices_vars
  BY <1>1 DEF slices_vars, CountIInv
<1>2. CASE SliceAllocHead(s, n) /\ ~UNCHANGED slices_vars
  <2> DEFINE t == MovedHead(h, sl, n)
             bytes == own[s] \cup Bytes(HeadPtr(h), n)
  <2>1. /\ h \in AllocAtHead(arena, n) /\ ~LostHead(arena, sl) /\ sl # Null
        /\ slices' = [slices EXCEPT ![s] = t] /\ own' = [own EXCEPT ![s] = bytes]
    BY <1>2 DEF SliceAllocHead, SliceIInv, SlicesTypeOK
  <2>2. /\ sl \in Slices /\ Owns(arena, sl, own[s]) /\ SoundArena(arena)
        /\ Counted(arena, sl, own[s])
    BY <2>1 DEF SliceIInv, Kept, CountIInv
  <2>3. SoundArena(h) /\ n \in 1 .. BlockSize /\ ChainMoved(arena, h)
    BY <2>1, StillSound, AllocMovesChain
  <2>4. HeadLowered(arena, h, n) \/ HeadAdded(arena, h, n)
    BY <2>1, <2>2, <2>3, HeadAllocated
  <2>5. Counted(h, t, bytes)
    <3> HIDE DEF sl
    <3> QED  BY <2>1, <2>2, <2>3, <2>4, HeadAllocCounted
  <2> HIDE DEF t, bytes, sl
  <2> QED  BY <2>1, <2>3, <2>5, OneSliceCounted
<1>3. CASE SliceAllocTail(s, n) /\ ~UNCHANGED slices_vars
  <2> DEFINE t == MovedTail(h, sl, n)
             bytes == own[s] \cup Bytes(TailPtr(h, n), n)
  <2>1. /\ h \in AllocAtTail(arena, n) /\ ~LostTail(arena, sl) /\ sl # Null
        /\ slices' = [slices EXCEPT ![s] = t] /\ own' = [own EXCEPT ![s] = bytes]
    BY <1>3 DEF SliceAllocTail, SliceIInv, SlicesTypeOK
  <2>2. /\ sl \in Slices /\ Owns(arena, sl, own[s]) /\ SoundArena(arena)
        /\ Counted(arena, sl, own[s])
    BY <2>1 DEF SliceIInv, Kept, CountIInv
  <2>3. SoundArena(h) /\ n \in 1 .. BlockSize /\ ChainMoved(arena, h)
    BY <2>1, StillSound, AllocMovesChain
  <2>4. TailRaised(arena, h, n) \/ TailAdded(arena, h, n)
    BY <2>1, <2>2, <2>3, TailAllocated
  <2>5. Counted(h, t, bytes)
    <3> HIDE DEF sl
    <3> QED  BY <2>1, <2>2, <2>3, <2>4, TailAllocCounted
  <2> HIDE DEF t, bytes, sl
  <2> QED  BY <2>1, <2>3, <2>5, OneSliceCounted
<1> QED  BY <1>1, <1>2, <1>3

LEMMA GrowCountIInv ==
  ASSUME MemoryFits, SliceIInv, CountIInv, NEW s \in SliceIds, Grow(s)
  PROVE  CountIInv'
<1> DEFINE sl == slices[s]
           t == GrowSliceTail(arena, sl, 1)
           bytes == own[s] \cup NextByte(sl)
<1>1. /\ sl # Null /\ NextByte(sl) # {} /\ arena' = arena
      /\ slices' = [slices EXCEPT ![s] = t] /\ own' = [own EXCEPT ![s] = bytes]
  BY DEF Grow, SliceIInv, SlicesTypeOK
<1>2. /\ sl \in Slices /\ Owns(arena, sl, own[s]) /\ SoundArena(arena)
      /\ Counted(arena, sl, own[s])
  BY <1>1 DEF SliceIInv, Kept, CountIInv
<1>3. Counted(arena, t, bytes)
  <2> HIDE DEF sl
  <2> QED  BY <1>1, <1>2, GrowCounted
<1> HIDE DEF sl, t, bytes
<1>4. SoundArena(arena') /\ Counted(arena', t, bytes)
  BY <1>1, <1>2, <1>3
<1> QED  BY <1>1, <1>4, OneSliceCounted

LEMMA NextCountIInv ==
  ASSUME MemoryFits, SliceIInv, CountIInv, [SlicesNext]_slices_vars
  PROVE  CountIInv'
<1>1. ASSUME NEW s \in SliceIds, TakeArena(s)
      PROVE  CountIInv'
  <2>1. LET t == SliceOfArena(arena) IN Counted(arena, t, ToSet(SlicePtrs(arena, t)))
    BY WholeArenaCounted DEF SliceIInv
  <2> QED  BY <1>1, <2>1, BecomeCounted DEF TakeArena
<1>2. ASSUME NEW s \in SliceIds, TakePart(s) \/ Grow(s)
      PROVE  CountIInv'
  BY <1>2, TakePartCountIInv, GrowCountIInv
<1>3. ASSUME NEW s \in SliceIds, NEW n \in Requests, SliceAllocHead(s, n) \/ SliceAllocTail(s, n)
      PROVE  CountIInv'
  BY <1>3, SliceAllocCountIInv
<1>4. ASSUME NEW n \in Requests, AllocHead(n) \/ AllocTail(n)
      PROVE  CountIInv'
  <2>1. slices' = slices /\ own' = own /\ SoundArena(arena') /\ ChainMoved(arena, arena')
    BY <1>4, AllocMovesChain DEF AllocHead, AllocTail
  <2> SUFFICES ASSUME NEW q \in SliceIds, slices[q] # Null
               PROVE  Counted(arena', slices[q], own[q])
    BY <2>1 DEF CountIInv
  <2>2. SoundArena(arena) /\ slices[q] \in Slices /\ Counted(arena, slices[q], own[q])
    BY DEF SliceIInv, Kept, CountIInv
  <2> QED  BY <2>1, <2>2, StillCounted
<1>5. CASE Reset
  BY <1>5 DEF Reset, CountIInv
<1>6. CASE UNCHANGED slices_vars
  BY <1>6 DEF slices_vars, CountIInv
<1> QED  BY <1>1, <1>2, <1>3, <1>4, <1>5, <1>6 DEF SlicesNext

(* A slice's size, which strings report as their length, counts every byte  *)
(* the slice owns and none twice (_lf_get_arena_slice_size and the size +=   *)
(* of the allocations), in a memory smaller than what a size_t counts.      *)
THEOREM SliceSizeCounts ==
  ASSUME MemoryFits
  PROVE  SlicesSpec => []SizeCounts
<1>1. SliceIInv /\ CountIInv => SizeCounts
  <2> SUFFICES ASSUME SliceIInv, CountIInv, NEW s \in InUse
               PROVE  LET At(b) == CHOOSE i \in 1 .. arena.block_count : Chain(arena)[i] = b
                          sl == slices[s]
                      IN  /\ Cardinality(own[s]) <= sl.size
                          /\ sl.size <= (At(sl.tail_block) - At(sl.head_block)) * BlockSize
                                          + sl.tail_offset - sl.head_offset
    BY DEF SizeCounts
  <2> DEFINE At(b) == CHOOSE i \in 1 .. arena.block_count : Chain(arena)[i] = b
             sl == slices[s]
  <2>1. Counted(arena, sl, own[s]) /\ SoundArena(arena)
    BY DEF CountIInv, SliceIInv, InUse
  <2>2. PICK i, j \in 1 .. arena.block_count :
          Spans(arena, sl, i, j) /\ sl.size <= Spanned(sl, i, j)
    BY <2>1 DEF Counted
  <2>3. At(sl.head_block) = i /\ At(sl.tail_block) = j
    BY <2>1, <2>2, ChainOnce DEF Spans
  <2> HIDE DEF At, sl
  <2>4. /\ Cardinality(own[s]) <= sl.size
        /\ sl.size <= (At(sl.tail_block) - At(sl.head_block)) * BlockSize
                        + sl.tail_offset - sl.head_offset
    BY <2>1, <2>2, <2>3 DEF Counted, Spanned
  <2> QED  BY <2>4 DEF At, sl
<1>2. SlicesInit => CountIInv
  BY InitCountIInv
<1>3. SliceIInv /\ CountIInv /\ [SlicesNext]_slices_vars => CountIInv'
  BY NextCountIInv
<1> QED  BY <1>1, <1>2, <1>3, SpecSliceIInv, PTL DEF SlicesSpec

-----------------------------------------------------------------------------
(* The places of the source's characters: the i-th is in the block          *)
(* InBlock(i, q) of the chain, at InOffset(i, q).                           *)
InBlock(i, q) == ((i - 1) \div q) + 1
InOffset(i, q) == (i - 1) % q
Place(a, i) == [block |-> Chain(a)[InBlock(i, a.block_size)], off |-> InOffset(i, a.block_size)]

Laid(a, d, s) ==
  LET q == s.block_size
  IN  /\ ArenaOK(a) /\ a.block_size = q /\ q \in 1 .. SizeMod - 1
      /\ s.text \in Seq(Letters \cup {Space})
      /\ Len(s.text) = a.block_count * q /\ Len(s.text) < SizeMod
      /\ \A b \in a.live : a.block[b].left_offset = 0 /\ a.block[b].right_offset = q
      /\ \A i \in 1 .. Len(s.text) : CharAt(d, Place(a, i)) = s.text[i]

PlaceOrEnd(a, s, i) == IF i <= Len(s.text) THEN Place(a, i) ELSE Null
AtPlace(i) == at = PlaceOrEnd(src, source, i)

(* The lexeme in progress ends at or before place i. *)
EndsBefore(a, sl, i) ==
  \E k \in 1 .. InBlock(i, a.block_size) :
     /\ Chain(a)[k] = sl.tail_block
     /\ k = InBlock(i, a.block_size) => sl.tail_offset <= InOffset(i, a.block_size)

ScansAt(i) ==
  /\ i \in 1 .. Len(source.text) + 1 /\ AtPlace(i)
  /\ cur_lexeme # Null /\ i <= Len(source.text) => EndsBefore(src, lexemes[cur_lexeme], i)

TokenTypes == {"STR", "IDENTIFIER", "EOF", "USE", "FUNC", "ENTRY", "EQUAL", "BANG",
               "UNKNOWN"} \cup HardTypes
Tokens == [type: TokenTypes, lexeme: Nat \cup {Null, Junk}]

(* Of n lexemes, the tokens of a sequence have what they may have; one with *)
(* a text has a lexeme, and it is not cur, the one in progress.             *)
HasText(token) == token.type \in {"STR", "IDENTIFIER"}
TokenKept(token, n, cur) ==
  /\ token.lexeme \in 1 .. n \cup {Null, Junk}
  /\ HasText(token) => token.lexeme \in 1 .. n /\ token.lexeme # cur
TokensKept(ts, n, cur) ==
  ts \in Seq(Tokens) /\ \A t \in 1 .. Len(ts) : TokenKept(ts[t], n, cur)

LexTypeIInv ==
  /\ Laid(src, data, source)
  /\ TypeOK
  /\ status = "lexing" /\ is_reading_str => cur_lexeme # Null
  /\ TokensKept(tokens, Len(lexemes), cur_lexeme)
  /\ \E i \in 1 .. Len(source.text) + 1 : ScansAt(i)

(* The lexeme designates the characters from p to j. *)
Covers(a, sl, p, j) ==
  /\ sl.head_block = Place(a, p).block /\ sl.head_offset = Place(a, p).off
  /\ sl.tail_block = Place(a, j).block /\ sl.tail_offset = Place(a, j).off + 1
Holds(sl, p, j) == sl \in Slices /\ Covers(src, sl, p, j) /\ sl.size = j - p + 1

Lexable == WellQuoted(source) /\ WellWorded(source) /\ OneLetterWords(source) = {}

(* The i-th character is next: between tokens, in a word or in a string that *)
(* starts at p.                                                              *)
OddQuotes(t, i) == QuotesBefore(t, i) % 2 = 1

Idle(i) ==
  /\ cur_lexeme = Null /\ ~is_reading_str
  /\ i = 1 \/ ~IsWordChar(source.text, i - 1)
  /\ View = TokensBefore(source.text, i)

InWord(i, p) ==
  /\ cur_lexeme # Null /\ ~is_reading_str
  /\ p \in WordStarts(source.text) /\ \A k \in p .. i - 1 : IsWordChar(source.text, k)
  /\ Holds(lexemes[cur_lexeme], p, i - 1)
  /\ Append(View, TokenAt(source.text, p)) = TokensBefore(source.text, i)

InQuotes(i, p) ==
  /\ cur_lexeme # Null /\ is_reading_str
  /\ p < i - 1 /\ Opens(source.text, p)
  /\ \A k \in p + 1 .. i - 1 : IsQuoted(source.text, k)
  /\ Holds(lexemes[cur_lexeme], p + 1, i - 1)
  /\ Append(View, TokenAt(source.text, p)) = TokensBefore(source.text, i)

Scanned(i) ==
  /\ i \in 1 .. Len(source.text) + 1 /\ AtPlace(i)
  /\ is_reading_str <=> OddQuotes(source.text, i)
  /\ Idle(i) \/ \E p \in 1 .. i - 1 : InWord(i, p) \/ InQuotes(i, p)

ScanIInv ==
  Lexable =>
    /\ status = "lexing" => \E i \in 1 .. Len(source.text) + 1 : Scanned(i)
    /\ status # "lexing" => View = TokensOf(source.text)
-----------------------------------------------------------------------------
LEMMA ModOf ==
  ASSUME NEW d \in Nat \ {0}, NEW q \in Int, NEW r \in 0 .. d - 1
  PROVE  (q * d + r) % d = r
OBVIOUS

IsPlace(i, q, k, o) == i = (k - 1) * q + o + 1

LEMMA PlaceOf ==
  ASSUME NEW q \in Nat \ {0}, NEW k \in Nat \ {0}, NEW o \in 0 .. q - 1,
         NEW i, IsPlace(i, q, k, o)
  PROVE  InBlock(i, q) = k /\ InOffset(i, q) = o /\ i \in Nat \ {0}
<1> DEFINE m == (k - 1) * q
<1>1. m \in Nat /\ k - 1 \in Nat
  OBVIOUS
<1>2. (m + o) \div q = k - 1 /\ (m + o) % q = o
  BY <1>1, DivIs, ModOf
<1>3. i - 1 = m + o
  BY <1>1 DEF IsPlace
<1> QED  BY <1>1, <1>2, <1>3 DEF InBlock, InOffset, IsPlace

LEMMA PlaceSplit ==
  ASSUME NEW q \in Nat \ {0}, NEW n \in Nat, NEW i \in 1 .. n * q
  PROVE  /\ InBlock(i, q) \in 1 .. n /\ InOffset(i, q) \in 0 .. q - 1
         /\ i = (InBlock(i, q) - 1) * q + InOffset(i, q) + 1
<1> DEFINE k == (i - 1) \div q
           o == (i - 1) % q
<1>1. k \in Int /\ o \in 0 .. q - 1 /\ i - 1 = k * q + o
  OBVIOUS
<1>2. n * q \in Nat /\ i - 1 >= 0 /\ i - 1 < n * q
  OBVIOUS
<1> HIDE DEF k, o
<1>3. k >= 0 /\ k < n
  BY <1>1, <1>2
<1> QED  BY <1>1, <1>3 DEF InBlock, InOffset, k, o

(* From one place to the next. *)
LEMMA PlaceNext ==
  ASSUME NEW q \in Nat \ {0}, NEW n \in Nat, NEW i \in 1 .. n * q
  PROVE  /\ InOffset(i, q) + 1 < q =>
              /\ InBlock(i + 1, q) = InBlock(i, q)
              /\ InOffset(i + 1, q) = InOffset(i, q) + 1
              /\ i + 1 \in 1 .. n * q
         /\ InOffset(i, q) + 1 >= q =>
              /\ InBlock(i + 1, q) = InBlock(i, q) + 1
              /\ InOffset(i + 1, q) = 0
              /\ i = n * q <=> InBlock(i, q) = n
<1> DEFINE k == InBlock(i, q)
           o == InOffset(i, q)
<1>1. k \in 1 .. n /\ o \in 0 .. q - 1 /\ i = (k - 1) * q + o + 1
  BY PlaceSplit
<1> HIDE DEF k, o
<1>2. CASE o + 1 < q
  <2>1. k \in Nat \ {0} /\ o + 1 \in 0 .. q - 1 /\ IsPlace(i + 1, q, k, o + 1)
    BY <1>1, <1>2 DEF IsPlace
  <2>2. InBlock(i + 1, q) = k /\ InOffset(i + 1, q) = o + 1
    BY <1>1, <2>1, PlaceOf
  <2>3. i + 1 \in 1 .. n * q
    <3>1. (k - 1) * q + q = k * q /\ k * q <= n * q /\ k * q \in Int
      BY <1>1
    <3> QED  BY <1>1, <1>2, <3>1
  <2> QED  BY <1>1, <1>2, <2>2, <2>3 DEF k, o
<1>3. CASE o + 1 >= q
  <2>1. (k - 1) * q + q = k * q /\ k * q \in Int
    BY <1>1
  <2>2. i = k * q
    BY <1>1, <1>3, <2>1
  <2>3. 0 \in 0 .. q - 1 /\ k + 1 \in Nat \ {0} /\ IsPlace(i + 1, q, k + 1, 0)
    BY <1>1, <2>2 DEF IsPlace
  <2>4. InBlock(i + 1, q) = k + 1 /\ InOffset(i + 1, q) = 0
    BY <2>3, PlaceOf
  <2>5. i = n * q <=> k = n
    BY <1>1, <2>2
  <2> QED  BY <1>1, <1>3, <2>4, <2>5 DEF k, o
<1> QED  BY <1>1, <1>2, <1>3 DEF o, k

(* The blocks of a source are full. *)
LEMMA LaidFacts ==
  ASSUME NEW a, NEW d, NEW s, Laid(a, d, s)
  PROVE  /\ ArenaOK(a) /\ a \in Arenas /\ a.live \subseteq Blocks
         /\ a.block_count \in Nat \ {0} /\ a.block_size = s.block_size
         /\ s.block_size \in Nat \ {0} /\ s.block_size \in 1 .. SizeMod - 1
         /\ Len(s.text) \in Nat \ {0} /\ Len(s.text) = a.block_count * s.block_size
         /\ \A b \in a.live : /\ a.block[b].left_offset = 0 /\ a.block[b].size = s.block_size
                              /\ a.block[b].right_offset = s.block_size
         /\ \A k \in 1 .. a.block_count :
              Chain(a)[k] \in a.live
                /\ a.block[Chain(a)[k]].next = NextInChain(Chain(a), a.block_count, k)
         /\ \A j, k \in 1 .. a.block_count : Chain(a)[j] = Chain(a)[k] => j = k
         /\ Chain(a)[1] = a.head_block /\ Chain(a)[a.block_count] = a.tail_block
<1> DEFINE q == s.block_size
<1>1. /\ ArenaOK(a) /\ a.block_size = q /\ q \in 1 .. SizeMod - 1
      /\ Len(s.text) = a.block_count * q
      /\ \A b \in a.live : a.block[b].left_offset = 0 /\ a.block[b].right_offset = q
  BY DEF Laid
<1>2. a \in Arenas /\ a.live \subseteq Blocks /\ a.block_count \in Nat /\ Chained(a)
  BY <1>1 DEF ArenaOK, Arenas
<1>3. a.block_count >= 1
  BY <1>2 DEF Chained
<1>4. \A b \in a.live : a.block[b].size = q
  BY <1>1 DEF ArenaOK, InBounds
<1>5. Chain(a) \in [1 .. a.block_count -> a.live] /\ IsChain(a, Chain(a))
  BY <1>2, ChainOfChained
<1>6. /\ \A j, k \in 1 .. a.block_count : Chain(a)[j] = Chain(a)[k] => j = k
      /\ Chain(a)[1] = a.head_block /\ Chain(a)[a.block_count] = a.tail_block
      /\ \A k \in 1 .. a.block_count :
           a.block[Chain(a)[k]].next = NextInChain(Chain(a), a.block_count, k)
  BY <1>5 DEF IsChain, NextInChain
<1>7. q \in Nat \ {0}
  BY <1>1, SizeModAssumption
<1>9. \A k \in 1 .. a.block_count : Chain(a)[k] \in a.live
  BY <1>5
<1>8. Len(s.text) \in Nat \ {0}
  <2>1. a.block_count * q \in Nat \ {0}
    BY <1>2, <1>3, <1>7
  <2> QED  BY <1>1, <2>1
<1> QED  BY <1>1, <1>2, <1>3, <1>4, <1>6, <1>7, <1>8, <1>9

LEMMA PlaceIsIn ==
  ASSUME NEW a, NEW d, NEW s, Laid(a, d, s), NEW i \in 1 .. Len(s.text)
  PROVE  LET k == InBlock(i, s.block_size)
             o == InOffset(i, s.block_size)
         IN  /\ k \in 1 .. a.block_count /\ o \in 0 .. s.block_size - 1
             /\ i = (k - 1) * s.block_size + o + 1
             /\ Place(a, i) = [block |-> Chain(a)[k], off |-> o]
             /\ Place(a, i).block = Chain(a)[k] /\ Place(a, i).off = o
             /\ Chain(a)[k] \in a.live /\ Chain(a)[k] \in Blocks
             /\ Place(a, i) # Null
<1> DEFINE k == InBlock(i, s.block_size)
           o == InOffset(i, s.block_size)
<1>1. s.block_size \in Nat \ {0} /\ a.block_count \in Nat /\ i \in 1 .. a.block_count * s.block_size
      /\ a.block_size = s.block_size
  BY LaidFacts
<1>2. /\ k \in 1 .. a.block_count /\ o \in 0 .. s.block_size - 1
      /\ i = (k - 1) * s.block_size + o + 1
  BY <1>1, PlaceSplit
<1>3. Chain(a)[k] \in a.live /\ Chain(a)[k] \in Blocks
  BY <1>2, LaidFacts
<1>4. Place(a, i) = [block |-> Chain(a)[k], off |-> o]
  BY <1>1 DEF Place
<1> HIDE DEF k, o
<1>5. o \in Nat
  BY <1>1, <1>2
<1>6. Place(a, i) \in [block: Blocks, off: Nat]
  BY <1>3, <1>4, <1>5
<1> QED  BY <1>2, <1>3, <1>4, <1>6, NullAssumption DEF k, o

LEMMA FirstPlace ==
  ASSUME NEW a, NEW d, NEW s, Laid(a, d, s)
  PROVE  FirstChar(a, Null) = PlaceOrEnd(a, s, 1)
<1> DEFINE q == s.block_size
<1>1. q \in Nat \ {0} /\ Len(s.text) \in Nat \ {0} /\ a.block_size = q
      /\ Chain(a)[1] = a.head_block
  BY LaidFacts
<1>2. a.block[a.head_block].left_offset = 0
  <2>1. 1 \in 1 .. a.block_count
    BY LaidFacts
  <2> QED  BY <1>1, <2>1, LaidFacts
<1>3. InBlock(1, q) = 1 /\ InOffset(1, q) = 0
  <2>1. 0 \in 0 .. q - 1 /\ 1 \in Nat \ {0} /\ IsPlace(1, q, 1, 0)
    BY <1>1 DEF IsPlace
  <2> QED  BY <1>1, <2>1, PlaceOf
<1>4. Place(a, 1) = [block |-> a.head_block, off |-> 0]
  BY <1>1, <1>3 DEF Place
<1> QED  BY <1>1, <1>2, <1>4 DEF FirstChar, PlaceOrEnd

(* lf_iterate_string visits the places one after the other. *)
LEMMA NextPlace ==
  ASSUME NEW a, NEW d, NEW s, Laid(a, d, s), NEW i \in 1 .. Len(s.text)
  PROVE  NextChar(a, Null, PlaceOrEnd(a, s, i)) = PlaceOrEnd(a, s, i + 1)
<1> DEFINE q == s.block_size
           n == a.block_count
           k == InBlock(i, q)
           o == InOffset(i, q)
           p == Place(a, i)
<1>1. /\ q \in Nat \ {0} /\ n \in Nat \ {0} /\ Len(s.text) = n * q /\ Len(s.text) \in Nat
      /\ a.block_size = q /\ Chain(a)[n] = a.tail_block
  BY LaidFacts
<1>2. /\ k \in 1 .. n /\ o \in 0 .. q - 1 /\ p # Null
      /\ p = [block |-> Chain(a)[k], off |-> o]
      /\ p.block = Chain(a)[k] /\ p.off = o
  BY PlaceIsIn
<1>3. /\ a.block[a.tail_block].right_offset = q
      /\ a.block[Chain(a)[k]].next = NextInChain(Chain(a), n, k)
  <2>1. n \in 1 .. n
    BY <1>1
  <2> QED  BY <1>1, <1>2, <2>1, LaidFacts
<1>4. p.block = a.tail_block <=> k = n
  BY <1>1, <1>2, LaidFacts
<1>5. PlaceOrEnd(a, s, i) = p
  BY <1>1 DEF PlaceOrEnd
<1>6. NextChar(a, Null, p)
        = IF o + 1 >= q /\ k = n THEN Null
          ELSE IF o + 1 >= q
          THEN [block |-> a.block[p.block].next,
                off |-> a.block[a.block[p.block].next].left_offset]
          ELSE [p EXCEPT !.off = @ + 1]
  BY <1>2, <1>3, <1>4 DEF NextChar
<1>7. i \in 1 .. n * q
  BY <1>1
<1> HIDE DEF k, o, p
<1>8. CASE o + 1 < q
  <2>1. /\ InBlock(i + 1, q) = k /\ InOffset(i + 1, q) = o + 1 /\ i + 1 <= Len(s.text)
    BY <1>1, <1>7, <1>8, PlaceNext DEF k, o
  <2>2. Place(a, i + 1) = [block |-> Chain(a)[k], off |-> o + 1]
    BY <1>1, <2>1 DEF Place
  <2>3. NextChar(a, Null, p) = [block |-> Chain(a)[k], off |-> o + 1]
    <3>1. ~(o + 1 >= q)
      BY <1>1, <1>2, <1>8
    <3>2. NextChar(a, Null, p) = [p EXCEPT !.off = @ + 1]
      BY <1>6, <3>1
    <3> QED  BY <1>2, <3>2
  <2> QED  BY <1>5, <2>1, <2>2, <2>3 DEF PlaceOrEnd
<1>9. CASE o + 1 >= q /\ k = n
  <2>1. i = n * q
    BY <1>1, <1>7, <1>9, PlaceNext DEF k, o
  <2>2. ~(i + 1 <= Len(s.text))
    BY <1>1, <2>1
  <2> QED  BY <1>5, <1>6, <1>9, <2>2 DEF PlaceOrEnd
<1>10. CASE o + 1 >= q /\ k # n
  <2>1. /\ InBlock(i + 1, q) = k + 1 /\ InOffset(i + 1, q) = 0 /\ i # n * q
    BY <1>1, <1>7, <1>10, PlaceNext DEF k, o
  <2>2. i + 1 <= Len(s.text)
    BY <1>1, <1>7, <2>1
  <2>3. k + 1 \in 1 .. n /\ a.block[p.block].next = Chain(a)[k + 1]
    BY <1>1, <1>2, <1>3, <1>10 DEF NextInChain
  <2>4. a.block[Chain(a)[k + 1]].left_offset = 0
    BY <2>3, LaidFacts
  <2>5. NextChar(a, Null, p) = [block |-> Chain(a)[k + 1], off |-> 0]
    BY <1>6, <1>10, <2>3, <2>4
  <2>6. Place(a, i + 1) = [block |-> Chain(a)[k + 1], off |-> 0]
    BY <1>1, <2>1 DEF Place
  <2> QED  BY <1>5, <2>2, <2>5, <2>6 DEF PlaceOrEnd
<1>11. o \in Int /\ q \in Int
  BY <1>1, <1>2
<1> QED  BY <1>8, <1>9, <1>10, <1>11

LEMMA NextOfNull ==
  ASSUME NEW a
  PROVE  NextChar(a, Null, Null) = Null
BY DEF NextChar
-----------------------------------------------------------------------------
IsSliceMade(g, sl, b, off, size) ==
  g = [sl EXCEPT !.tail_block = b, !.tail_offset = off, !.size = size]

LEMMA SliceMade ==
  ASSUME NEW sl \in Slices, NEW b \in Blocks, NEW off \in Nat, NEW size \in 0 .. SizeMod - 1,
         NEW g, IsSliceMade(g, sl, b, off, size)
  PROVE  /\ g \in Slices /\ g.tail_block = b /\ g.tail_offset = off /\ g.size = size
         /\ g.head_block = sl.head_block /\ g.head_offset = sl.head_offset
<1>1. sl = [head_block |-> sl.head_block, tail_block |-> sl.tail_block,
            head_offset |-> sl.head_offset, tail_offset |-> sl.tail_offset, size |-> sl.size]
  BY DEF Slices
<1>2. g = [head_block |-> sl.head_block, tail_block |-> b,
           head_offset |-> sl.head_offset, tail_offset |-> off, size |-> size]
  BY <1>1 DEF IsSliceMade
<1>3. sl.head_block \in Blocks /\ sl.head_offset \in Nat
  BY DEF Slices
<1> QED  BY <1>2, <1>3 DEF Slices

(* A lexeme that grows while the scan goes on stays behind it. *)
LEMMA LexemeGrows ==
  ASSUME NEW a, NEW d, NEW s, Laid(a, d, s), NEW i \in 1 .. Len(s.text),
         NEW sl \in Slices, EndsBefore(a, sl, i), NEW g, g = GrowSliceTail(a, sl, 1)
  PROVE  g \in Slices /\ EndsBefore(a, g, i + 1)
<1> DEFINE q == s.block_size
           n == a.block_count
           room == (a.block_size - sl.tail_offset) % SizeMod
<1>1. /\ ArenaOK(a) /\ a.live \subseteq Blocks /\ a.block_size = q /\ q \in 1 .. SizeMod - 1
      /\ n \in Nat \ {0} /\ q \in Nat \ {0} /\ Len(s.text) = n * q
      /\ \A k \in 1 .. n : Chain(a)[k] \in a.live
                             /\ a.block[Chain(a)[k]].next = NextInChain(Chain(a), n, k)
  BY LaidFacts
<1>2. PICK k \in 1 .. InBlock(i, q) :
         Chain(a)[k] = sl.tail_block /\ (k = InBlock(i, q) => sl.tail_offset <= InOffset(i, q))
  BY <1>1 DEF EndsBefore
<1> DEFINE m == InBlock(i, q)
           o == InOffset(i, q)
<1>3. m \in 1 .. n /\ o \in 0 .. q - 1
  BY PlaceIsIn
<1>4. /\ o + 1 < q => InBlock(i + 1, q) = m /\ InOffset(i + 1, q) = o + 1
      /\ o + 1 >= q => InBlock(i + 1, q) = m + 1 /\ InOffset(i + 1, q) = 0
  <2>1. i \in 1 .. n * q
    BY <1>1
  <2> QED  BY <1>1, <2>1, PlaceNext
<1>5. sl.tail_offset \in Nat /\ sl.size \in Nat /\ SizeMod \in Nat \ {0}
  BY SizeModAssumption DEF Slices
<1>6. k \in 1 .. n /\ k \in 1 .. m /\ m \in Nat /\ sl.tail_block \in a.live
  BY <1>1, <1>2, <1>3
<1>7. room # 0 => GrowsHere(a, sl)
  BY <1>1, <1>6, GrownByOne
<1>8. room = 0 /\ a.block[sl.tail_block].next # Null => GrowsInto(a, sl)
  BY <1>1, <1>6, GrownByOne
<1> DEFINE more == (sl.size + 1) % SizeMod
<1>9. more \in 0 .. SizeMod - 1
  <2>1. sl.size + 1 \in Int
    BY <1>5
  <2> QED  BY <1>5, <2>1, ModType
<1>10. k = m => room # 0
  <2> SUFFICES ASSUME k = m PROVE room # 0
    OBVIOUS
  <2> DEFINE x == q - sl.tail_offset
  <2>1. x \in 0 .. SizeMod - 1 /\ x # 0
    <3> HIDE DEF m, o
    <3> QED  BY <1>1, <1>2, <1>3, <1>5 DEF m, o
  <2>2. room = x % SizeMod
    BY <1>1
  <2> HIDE DEF x, room
  <2> QED  BY <1>5, <2>1, <2>2, ModIs
<1> HIDE DEF room
<1>11. CASE room # 0
  <2>1. IsSliceMade(g, sl, sl.tail_block, sl.tail_offset + 1, more)
    BY <1>7, <1>11 DEF GrowsHere, Slices, IsSliceMade
  <2> HIDE DEF more
  <2>2. g \in Slices /\ g.tail_block = sl.tail_block /\ g.tail_offset = sl.tail_offset + 1
    <3>1. sl.tail_block \in Blocks /\ sl.tail_offset + 1 \in Nat
      BY <1>1, <1>5, <1>6
    <3> QED  BY <1>9, <2>1, <3>1, SliceMade
  <2> HIDE DEF m, o
  <2>3. k \in 1 .. InBlock(i + 1, q)
        /\ (k = InBlock(i + 1, q) => sl.tail_offset + 1 <= InOffset(i + 1, q))
    BY <1>1, <1>2, <1>3, <1>4, <1>5, <1>6 DEF m, o
  <2> QED  BY <1>1, <1>2, <2>2, <2>3 DEF EndsBefore
<1>12. CASE room = 0
  <2>1. k # m
    BY <1>10, <1>12
  <2> HIDE DEF m, o
  <2>2. k # n /\ k + 1 \in 1 .. n /\ k + 1 \in 1 .. m
    BY <1>1, <1>3, <1>6, <2>1
  <2>3. /\ a.block[sl.tail_block].next = Chain(a)[k + 1]
        /\ Chain(a)[k + 1] \in Blocks /\ Chain(a)[k + 1] # Null
    BY <1>1, <1>2, <1>6, <2>2, NullAssumption, BlocksAssumption DEF NextInChain
  <2>4. IsSliceMade(g, sl, Chain(a)[k + 1], 1, more)
    BY <1>8, <1>12, <2>3 DEF GrowsInto, IsSliceMade
  <2> HIDE DEF more
  <2>5. g \in Slices /\ g.tail_block = Chain(a)[k + 1] /\ g.tail_offset = 1
    <3>1. 1 \in Nat
      OBVIOUS
    <3> QED  BY <1>9, <2>3, <2>4, <3>1, SliceMade
  <2>6. k + 1 \in 1 .. InBlock(i + 1, q)
        /\ (k + 1 = InBlock(i + 1, q) => 1 <= InOffset(i + 1, q))
    BY <1>1, <1>3, <1>4, <2>2
  <2> QED  BY <1>1, <2>5, <2>6 DEF EndsBefore
<1> QED  BY <1>11, <1>12

(* A new lexeme is one character of the iterator's block. *)
LexemeAt(a, p, skip) ==
  InitStringFromSlice(a, [head_block |-> p.block, tail_block |-> p.block,
                          head_offset |-> p.off + skip, tail_offset |-> p.off + skip + 1,
                          size |-> 0])

LEMMA NewLexemeIs ==
  ASSUME NEW a, NEW d, NEW s, Laid(a, d, s), NEW i \in 1 .. Len(s.text),
         NEW skip \in {0, 1}, NEW sl, sl = LexemeAt(a, Place(a, i), skip)
  PROVE  /\ sl \in Slices /\ sl.size = 1
         /\ sl.head_block = Place(a, i).block /\ sl.head_offset = Place(a, i).off + skip
         /\ sl.tail_block = Place(a, i).block /\ sl.tail_offset = Place(a, i).off + skip + 1
<1> DEFINE p == Place(a, i)
           b == p.block
           o == p.off + skip
           made == [head_block |-> b, tail_block |-> b,
                    head_offset |-> o, tail_offset |-> o + 1, size |-> 0]
<1>1. /\ s.block_size \in Nat /\ s.block_size \in 1 .. SizeMod - 1
  BY LaidFacts
<1>2. b \in Blocks /\ p.off \in Nat
  <2> DEFINE m == InBlock(i, s.block_size)
  <2>1. /\ p.block = Chain(a)[m] /\ Chain(a)[m] \in Blocks
        /\ p.off = InOffset(i, s.block_size) /\ InOffset(i, s.block_size) \in 0 .. s.block_size - 1
    BY PlaceIsIn
  <2> HIDE DEF m, p
  <2> QED  BY <1>1, <2>1
<1>3. o \in Nat
  BY <1>2
<1> HIDE DEF b, o
<1>4. SliceSize(a, made) = 1
  <2>1. SliceSize(a, made) = ((o + 1) - o) % SizeMod
    BY DEF SliceSize
  <2>2. (o + 1) - o = 1 /\ 1 \in 0 .. SizeMod - 1 /\ SizeMod \in Nat \ {0}
    BY <1>1, <1>3, SizeModAssumption
  <2>3. 1 % SizeMod = 1
    BY <2>2, ModIs
  <2> QED  BY <2>1, <2>2, <2>3
<1>5. sl = [made EXCEPT !.size = 1]
  <2>1. sl = [made EXCEPT !.size = SliceSize(a, made)]
    BY DEF LexemeAt, InitStringFromSlice, InitSlice, b, o
  <2> HIDE DEF made
  <2> QED  BY <1>4, <2>1
<1>6. 1 \in 0 .. SizeMod - 1
  BY <1>1, SizeModAssumption
<1>7. /\ sl \in Slices /\ sl.size = 1
      /\ sl.head_block = b /\ sl.head_offset = o /\ sl.tail_block = b /\ sl.tail_offset = o + 1
  BY <1>2, <1>3, <1>5, <1>6 DEF Slices
<1> QED  BY <1>7 DEF b, o

LEMMA NewLexemeEnds ==
  ASSUME NEW a, NEW d, NEW s, Laid(a, d, s), NEW i \in 1 .. Len(s.text),
         NEW skip \in {0, 1}, i + skip <= Len(s.text),
         NEW sl, sl = LexemeAt(a, Place(a, i), skip)
  PROVE  EndsBefore(a, sl, i + skip + 1)
<1> DEFINE q == s.block_size
           n == a.block_count
           m == InBlock(i, q)
           o == InOffset(i, q)
<1>1. /\ q \in Nat \ {0} /\ n \in Nat \ {0} /\ Len(s.text) = n * q /\ a.block_size = q
  BY LaidFacts
<1>2. m \in 1 .. n /\ o \in 0 .. q - 1 /\ Place(a, i).block = Chain(a)[m] /\ Place(a, i).off = o
  BY PlaceIsIn
<1>3. sl.tail_block = Chain(a)[m] /\ sl.tail_offset = o + skip + 1
  BY <1>2, NewLexemeIs
<1>4. i \in 1 .. n * q /\ i + skip \in 1 .. n * q
  BY <1>1
<1>5. /\ o + 1 < q => InBlock(i + 1, q) = m /\ InOffset(i + 1, q) = o + 1
      /\ o + 1 >= q => InBlock(i + 1, q) = m + 1
  BY <1>1, <1>4, PlaceNext
<1> DEFINE m2 == InBlock(i + skip, q)
           o2 == InOffset(i + skip, q)
<1>6. /\ o2 + 1 < q => InBlock(i + skip + 1, q) = m2 /\ InOffset(i + skip + 1, q) = o2 + 1
      /\ o2 + 1 >= q => InBlock(i + skip + 1, q) = m2 + 1
      /\ m2 \in 1 .. n /\ o2 \in 0 .. q - 1
  BY <1>1, <1>4, PlaceNext, PlaceSplit
<1>7. (m2 = m /\ o2 = o + skip) \/ m2 = m + 1
  <2>1. CASE skip = 0
    <3>1. i + skip = i
      BY <2>1
    <3> QED  BY <1>2, <2>1, <3>1
  <2>2. CASE skip = 1
    BY <1>1, <1>2, <1>5, <2>2
  <2> QED  BY <2>1, <2>2
<1> HIDE DEF m, o, m2, o2
<1>8. m \in 1 .. InBlock(i + skip + 1, q)
      /\ (m = InBlock(i + skip + 1, q) => o + skip + 1 <= InOffset(i + skip + 1, q))
  BY <1>1, <1>2, <1>6, <1>7
<1> QED  BY <1>1, <1>3, <1>8 DEF EndsBefore
-----------------------------------------------------------------------------
(* The tokens a step adds. *)
LEMMA HardTypeIs ==
  ASSUME NEW c
  PROVE  HardType(c) \in HardTypes \cup {"UNKNOWN"}
BY Zenon DEF HardType, HardTypes

LEMMA SoftTypeIs ==
  ASSUME NEW c
  PROVE  SoftType(c) \in {"EQUAL", "BANG", "UNKNOWN"}
BY Zenon DEF SoftType

LEMMA SmallTypesAre ==
  ASSUME NEW c
  PROVE  SmallTypes(c) \subseteq TokenTypes \ {"STR", "IDENTIFIER"}
<1>1. {"EQUAL", "BANG", "UNKNOWN"} \cup HardTypes \subseteq TokenTypes \ {"STR", "IDENTIFIER"}
  BY DEF TokenTypes, HardTypes
<1> QED  BY <1>1, HardTypeIs, SoftTypeIs DEF SmallTypes

LEMMA BigTypesAre ==
  ASSUME NEW sl
  PROVE  BigTypes(sl) \subseteq {"USE", "FUNC", "ENTRY", "IDENTIFIER"}
BY KeywordsAssumption DEF BigTypes

LEMMA FlushedAre ==
  ASSUME lexemes \in Seq(Slices), cur_lexeme \in DOMAIN lexemes, NEW token \in Flushed
  PROVE  token \in Tokens /\ TokenKept(token, Len(lexemes), Null)
<1> DEFINE sl == lexemes[cur_lexeme]
           fst == CharAt(data, FirstChar(src, sl))
<1>1. cur_lexeme \in 1 .. Len(lexemes) /\ cur_lexeme \in Nat /\ cur_lexeme # Null
  BY LexemeAssumption
<1>2. CASE StringSize(src, sl) <= 1
  <2>1. PICK type \in SmallTypes(fst) : token = [type |-> type, lexeme |-> Null]
    BY <1>2 DEF Flushed
  <2>2. type \in TokenTypes /\ type \notin {"STR", "IDENTIFIER"}
    BY SmallTypesAre
  <2> QED  BY <2>1, <2>2 DEF Tokens, TokenKept, HasText
<1>3. CASE ~(StringSize(src, sl) <= 1)
  <2>1. PICK type \in BigTypes(sl) :
           token = IF type = "IDENTIFIER" THEN [type |-> type, lexeme |-> cur_lexeme]
                                          ELSE Token(type)
    BY <1>3 DEF Flushed
  <2>2. type \in {"USE", "FUNC", "ENTRY", "IDENTIFIER"}
    BY BigTypesAre
  <2>3. CASE type = "IDENTIFIER"
    BY <1>1, <2>1, <2>3 DEF Tokens, TokenTypes, TokenKept, HasText
  <2>4. CASE type # "IDENTIFIER"
    BY <2>1, <2>2, <2>4 DEF Token, Tokens, TokenTypes, TokenKept, HasText
  <2> QED  BY <2>3, <2>4
<1> QED  BY <1>2, <1>3

LEMMA KeptIfMore ==
  ASSUME NEW ts, NEW n \in Nat, NEW cur, TokensKept(ts, n, cur), NEW m \in Nat, n <= m,
         NEW new, new \notin 1 .. n
  PROVE  TokensKept(ts, m, new)
<1>1. 1 .. n \subseteq 1 .. m
  OBVIOUS
<1> QED  BY <1>1 DEF TokensKept, TokenKept

LEMMA KeptAppended ==
  ASSUME NEW ts, NEW n \in Nat, NEW cur, TokensKept(ts, n, cur),
         NEW token \in Tokens, TokenKept(token, n, cur)
  PROVE  TokensKept(Append(ts, token), n, cur)
<1>1. ts \in Seq(Tokens) /\ \A t \in 1 .. Len(ts) : TokenKept(ts[t], n, cur)
  BY DEF TokensKept
<1> DEFINE more == Append(ts, token)
<1>2. /\ more \in Seq(Tokens) /\ Len(more) = Len(ts) + 1 /\ more[Len(ts) + 1] = token
      /\ \A t \in 1 .. Len(ts) : more[t] = ts[t]
  BY <1>1
<1> HIDE DEF more
<1>3. ASSUME NEW t \in 1 .. Len(more)
      PROVE  TokenKept(more[t], n, cur)
  <2>1. t \in 1 .. Len(ts) \/ t = Len(ts) + 1
    BY <1>1, <1>2
  <2> QED  BY <1>1, <1>2, <2>1
<1>4. TokensKept(more, n, cur)
  BY <1>2, <1>3 DEF TokensKept
<1> QED  BY <1>4 DEF more

LEMMA TypeFacts ==
  ASSUME LexTypeIInv
  PROVE  /\ Laid(src, data, source) /\ lexemes \in Seq(Slices) /\ Len(lexemes) \in Nat
         /\ cur_lexeme \in DOMAIN lexemes \cup {Null} /\ DOMAIN lexemes = 1 .. Len(lexemes)
         /\ Null \notin DOMAIN lexemes
         /\ TokensKept(tokens, Len(lexemes), cur_lexeme)
         /\ TokensKept(tokens, Len(lexemes), Null)
         /\ is_reading_str \in BOOLEAN
         /\ source.block_size \in Nat \ {0}
<1>1. /\ Laid(src, data, source) /\ lexemes \in Seq(Slices)
      /\ cur_lexeme \in DOMAIN lexemes \cup {Null}
      /\ TokensKept(tokens, Len(lexemes), cur_lexeme) /\ is_reading_str \in BOOLEAN
  BY DEF LexTypeIInv, TypeOK
<1>2. Len(lexemes) \in Nat /\ DOMAIN lexemes = 1 .. Len(lexemes)
  BY <1>1
<1>3. Null \notin 1 .. Len(lexemes)
  BY LexemeAssumption
<1>4. TokensKept(tokens, Len(lexemes), Null)
  BY <1>1, <1>2, <1>3, KeptIfMore
<1> QED  BY <1>1, <1>2, <1>3, <1>4, LaidFacts

LEMMA PendingKeptTokens ==
  ASSUME LexTypeIInv, NEW ts \in WithPending
  PROVE  TokensKept(ts, Len(lexemes), Null)
<1>1. CASE cur_lexeme = Null
  BY <1>1, TypeFacts DEF WithPending
<1>2. CASE cur_lexeme # Null
  <2>1. PICK token \in Flushed : ts = Append(tokens, token)
    BY <1>2 DEF WithPending
  <2>2. token \in Tokens /\ TokenKept(token, Len(lexemes), Null)
    BY <1>2, TypeFacts, FlushedAre
  <2> QED  BY <2>1, <2>2, TypeFacts, KeptAppended
<1> QED  BY <1>1, <1>2

(* Where the scan is. *)
LEMMA PlaceOrEndIs ==
  ASSUME NEW a, NEW d, NEW s, Laid(a, d, s), NEW i \in 1 .. Len(s.text) + 1
  PROVE  /\ i <= Len(s.text) => /\ i \in 1 .. Len(s.text) /\ PlaceOrEnd(a, s, i) = Place(a, i)
                               /\ PlaceOrEnd(a, s, i) \in [block: a.live, off: 0 .. s.block_size - 1]
                               /\ PlaceOrEnd(a, s, i) # Null
         /\ ~(i <= Len(s.text)) => PlaceOrEnd(a, s, i) = Null /\ i = Len(s.text) + 1
<1>1. Len(s.text) \in Nat
  BY LaidFacts
<1>2. ASSUME i <= Len(s.text)
      PROVE  /\ i \in 1 .. Len(s.text) /\ Place(a, i) # Null
             /\ Place(a, i) \in [block: a.live, off: 0 .. s.block_size - 1]
  <2>1. i \in 1 .. Len(s.text)
    BY <1>1, <1>2
  <2> DEFINE k == InBlock(i, s.block_size)
             o == InOffset(i, s.block_size)
  <2>2. /\ Place(a, i) = [block |-> Chain(a)[k], off |-> o] /\ Place(a, i) # Null
        /\ Chain(a)[k] \in a.live /\ o \in 0 .. s.block_size - 1
    BY <2>1, PlaceIsIn
  <2> HIDE DEF k, o
  <2> QED  BY <2>1, <2>2
<1> QED  BY <1>1, <1>2 DEF PlaceOrEnd

LEMMA ReadsAt ==
  ASSUME LexTypeIInv, Reading
  PROVE  \E i \in 1 .. Len(source.text) :
            /\ ScansAt(i) /\ at = Place(src, i) /\ Char = source.text[i]
            /\ Next1(at) = PlaceOrEnd(src, source, i + 1)
            /\ i + 1 \in 1 .. Len(source.text) + 1
<1>1. Laid(src, data, source)
  BY TypeFacts
<1>2. PICK i \in 1 .. Len(source.text) + 1 : ScansAt(i)
  BY DEF LexTypeIInv
<1>3. at = PlaceOrEnd(src, source, i) /\ at # Null
  BY <1>2 DEF ScansAt, AtPlace, Reading
<1>4. i \in 1 .. Len(source.text) /\ at = Place(src, i)
  BY <1>1, <1>3, PlaceOrEndIs
<1>5. Char = source.text[i]
  BY <1>1, <1>4 DEF Char, Laid
<1>6. Next1(at) = PlaceOrEnd(src, source, i + 1)
  BY <1>1, <1>3, <1>4, NextPlace DEF Next1
<1>7. i + 1 \in 1 .. Len(source.text) + 1
  BY <1>4
<1> QED  BY <1>2, <1>4, <1>5, <1>6, <1>7
-----------------------------------------------------------------------------
(* The scan moves to place j. *)
ScansOnTo(j) ==
  /\ at' = PlaceOrEnd(src, source, j)
  /\ cur_lexeme' # Null /\ j <= Len(source.text) => EndsBefore(src, lexemes'[cur_lexeme'], j)

LEMMA StepKeeps ==
  ASSUME LexTypeIInv, UNCHANGED <<source, src, data>>,
         lexemes' \in Seq(Slices), cur_lexeme' \in DOMAIN lexemes' \cup {Null},
         is_reading_str' \in BOOLEAN, status' \in {"lexing", "done", "aborted"},
         status' = "lexing" /\ is_reading_str' => cur_lexeme' # Null,
         TokensKept(tokens', Len(lexemes'), cur_lexeme'),
         NEW j \in 1 .. Len(source.text) + 1, ScansOnTo(j)
  PROVE  LexTypeIInv'
<1>1. Laid(src, data, source)
  BY TypeFacts
<1>2. Laid(src, data, source)'
  BY <1>1
<1>3. at' = Null \/ at' \in [block: src.live, off: 0 .. source.block_size - 1]
  BY <1>1, PlaceOrEndIs DEF ScansOnTo
<1>4. \A t \in DOMAIN tokens' : tokens'[t].lexeme \in DOMAIN lexemes' \cup {Null, Junk}
  <2>1. DOMAIN lexemes' = 1 .. Len(lexemes') /\ DOMAIN tokens' = 1 .. Len(tokens')
    BY DEF TokensKept
  <2> QED  BY <2>1 DEF TokensKept, TokenKept
<1>5. TypeOK'
  BY <1>3, <1>4 DEF TypeOK
<1>6. ScansAt(j)'
  BY DEF ScansAt, ScansOnTo, AtPlace
<1>7. j \in (1 .. Len(source.text) + 1)'
  OBVIOUS
<1> QED  BY <1>2, <1>5, <1>6, <1>7 DEF LexTypeIInv

(* A lexeme of one character, from the iterator's place or the next one. *)
LEMMA LexemeAdded ==
  ASSUME LexTypeIInv, NEW i \in 1 .. Len(source.text), at = Place(src, i),
         NEW skip \in {0, 1}, NewLexeme(skip)
  PROVE  /\ lexemes' \in Seq(Slices) /\ Len(lexemes') = Len(lexemes) + 1
         /\ cur_lexeme' \in DOMAIN lexemes' /\ cur_lexeme' # Null
         /\ cur_lexeme' \notin 1 .. Len(lexemes)
         /\ TokensKept(tokens, Len(lexemes'), cur_lexeme')
         /\ i + skip <= Len(source.text)
              => EndsBefore(src, lexemes'[cur_lexeme'], i + skip + 1)
<1> DEFINE sl == LexemeAt(src, Place(src, i), skip)
           n == Len(lexemes)
<1>1. /\ Laid(src, data, source) /\ lexemes \in Seq(Slices) /\ n \in Nat
      /\ TokensKept(tokens, n, cur_lexeme)
  BY TypeFacts
<1>2. lexemes' = Append(lexemes, sl) /\ cur_lexeme' = n + 1
  BY DEF NewLexeme, LexemeAt
<1>3. sl \in Slices
  BY <1>1, NewLexemeIs
<1>4. i + skip <= Len(source.text) => EndsBefore(src, sl, i + skip + 1)
  BY <1>1, NewLexemeEnds
<1> HIDE DEF sl
<1>5. lexemes' \in Seq(Slices) /\ Len(lexemes') = n + 1 /\ lexemes'[n + 1] = sl
  BY <1>1, <1>2, <1>3
<1>6. n + 1 # Null /\ n + 1 \notin 1 .. n /\ n + 1 \in Nat /\ n <= n + 1 /\ n + 1 \in DOMAIN lexemes'
  BY <1>1, <1>5, LexemeAssumption
<1>7. TokensKept(tokens, n + 1, n + 1)
  BY <1>1, <1>6, KeptIfMore
<1> QED  BY <1>2, <1>4, <1>5, <1>6, <1>7

(* The lexeme in progress grows by the character the iterator is at. *)
LEMMA LexemeExtended ==
  ASSUME LexTypeIInv, NEW i \in 1 .. Len(source.text), ScansAt(i), cur_lexeme # Null, GrowLexeme
  PROVE  /\ lexemes' \in Seq(Slices) /\ Len(lexemes') = Len(lexemes)
         /\ EndsBefore(src, lexemes'[cur_lexeme], i + 1)
         /\ \A t \in DOMAIN lexemes \ {cur_lexeme} : lexemes'[t] = lexemes[t]
<1> DEFINE sl == lexemes[cur_lexeme]
           g == GrowSliceTail(src, sl, 1)
<1>1. /\ Laid(src, data, source) /\ lexemes \in Seq(Slices) /\ Len(lexemes) \in Nat
      /\ cur_lexeme \in DOMAIN lexemes
  BY TypeFacts
<1>2. sl \in Slices /\ EndsBefore(src, sl, i)
  <2>1. i <= Len(source.text)
    OBVIOUS
  <2> QED  BY <1>1, <2>1 DEF ScansAt
<1>3. g \in Slices /\ EndsBefore(src, g, i + 1)
  <2> HIDE DEF sl
  <2> QED  BY <1>1, <1>2, LexemeGrows
<1>4. lexemes' = [lexemes EXCEPT ![cur_lexeme] = g]
  BY DEF GrowLexeme
<1> HIDE DEF g
<1> QED  BY <1>1, <1>3, <1>4

LEMMA StepFacts ==
  ASSUME LexTypeIInv
  PROVE  status \in {"lexing", "done", "aborted"}
BY DEF LexTypeIInv, TypeOK

LEMMA TypeOfOpenQuote ==
  ASSUME LexTypeIInv, OpenQuote
  PROVE  LexTypeIInv'
<1>1. /\ Reading /\ NewLexeme(1) /\ is_reading_str' = TRUE /\ at' = Next1(Next1(at))
      /\ UNCHANGED <<source, src, data, tokens, status>>
  BY DEF OpenQuote
<1>2. PICK i \in 1 .. Len(source.text) :
         /\ at = Place(src, i) /\ Next1(at) = PlaceOrEnd(src, source, i + 1)
         /\ i + 1 \in 1 .. Len(source.text) + 1
  BY <1>1, ReadsAt
<1>3. /\ lexemes' \in Seq(Slices) /\ cur_lexeme' \in DOMAIN lexemes' /\ cur_lexeme' # Null
      /\ TokensKept(tokens, Len(lexemes'), cur_lexeme')
      /\ i + 1 <= Len(source.text) => EndsBefore(src, lexemes'[cur_lexeme'], i + 1 + 1)
  BY <1>1, <1>2, LexemeAdded
<1>4. Laid(src, data, source)
  BY TypeFacts
<1>5. PICK j \in 1 .. Len(source.text) + 1 : ScansOnTo(j)
  <2>1. CASE i + 1 <= Len(source.text)
    <3>1. i + 1 \in 1 .. Len(source.text)
      BY <1>2, <2>1
    <3>2. Next1(PlaceOrEnd(src, source, i + 1)) = PlaceOrEnd(src, source, i + 1 + 1)
      BY <1>4, <3>1, NextPlace DEF Next1
    <3>3. i + 1 + 1 \in 1 .. Len(source.text) + 1
      BY <3>1
    <3>4. ScansOnTo(i + 1 + 1)
      BY <1>1, <1>2, <1>3, <2>1, <3>2 DEF ScansOnTo
    <3> QED  BY <3>3, <3>4
  <2>2. CASE ~(i + 1 <= Len(source.text))
    <3>1. PlaceOrEnd(src, source, i + 1) = Null
      BY <2>2 DEF PlaceOrEnd
    <3>2. Next1(Null) = Null
      BY NextOfNull DEF Next1
    <3>3. ScansOnTo(i + 1)
      BY <1>1, <1>2, <2>2, <3>1, <3>2 DEF ScansOnTo
    <3> QED  BY <1>2, <3>3
  <2> QED  BY <2>1, <2>2
<1> QED  BY <1>1, <1>3, <1>5, StepKeeps, StepFacts

LEMMA TypeOfCloseQuote ==
  ASSUME LexTypeIInv, CloseQuote
  PROVE  LexTypeIInv'
<1> DEFINE token == [type |-> "STR", lexeme |-> cur_lexeme]
<1>1. /\ Reading /\ is_reading_str /\ tokens' = Append(tokens, token)
      /\ cur_lexeme' = Null /\ is_reading_str' = FALSE /\ at' = Next1(at)
      /\ UNCHANGED <<source, src, data, lexemes, status>>
  BY DEF CloseQuote
<1>2. PICK i \in 1 .. Len(source.text) :
         /\ Next1(at) = PlaceOrEnd(src, source, i + 1)
         /\ i + 1 \in 1 .. Len(source.text) + 1
  BY <1>1, ReadsAt
<1>3. cur_lexeme \in 1 .. Len(lexemes)
  <2>1. cur_lexeme # Null
    BY <1>1 DEF LexTypeIInv, Reading
  <2> QED  BY <2>1, TypeFacts
<1>4. token \in Tokens /\ TokenKept(token, Len(lexemes), Null)
  <2>1. cur_lexeme # Null /\ cur_lexeme \in Nat
    BY <1>3, LexemeAssumption
  <2> QED  BY <1>3, <2>1 DEF Tokens, TokenTypes, TokenKept
<1> HIDE DEF token
<1>5. TokensKept(tokens', Len(lexemes'), cur_lexeme')
  BY <1>1, <1>4, TypeFacts, KeptAppended
<1>6. ScansOnTo(i + 1)
  BY <1>1, <1>2 DEF ScansOnTo
<1> QED  BY <1>1, <1>2, <1>5, <1>6, StepKeeps, StepFacts, TypeFacts

LEMMA TypeOfInString ==
  ASSUME LexTypeIInv, InString
  PROVE  LexTypeIInv'
<1>1. /\ Reading /\ is_reading_str /\ GrowLexeme /\ at' = Next1(at)
      /\ UNCHANGED <<source, src, data, cur_lexeme, is_reading_str, tokens, status>>
  BY DEF InString
<1>2. PICK i \in 1 .. Len(source.text) :
         /\ ScansAt(i) /\ Next1(at) = PlaceOrEnd(src, source, i + 1)
         /\ i + 1 \in 1 .. Len(source.text) + 1
  BY <1>1, ReadsAt
<1>3. cur_lexeme # Null
  BY <1>1 DEF LexTypeIInv, Reading
<1>4. /\ lexemes' \in Seq(Slices) /\ Len(lexemes') = Len(lexemes)
      /\ EndsBefore(src, lexemes'[cur_lexeme], i + 1)
  BY <1>1, <1>2, <1>3, LexemeExtended
<1>5. ScansOnTo(i + 1)
  BY <1>1, <1>2, <1>4 DEF ScansOnTo
<1>6. cur_lexeme' \in DOMAIN lexemes' \cup {Null} /\ TokensKept(tokens', Len(lexemes'), cur_lexeme')
  BY <1>1, <1>4, TypeFacts
<1> QED  BY <1>1, <1>2, <1>3, <1>4, <1>5, <1>6, StepKeeps, StepFacts, TypeFacts

LEMMA TypeOfSkipWhitespace ==
  ASSUME LexTypeIInv, SkipWhitespace
  PROVE  LexTypeIInv'
<1>1. /\ Reading /\ ~is_reading_str /\ tokens' \in WithPending /\ cur_lexeme' = Null
      /\ at' = Next1(at)
      /\ UNCHANGED <<source, src, data, is_reading_str, lexemes, status>>
  BY Zenon DEF SkipWhitespace, Outside, PendingDone
<1>2. PICK i \in 1 .. Len(source.text) :
         /\ Next1(at) = PlaceOrEnd(src, source, i + 1)
         /\ i + 1 \in 1 .. Len(source.text) + 1
  BY <1>1, ReadsAt
<1>3. TokensKept(tokens', Len(lexemes'), cur_lexeme')
  BY <1>1, PendingKeptTokens
<1>4. ScansOnTo(i + 1)
  BY <1>1, <1>2 DEF ScansOnTo
<1> QED  BY <1>1, <1>2, <1>3, <1>4, StepKeeps, StepFacts, TypeFacts

LEMMA TypeOfHardBoundary ==
  ASSUME LexTypeIInv, HardBoundary
  PROVE  LexTypeIInv'
<1> DEFINE token == Token(HardType(Char))
<1>1. /\ Reading /\ ~is_reading_str /\ cur_lexeme' = Null
      /\ HardType(Char) # "UNKNOWN"
      /\ at' = Next1(at)
      /\ UNCHANGED <<source, src, data, is_reading_str, lexemes, status>>
  BY Zenon DEF HardBoundary, Outside, PendingDone
<1>2. PICK ts \in WithPending : tokens' = Append(ts, token)
  BY Zenon DEF HardBoundary
<1>3. PICK i \in 1 .. Len(source.text) :
         /\ Next1(at) = PlaceOrEnd(src, source, i + 1)
         /\ i + 1 \in 1 .. Len(source.text) + 1
  BY <1>1, ReadsAt
<1>4. token \in Tokens /\ TokenKept(token, Len(lexemes), Null)
  <2>1. HardType(Char) \in HardTypes
    BY <1>1, HardTypeIs
  <2>2. HardType(Char) \in TokenTypes /\ HardType(Char) \notin {"STR", "IDENTIFIER"}
    BY <2>1 DEF TokenTypes, HardTypes
  <2> QED  BY <2>2 DEF Token, Tokens, TokenKept, HasText
<1>5. TokensKept(ts, Len(lexemes), Null)
  BY PendingKeptTokens
<1> HIDE DEF token
<1>6. TokensKept(tokens', Len(lexemes'), cur_lexeme')
  BY <1>1, <1>2, <1>4, <1>5, TypeFacts, KeptAppended
<1>7. ScansOnTo(i + 1)
  BY <1>1, <1>3 DEF ScansOnTo
<1> QED  BY <1>1, <1>3, <1>6, <1>7, StepKeeps, StepFacts, TypeFacts

LEMMA TypeOfLexemeChar ==
  ASSUME LexTypeIInv, LexemeChar
  PROVE  LexTypeIInv'
<1>1. /\ Reading /\ ~is_reading_str /\ at' = Next1(at)
      /\ IF cur_lexeme = Null THEN NewLexeme(0) ELSE GrowLexeme /\ UNCHANGED cur_lexeme
      /\ UNCHANGED <<source, src, data, is_reading_str, tokens, status>>
  BY Zenon DEF LexemeChar, Outside
<1>2. PICK i \in 1 .. Len(source.text) :
         /\ ScansAt(i) /\ at = Place(src, i) /\ Next1(at) = PlaceOrEnd(src, source, i + 1)
         /\ i + 1 \in 1 .. Len(source.text) + 1
  BY <1>1, ReadsAt
<1>3. CASE cur_lexeme = Null
  <2>1. i + 0 = i /\ i <= Len(source.text) /\ 0 \in {0, 1}
    OBVIOUS
  <2>2. /\ lexemes' \in Seq(Slices) /\ cur_lexeme' \in DOMAIN lexemes' /\ cur_lexeme' # Null
        /\ TokensKept(tokens, Len(lexemes'), cur_lexeme')
        /\ EndsBefore(src, lexemes'[cur_lexeme'], i + 1)
    BY <1>1, <1>2, <1>3, <2>1, LexemeAdded
  <2>3. ScansOnTo(i + 1)
    BY <1>1, <1>2, <2>2 DEF ScansOnTo
  <2> QED  BY <1>1, <1>2, <2>2, <2>3, StepKeeps, StepFacts, TypeFacts
<1>4. CASE cur_lexeme # Null
  <2>1. /\ lexemes' \in Seq(Slices) /\ Len(lexemes') = Len(lexemes)
        /\ EndsBefore(src, lexemes'[cur_lexeme], i + 1)
    BY <1>1, <1>2, <1>4, LexemeExtended
  <2>2. ScansOnTo(i + 1)
    BY <1>1, <1>2, <1>4, <2>1 DEF ScansOnTo
  <2>3. cur_lexeme' \in DOMAIN lexemes' \cup {Null} /\ TokensKept(tokens', Len(lexemes'), cur_lexeme')
    BY <1>1, <1>4, <2>1, TypeFacts
  <2> QED  BY <1>1, <1>2, <1>4, <2>1, <2>2, <2>3, StepKeeps, StepFacts, TypeFacts
<1> QED  BY <1>3, <1>4

LEMMA TypeOfFinish ==
  ASSUME LexTypeIInv, Finish
  PROVE  LexTypeIInv'
<1> DEFINE token == [type |-> "EOF", lexeme |-> Null]
<1>1. /\ cur_lexeme' = Null /\ status' = "done" /\ at' = at
      /\ UNCHANGED <<source, src, data, is_reading_str, lexemes>>
  BY DEF Finish, PendingDone
<1>2. PICK ts \in WithPending : tokens' = Append(ts, token)
  BY Zenon DEF Finish
<1>3. token \in Tokens /\ TokenKept(token, Len(lexemes), Null)
  BY DEF Tokens, TokenTypes, TokenKept, HasText
<1>4. TokensKept(ts, Len(lexemes), Null)
  BY PendingKeptTokens
<1> HIDE DEF token
<1>5. TokensKept(tokens', Len(lexemes'), cur_lexeme')
  BY <1>1, <1>2, <1>3, <1>4, TypeFacts, KeptAppended
<1>6. PICK i \in 1 .. Len(source.text) + 1 : ScansAt(i)
  BY DEF LexTypeIInv
<1>7. ScansOnTo(i)
  BY <1>1, <1>6 DEF ScansAt, AtPlace, ScansOnTo
<1> QED  BY <1>1, <1>5, <1>7, StepKeeps, StepFacts, TypeFacts

LEMMA TypeOfParseExpr ==
  ASSUME LexTypeIInv, ParseExpr
  PROVE  LexTypeIInv'
<1>1. /\ status = "done" /\ status' \in {"done", "aborted"}
      /\ UNCHANGED <<source, src, data, at, cur_lexeme, is_reading_str, tokens, lexemes>>
  BY DEF ParseExpr
<1>2. PICK i \in 1 .. Len(source.text) + 1 : ScansAt(i)
  BY DEF LexTypeIInv
<1>3. ScansOnTo(i)
  BY <1>1, <1>2 DEF ScansAt, AtPlace, ScansOnTo
<1> QED  BY <1>1, <1>3, StepKeeps, StepFacts, TypeFacts

LEMMA TypeOfStutter ==
  ASSUME LexTypeIInv, UNCHANGED vars
  PROVE  LexTypeIInv'
BY DEF vars, LexTypeIInv, TypeOK, ScansAt, AtPlace

LEMMA TypeOfStep ==
  ASSUME LexTypeIInv, [Next]_vars
  PROVE  LexTypeIInv'
BY TypeOfOpenQuote, TypeOfCloseQuote, TypeOfInString, TypeOfSkipWhitespace,
   TypeOfHardBoundary, TypeOfLexemeChar, TypeOfFinish, TypeOfParseExpr, TypeOfStutter
DEF Next, Lex
-----------------------------------------------------------------------------
(* How the source string is made: the arena of a string of n characters.    *)
Strung(a, n, q) ==
  LET r == a.block[a.tail_block].right_offset
  IN  /\ ArenaOK(a) /\ a.block_size = q
      /\ \A b \in a.live : /\ a.block[b].left_offset = 0
                           /\ b # a.tail_block => a.block[b].right_offset = q
      /\ n = (a.block_count - 1) * q + r
      /\ n # 0 => r >= 1

LEMMA SomeIsIn ==
  ASSUME NEW S, S # {}
  PROVE  Some(S) \in S
BY DEF Some

LEMMA StringInit ==
  ASSUME NEW q \in Nat \ {0}, NEW n \in Blocks
  PROVE  Strung(InitString(n, q), 0, q)
<1> DEFINE a == InitString(n, q)
<1>1. ArenaOK(a)
  BY InitArenaOK DEF InitString, Offsets
<1>2. /\ a.block_size = q /\ a.live = {n} /\ a.tail_block = n /\ a.block_count = 1
      /\ a.block[n].left_offset = 0 /\ a.block[n].right_offset = 0
  BY DEF InitString, InitArena, StartOffset
<1> HIDE DEF a
<1>3. Strung(a, 0, q)
  BY <1>1, <1>2 DEF Strung
<1> QED  BY <1>3 DEF a

(* There is a block for another byte. *)
LEMMA BlockForOneMore ==
  ASSUME NEW q \in Nat \ {0}, NEW n \in Nat, NEW a, Strung(a, n, q), IsFiniteSet(Blocks),
         n < q * Cardinality(Blocks), a.block[a.tail_block].right_offset = q
  PROVE  Fresh(a) # {}
<1> DEFINE c == a.block_count
<1>1. ArenaOK(a) /\ c \in Nat /\ a.live \subseteq Blocks
  BY BlocksOf DEF Strung
<1>2. n = (c - 1) * q + q
  BY DEF Strung
<1>3. n = c * q
  BY <1>1, <1>2
<1>4. Cardinality(a.live) <= c
  <2>1. Chain(a) \in [1 .. c -> a.live] /\ \A b \in a.live : \E i \in 1 .. c : Chain(a)[i] = b
    BY <1>1, AlongChain
  <2>2. ExistsSurjection(1 .. c, a.live)
    BY <2>1 DEF ExistsSurjection, Surjection
  <2> QED  BY <1>1, <2>2, FS_SurjCardinalityBound
<1>5. Cardinality(Blocks) \in Nat
  BY FS_CardinalityType
<1> DEFINE m == Cardinality(Blocks)
<1>6. ASSUME a.live = Blocks
      PROVE  FALSE
  <2>1. m <= c
    BY <1>4, <1>6
  <2>2. q * m <= c * q
    <3> HIDE DEF m, c
    <3>1. m \in Nat /\ c \in Nat
      BY <1>1, <1>5 DEF m
    <3> QED  BY <2>1, <3>1
  <2> HIDE DEF m
  <2> QED  BY <1>1, <1>3, <1>5, <2>2 DEF m
<1> QED  BY <1>1, <1>6 DEF Fresh

LEMMA OneMoreByte ==
  ASSUME NEW q \in Nat \ {0}, NEW n \in Nat, NEW a, Strung(a, n, q), IsFiniteSet(Blocks),
         n < q * Cardinality(Blocks)
  PROVE  Strung(Some(AllocAtTail(a, 1)), n + 1, q)
<1> DEFINE h == Some(AllocAtTail(a, 1))
           t == a.tail_block
           r == a.block[t].right_offset
           c == a.block_count
<1>1. /\ ArenaOK(a) /\ a \in Arenas /\ a.live \subseteq Blocks /\ c \in Nat /\ c >= 1
      /\ t \in a.live /\ t \in Blocks /\ a.block_size = q /\ a.block[t].size = q
      /\ r \in Nat /\ r <= q /\ TailRoom(a) = q - r
  <2>1. ArenaOK(a) /\ a.block_size = q
    BY DEF Strung
  <2> QED  BY <2>1, BlocksOf DEF TailRoom
<1>2. /\ \A b \in a.live : /\ a.block[b].left_offset = 0
                           /\ b # t => a.block[b].right_offset = q
      /\ n = (c - 1) * q + r
  BY DEF Strung
<1>3. CASE r < q
  <2>1. ~(TailRoom(a) < 1)
    BY <1>1, <1>3
  <2>2. AllocAtTail(a, 1) = {TailTaken(a, 1)}
    BY <2>1 DEF AllocAtTail, TailTaken
  <2>3. h = TailTaken(a, 1)
    BY <2>2, SomeIsIn
  <2> HIDE DEF h
  <2>4. 1 \in Nat /\ 1 <= a.block[t].size - r
    BY <1>1, <1>3
  <2>5. /\ ArenaOK(h) /\ h.live = a.live /\ h.tail_block = t /\ h.block_size = q
        /\ h.block_count = c
        /\ h.block[t].right_offset = r + 1
        /\ h.block[t].left_offset = a.block[t].left_offset
        /\ \A b \in Blocks \ {t} : h.block[b] = a.block[b]
    BY <1>1, <2>3, <2>4, TailBytesTaken
  <2>6. n + 1 = (c - 1) * q + (r + 1) /\ r + 1 >= 1
    <3> DEFINE x == (c - 1) * q
    <3>1. x \in Int
      BY <1>1
    <3> HIDE DEF x
    <3> QED  BY <1>1, <1>2, <3>1 DEF x
  <2>7. Strung(h, n + 1, q)
    BY <1>1, <1>2, <2>5, <2>6 DEF Strung
  <2> QED  BY <2>7 DEF h
<1>4. CASE r = q
  <2>1. TailRoom(a) < 1
    BY <1>1, <1>4
  <2>2. AllocAtTail(a, 1) = {TailTaken(AllocTailBlock(a, x), 1) : x \in Fresh(a)}
    BY <2>1 DEF AllocAtTail, TailTaken
  <2>3. PICK x \in Fresh(a) : h = TailTaken(AllocTailBlock(a, x), 1)
    <3>1. Fresh(a) # {}
      BY <1>4, BlockForOneMore
    <3>2. AllocAtTail(a, 1) # {}
      BY <2>2, <3>1
    <3> QED  BY <2>2, <3>2, SomeIsIn
  <2> DEFINE g == AllocTailBlock(a, x)
  <2>4. x \in Blocks /\ x \notin a.live /\ x # t
    BY <1>1 DEF Fresh
  <2>5. /\ ArenaOK(g) /\ g.live = a.live \cup {x} /\ g.tail_block = x /\ g.block_size = q
        /\ \A b \in a.live : /\ g.block[b].left_offset = a.block[b].left_offset
                             /\ g.block[b].right_offset = a.block[b].right_offset
    BY <1>1, AllocTailBlockKeeps
  <2>6. /\ g.block[x] = [left_offset |-> 0, right_offset |-> 0,
                         size |-> a.block_size, prev |-> a.tail_block, next |-> Null]
        /\ g.block_count = c + 1
    BY <1>1, <2>4, AllocTailBlockFields
  <2>7. h = TailTaken(g, 1)
    BY <2>3
  <2> HIDE DEF g, h
  <2>8. g.block[x].left_offset = 0 /\ g.block[x].right_offset = 0 /\ g.block[x].size = q
    BY <1>1, <2>6
  <2>9. 1 \in Nat /\ 1 <= g.block[g.tail_block].size - g.block[g.tail_block].right_offset
    BY <1>1, <2>5, <2>8
  <2>10. /\ ArenaOK(h) /\ h.live = g.live /\ h.tail_block = x /\ h.block_size = q
         /\ h.block_count = c + 1
         /\ h.block[x].right_offset = 1
         /\ h.block[x].left_offset = 0
         /\ \A b \in Blocks \ {x} : h.block[b] = g.block[b]
    BY <2>5, <2>6, <2>7, <2>8, <2>9, TailBytesTaken
  <2>11. /\ n + 1 = (h.block_count - 1) * q + h.block[h.tail_block].right_offset
         /\ h.block[h.tail_block].right_offset >= 1
    <3>1. h.block_count - 1 = c
      BY <1>1, <2>10
    <3>2. n + 1 = c * q + 1
      BY <1>1, <1>2, <1>4
    <3> QED  BY <2>10, <3>1, <3>2
  <2>12. \A b \in h.live : /\ h.block[b].left_offset = 0
                           /\ b # h.tail_block => h.block[b].right_offset = q
    BY <1>1, <1>2, <1>4, <2>4, <2>5, <2>10
  <2>13. Strung(h, n + 1, q)
    BY <2>10, <2>11, <2>12 DEF Strung
  <2> QED  BY <2>13 DEF h
<1> QED  BY <1>1, <1>3, <1>4

(* The function inside Filled. *)
FilledAt(f, s, n) ==
  IF n = 0 THEN InitString(Some(Blocks), s.block_size) ELSE Some(AllocAtTail(f[n - 1], 1))
FillsTo(f, s, k) == f = [n \in 0 .. k |-> FilledAt(f, s, n)]

LEMMA FillExists ==
  ASSUME NEW s, NEW len \in Nat
  PROVE  \E f : FillsTo(f, s, len)
<1> DEFINE T == {k \in 0 .. len : \E f : FillsTo(f, s, k)}
<1>1. 0 \in T
  <2> DEFINE f == [n \in 0 .. 0 |-> InitString(Some(Blocks), s.block_size)]
  <2>1. FillsTo(f, s, 0)
    BY DEF FillsTo, FilledAt
  <2> QED  BY <2>1
<1>2. ASSUME NEW k \in 0 .. len - 1, k \in T
      PROVE  k + 1 \in T
  <2>1. PICK f : FillsTo(f, s, k)
    BY <1>2
  <2> DEFINE g == [n \in 0 .. k + 1 |-> IF n = k + 1 THEN Some(AllocAtTail(f[k], 1)) ELSE f[n]]
  <2>2. \A n \in 0 .. k + 1 : g[n] = FilledAt(g, s, n)
    <3> TAKE n \in 0 .. k + 1
    <3>1. CASE n = 0
      BY <2>1, <3>1 DEF FillsTo, FilledAt
    <3>2. CASE n # 0 /\ n # k + 1
      <4>1. n \in 0 .. k /\ n - 1 \in 0 .. k /\ n - 1 \in 0 .. k + 1 /\ n - 1 # k + 1
        BY <3>2
      <4>2. g[n] = f[n] /\ g[n - 1] = f[n - 1]
        BY <3>2, <4>1
      <4> HIDE DEF g
      <4> QED  BY <2>1, <3>2, <4>1, <4>2 DEF FillsTo, FilledAt
    <3>3. CASE n = k + 1
      <4>1. n # 0 /\ n - 1 = k /\ k \in 0 .. k + 1 /\ k # k + 1
        BY <3>3
      <4>2. g[n] = Some(AllocAtTail(f[k], 1)) /\ g[k] = f[k]
        BY <3>3, <4>1
      <4> HIDE DEF g
      <4> QED  BY <4>1, <4>2 DEF FilledAt
    <3> QED  BY <3>1, <3>2, <3>3
  <2>3. FillsTo(g, s, k + 1)
    <3>1. g = [n \in 0 .. k + 1 |-> g[n]]
      OBVIOUS
    <3> HIDE DEF g
    <3> QED  BY <2>2, <3>1 DEF FillsTo
  <2>4. k + 1 \in 0 .. len
    OBVIOUS
  <2> HIDE DEF g
  <2> QED  BY <2>3, <2>4
<1>3. \A k \in 0 .. len : k \in T
  <2> HIDE DEF T
  <2> QED  BY <1>1, <1>2, IntervalInduction
<1>4. len \in T
  <2>1. len \in 0 .. len
    OBVIOUS
  <2> HIDE DEF T
  <2> QED  BY <1>3, <2>1
<1> QED  BY <1>4

LEMMA FilledIsStrung ==
  ASSUME NEW s, s.block_size \in Nat \ {0}, Len(s.text) \in Nat,
         IsFiniteSet(Blocks), Blocks # {},
         Len(s.text) <= s.block_size * Cardinality(Blocks)
  PROVE  Strung(Filled(s), Len(s.text), s.block_size)
<1> DEFINE q == s.block_size
           len == Len(s.text)
           f == CHOOSE f : FillsTo(f, s, len)
           T == {n \in 0 .. len : Strung(f[n], n, q)}
<1>1. FillsTo(f, s, len)
  BY FillExists
<1>2. Filled(s) = f[len]
  BY DEF Filled, FillsTo, FilledAt
<1> HIDE DEF f
<1>3. 0 \in T
  <2>1. f[0] = InitString(Some(Blocks), q)
    BY <1>1 DEF FillsTo, FilledAt
  <2>2. Strung(f[0], 0, q)
    BY <2>1, StringInit, SomeIsIn
  <2> QED  BY <2>2
<1>4. ASSUME NEW n \in 0 .. len - 1, n \in T
      PROVE  n + 1 \in T
  <2>1. n + 1 \in 0 .. len /\ n + 1 # 0 /\ (n + 1) - 1 = n /\ n \in Nat
    OBVIOUS
  <2>2. f[n + 1] = Some(AllocAtTail(f[n], 1))
    BY <1>1, <2>1 DEF FillsTo, FilledAt
  <2>3. Strung(f[n], n, q)
    BY <1>4
  <2>4. n < q * Cardinality(Blocks)
    <3> DEFINE m == q * Cardinality(Blocks)
    <3>1. m \in Nat
      BY FS_CardinalityType
    <3> HIDE DEF m
    <3> QED  BY <3>1 DEF m
  <2>5. Strung(f[n + 1], n + 1, q)
    BY <2>1, <2>2, <2>3, <2>4, OneMoreByte
  <2> QED  BY <2>1, <2>5
<1>5. \A n \in 0 .. len : n \in T
  <2> HIDE DEF T
  <2> QED  BY <1>3, <1>4, IntervalInduction
<1>6. len \in 0 .. len
  OBVIOUS
<1> QED  BY <1>2, <1>5, <1>6

(* The characters of the text, in the full blocks of its arena. *)
LEMMA StrungIsLaid ==
  ASSUME NEW s, NEW q \in 1 .. SizeMod - 1, s.block_size = q,
         s.text \in Seq(Letters \cup {Space}), NEW m \in Nat \ {0}, Len(s.text) = m * q,
         Len(s.text) < SizeMod, NEW a, Strung(a, Len(s.text), q)
  PROVE  Laid(a, Contents(a, s), s)
<1> DEFINE r == a.block[a.tail_block].right_offset
           c == a.block_count
           d == Contents(a, s)
<1>1. /\ ArenaOK(a) /\ a.block_size = q /\ c \in Nat /\ c >= 1 /\ a.tail_block \in a.live
      /\ r \in Nat /\ r <= q /\ q \in Nat \ {0}
  <2>1. ArenaOK(a) /\ a.block_size = q
    BY DEF Strung
  <2> QED  BY <2>1, BlocksOf, SizeModAssumption
<1>2. /\ m * q = (c - 1) * q + r
      /\ m * q # 0 => r >= 1
      /\ \A b \in a.live : /\ a.block[b].left_offset = 0
                           /\ b # a.tail_block => a.block[b].right_offset = q
  BY DEF Strung
<1>3. c = m /\ r = q
  <2> HIDE DEF r, c
  <2>1. m * q \in Nat \ {0} /\ r \in 1 .. q
    <3> DEFINE x == m * q
    <3>1. x \in Nat \ {0}
      BY <1>1
    <3>2. x # 0 => r >= 1
      BY <1>2
    <3> HIDE DEF x
    <3>3. r \in 1 .. q
      BY <1>1, <3>1, <3>2
    <3> QED  BY <3>1, <3>3 DEF x
  <2>2. (m - (c - 1)) * q = r
    <3> DEFINE x == c - 1
    <3>1. x \in Int /\ m * q = x * q + r
      BY <1>1, <1>2
    <3> HIDE DEF x
    <3>2. (m - x) * q = r
      BY <1>1, <3>1
    <3> QED  BY <3>2 DEF x
  <2> DEFINE k == m - (c - 1)
  <2>3. k \in Int
    BY <1>1
  <2> HIDE DEF k
  <2>4. k * q = r
    BY <2>2 DEF k
  <2>5. k >= 1
    BY <1>1, <2>1, <2>3, <2>4
  <2>6. k <= 1
    <3>1. k >= 2 => k * q >= q + q
      BY <1>1, <2>3
    <3> QED  BY <1>1, <2>1, <2>3, <2>4, <3>1
  <2>7. k = 1
    BY <2>3, <2>5, <2>6
  <2> QED  BY <1>1, <2>4, <2>7 DEF k
<1>4. \A b \in a.live : a.block[b].left_offset = 0 /\ a.block[b].right_offset = q
  BY <1>2, <1>3
<1>5. ASSUME NEW i \in 1 .. Len(s.text)
      PROVE  CharAt(d, Place(a, i)) = s.text[i]
  <2> DEFINE k == InBlock(i, q)
             o == InOffset(i, q)
             At(b) == CHOOSE j \in 1 .. a.block_count : Chain(a)[j] = b
  <2>1. k \in 1 .. m /\ o \in 0 .. q - 1 /\ i = (k - 1) * q + o + 1
    <3>1. i \in 1 .. m * q
      OBVIOUS
    <3> QED  BY <1>1, <3>1, PlaceSplit
  <2>2. Place(a, i).block = Chain(a)[k] /\ Place(a, i).off = o
    BY <1>1 DEF Place
  <2> HIDE DEF k, o
  <2>3. Chain(a)[k] \in a.live /\ At(Chain(a)[k]) = k
    BY <1>1, <1>3, <2>1, AlongChain
  <2>4. d[Chain(a)[k]] = [x \in 0 .. s.block_size - 1 |->
                            s.text[(At(Chain(a)[k]) - 1) * s.block_size + x + 1]]
    BY <2>3, Zenon DEF Contents
  <2> HIDE DEF At, d
  <2>5. o \in DOMAIN d[Chain(a)[k]] /\ d[Chain(a)[k]][o] = s.text[(k - 1) * q + o + 1]
    BY <2>1, <2>3, <2>4
  <2> QED  BY <2>1, <2>2, <2>5 DEF CharAt, Read
<1> HIDE DEF d
<1> QED  BY <1>1, <1>3, <1>4, <1>5 DEF Laid, d

LEMMA PaddedIs ==
  ASSUME NEW q \in BlockSizes, NEW len \in 1 .. MaxLen, NEW text \in [1 .. len -> Letters]
  PROVE  /\ Padded(text, q) \in Seq(Letters \cup {Space})
         /\ \E m \in Nat \ {0} : Len(Padded(text, q)) = m * q
         /\ Len(Padded(text, q)) <= q * Cardinality(Blocks)
         /\ Len(Padded(text, q)) < SizeMod /\ q \in 1 .. SizeMod - 1
         /\ Blocks # {}
<1> DEFINE c == Cardinality(Blocks)
           r == (-len) % q
           w == (-len) \div q
           L == Letters \cup {Space}
<1>1. /\ q \in Nat \ {0} /\ MaxLen \in Nat /\ q * c \in MaxLen .. SizeMod - 1 /\ IsFiniteSet(Blocks)
  BY BoundsAssumption
<1>2. c \in Nat /\ len \in Nat \ {0} /\ len <= q * c /\ SizeMod \in Nat \ {0}
  BY <1>1, FS_CardinalityType, SizeModAssumption
<1>3. r \in 0 .. q - 1 /\ w \in Int /\ -len = w * q + r
  BY <1>1, <1>2
<1>4. text \in Seq(L) /\ Len(text) = len
  BY <1>2
<1> DEFINE pad == [i \in 1 .. r |-> Space]
<1>5. pad \in Seq(L) /\ Len(pad) = r
  <2> HIDE DEF r
  <2>1. r \in Nat
    BY <1>1, <1>3
  <2>2. Space \in L
    OBVIOUS
  <2> HIDE DEF L
  <2> QED  BY <2>1, <2>2
<1>6. Padded(text, q) = text \o pad
  BY <1>4 DEF Padded
<1> HIDE DEF pad, L
<1>7. Padded(text, q) \in Seq(L) /\ Len(Padded(text, q)) = len + r
  BY <1>4, <1>5, <1>6, ConcatProperties
<1> HIDE DEF r, w, c
<1> DEFINE m == -w
<1>8. m \in Int /\ len + r = m * q
  BY <1>1, <1>2, <1>3
<1> HIDE DEF m
<1>9. m >= 1
  BY <1>1, <1>2, <1>3, <1>8
<1>10. m <= c
  <2>1. (m - 1) * q < q * c
    BY <1>1, <1>2, <1>3, <1>8
  <2> QED  BY <1>1, <1>2, <1>8, <2>1
<1>11. m * q <= q * c
  BY <1>1, <1>2, <1>8, <1>10
<1>12. q <= q * c
  BY <1>1, <1>2, <1>8, <1>9, <1>10
<1> DEFINE qc == q * c
<1>13. qc \in Nat /\ qc < SizeMod /\ m * q \in Int
  BY <1>1, <1>2, <1>8, SizeModAssumption
<1>14. Blocks # {}
  <2>1. c # 0
    BY <1>2, <1>8, <1>9, <1>10
  <2> QED  BY <2>1, FS_EmptySet DEF c
<1> HIDE DEF qc
<1>15. Len(Padded(text, q)) < SizeMod /\ q \in 1 .. SizeMod - 1
  BY <1>1, <1>2, <1>7, <1>8, <1>11, <1>12, <1>13 DEF qc
<1> QED  BY <1>7, <1>8, <1>9, <1>11, <1>14, <1>15 DEF c, L

LEMMA TypeOfInit ==
  ASSUME Init
  PROVE  LexTypeIInv
<1>1. PICK len \in 1 .. MaxLen : \E text \in [1 .. len -> Letters] : \E q \in BlockSizes :
         source = [text |-> Padded(text, q), block_size |-> q]
  BY DEF Init
<1>2. PICK text \in [1 .. len -> Letters], q \in BlockSizes :
         source = [text |-> Padded(text, q), block_size |-> q]
  BY <1>1
<1>3. source.text = Padded(text, q) /\ source.block_size = q
  BY <1>2
<1>4. PICK m \in Nat \ {0} : Len(Padded(text, q)) = m * q
  BY PaddedIs
<1>5. /\ source.text \in Seq(Letters \cup {Space}) /\ Len(source.text) <= q * Cardinality(Blocks)
      /\ Len(source.text) < SizeMod /\ q \in 1 .. SizeMod - 1 /\ Blocks # {}
  BY <1>3, PaddedIs
<1>6. IsFiniteSet(Blocks) /\ q \in Nat \ {0} /\ Len(source.text) \in Nat
  BY <1>5, BoundsAssumption
<1>7. Strung(Filled(source), Len(source.text), q)
  BY <1>3, <1>5, <1>6, FilledIsStrung
<1>8. Laid(Filled(source), Contents(Filled(source), source), source)
  BY <1>3, <1>4, <1>5, <1>7, StrungIsLaid
<1>9. /\ src = Filled(source) /\ data = Contents(src, source) /\ at = FirstChar(src, Null)
      /\ cur_lexeme = Null /\ is_reading_str = FALSE /\ tokens = <<>> /\ lexemes = <<>>
      /\ status = "lexing"
  BY DEF Init
<1>10. Laid(src, data, source)
  BY <1>8, <1>9
<1>11. at = PlaceOrEnd(src, source, 1)
  BY <1>9, <1>10, FirstPlace
<1>12. 1 \in 1 .. Len(source.text) + 1
  BY <1>6
<1>13. ScansAt(1)
  BY <1>9, <1>11, <1>12 DEF ScansAt, AtPlace
<1>14. lexemes \in Seq(Slices) /\ TokensKept(tokens, Len(lexemes), cur_lexeme)
  BY <1>9 DEF TokensKept
<1>15. at = Null \/ at \in [block: src.live, off: 0 .. source.block_size - 1]
  BY <1>10, <1>11, <1>12, PlaceOrEndIs
<1>16. TypeOK
  <2>1. DOMAIN tokens = {}
    BY <1>9
  <2> QED  BY <1>9, <1>14, <1>15, <2>1 DEF TypeOK
<1> QED  BY <1>9, <1>10, <1>12, <1>13, <1>14, <1>16 DEF LexTypeIInv

LEMMA LexTypeInductive == Spec => []LexTypeIInv
<1>1. Init => LexTypeIInv
  BY TypeOfInit
<1>2. LexTypeIInv /\ [Next]_vars => LexTypeIInv'
  BY TypeOfStep
<1> QED  BY <1>1, <1>2, PTL DEF Spec

(* The iterator is null or at a character of the source, lexemes are slices  *)
(* of the source's blocks, and every token names one of them or none        *)
(* (lexical_analysis.c:107-220).                                            *)
THEOREM LexerTypeCorrect == Spec => []TypeOK
<1>1. LexTypeIInv => TypeOK
  BY DEF LexTypeIInv
<1> QED  BY <1>1, LexTypeInductive, PTL
-----------------------------------------------------------------------------
(* What a token says is settled when it enters the list.                    *)
LEMMA IsPrefixOf ==
  ASSUME NEW S, NEW s \in Seq(S), NEW t \in Seq(S), Len(s) <= Len(t),
         \A i \in 1 .. Len(s) : t[i] = s[i]
  PROVE  IsPrefix(s, t)
<1> DEFINE n == Len(s)
<1>1. n \in Nat /\ Len(t) \in Nat
  OBVIOUS
<1>2. \A i \in 1 .. n : 1 + i - 1 = i /\ i \in 1 .. Len(t)
  BY <1>1
<1>3. SubSeq(s, 1, n) \in Seq(S) /\ Len(SubSeq(s, 1, n)) = n
      /\ \A i \in 1 .. n : SubSeq(s, 1, n)[i] = s[i]
  BY <1>1, <1>2, SubSeqProperties
<1>4. SubSeq(t, 1, n) \in Seq(S) /\ Len(SubSeq(t, 1, n)) = n
      /\ \A i \in 1 .. n : SubSeq(t, 1, n)[i] = t[i]
  BY <1>1, <1>2, SubSeqProperties
<1> DEFINE u == SubSeq(s, 1, n)
           v == SubSeq(t, 1, n)
<1>5. u \in Seq(S) /\ v \in Seq(S) /\ Len(u) = n /\ Len(v) = n /\ \A i \in 1 .. n : u[i] = v[i]
  BY <1>3, <1>4
<1> HIDE DEF u, v
<1>6. u = v
  BY <1>5, SeqEqual
<1> QED  BY <1>6 DEF IsPrefix, u, v

(* A token as a reader of the list sees it. *)
Shown(token, ls) ==
  [type |-> token.type,
   text |-> IF HasText(token) THEN SliceText(src, data, ls[token.lexeme]) ELSE <<>>]

LEMMA ViewIs ==
  View = [i \in DOMAIN tokens |-> Shown(tokens[i], lexemes)]
BY DEF View, Shown, HasText

LEMMA ShownKept ==
  ASSUME LexTypeIInv, NEW i \in 1 .. Len(tokens),
         \A t \in DOMAIN lexemes \ {cur_lexeme} : lexemes'[t] = lexemes[t]
  PROVE  Shown(tokens[i], lexemes') = Shown(tokens[i], lexemes)
<1>1. CASE HasText(tokens[i])
  <2>1. tokens[i].lexeme \in 1 .. Len(lexemes) /\ tokens[i].lexeme # cur_lexeme
        /\ DOMAIN lexemes = 1 .. Len(lexemes)
    BY <1>1, TypeFacts DEF TokensKept, TokenKept
  <2>2. lexemes'[tokens[i].lexeme] = lexemes[tokens[i].lexeme]
    BY <2>1
  <2> QED  BY <2>2 DEF Shown
<1>2. CASE ~HasText(tokens[i])
  BY <1>2 DEF Shown
<1> QED  BY <1>1, <1>2

IsMore(ts, more) ==
  /\ more \in Seq(Tokens) /\ Len(ts) <= Len(more)
  /\ \A i \in 1 .. Len(ts) : more[i] = ts[i]

LEMMA ViewExtends ==
  ASSUME LexTypeIInv, UNCHANGED <<src, data>>,
         \A t \in DOMAIN lexemes \ {cur_lexeme} : lexemes'[t] = lexemes[t],
         IsMore(tokens, tokens')
  PROVE  IsPrefix(View, View')
<1> DEFINE n == Len(tokens)
           m == Len(tokens')
           v == [i \in 1 .. n |-> Shown(tokens[i], lexemes)]
           w == [i \in 1 .. m |-> Shown(tokens'[i], lexemes')]
           S == {v[i] : i \in 1 .. n} \cup {w[i] : i \in 1 .. m}
<1>1. /\ n \in Nat /\ DOMAIN tokens = 1 .. n /\ m \in Nat /\ DOMAIN tokens' = 1 .. m /\ n <= m
      /\ \A i \in 1 .. n : tokens'[i] = tokens[i]
  <2>1. tokens \in Seq(Tokens)
    BY TypeFacts DEF TokensKept
  <2> QED  BY <2>1 DEF IsMore
<1>2. View = v
  BY <1>1, ViewIs
<1>3. View' = w
  <2>1. View' = [i \in DOMAIN tokens' |-> Shown(tokens'[i], lexemes')]
    BY DEF View, Shown, HasText
  <2> QED  BY <1>1, <2>1
<1>4. \A i \in 1 .. n : i \in 1 .. m /\ Shown(tokens'[i], lexemes') = Shown(tokens[i], lexemes)
  BY <1>1, ShownKept
<1>5. \A i \in 1 .. n : w[i] = v[i]
  BY <1>4
<1>6. v \in [1 .. n -> S] /\ w \in [1 .. m -> S]
  OBVIOUS
<1> HIDE DEF v, w, S
<1>7. v \in Seq(S) /\ w \in Seq(S) /\ Len(v) = n /\ Len(w) = m
  BY <1>1, <1>6, SeqDef
<1>8. IsPrefix(v, w)
  BY <1>1, <1>5, <1>7, IsPrefixOf
<1> QED  BY <1>2, <1>3, <1>8

LEMMA AppendIsMore ==
  ASSUME NEW ts, NEW more, IsMore(ts, more), ts \in Seq(Tokens), NEW token \in Tokens
  PROVE  IsMore(ts, Append(more, token))
BY DEF IsMore

LEMMA SameIsMore ==
  ASSUME LexTypeIInv
  PROVE  IsMore(tokens, tokens) /\ tokens \in Seq(Tokens)
BY TypeFacts DEF IsMore, TokensKept

LEMMA PendingIsMore ==
  ASSUME LexTypeIInv, NEW ts \in WithPending
  PROVE  IsMore(tokens, ts)
<1>1. CASE cur_lexeme = Null
  BY <1>1, SameIsMore DEF WithPending
<1>2. CASE cur_lexeme # Null
  <2>1. PICK token \in Flushed : ts = Append(tokens, token)
    BY <1>2 DEF WithPending
  <2>2. token \in Tokens
    BY <1>2, TypeFacts, FlushedAre
  <2> QED  BY <2>1, <2>2, SameIsMore, AppendIsMore
<1> QED  BY <1>1, <1>2

LEMMA TokensAfter ==
  ASSUME LexTypeIInv, LexTypeIInv', Next
  PROVE  /\ UNCHANGED <<src, data>> /\ IsMore(tokens, tokens')
         /\ \A t \in DOMAIN lexemes \ {cur_lexeme} : lexemes'[t] = lexemes[t]
<1>1. CASE OpenQuote
  <2>1. NewLexeme(1) /\ UNCHANGED <<src, data, tokens>>
    BY <1>1 DEF OpenQuote
  <2>2. \A t \in DOMAIN lexemes : lexemes'[t] = lexemes[t]
    BY <2>1, TypeFacts DEF NewLexeme
  <2> QED  BY <2>1, <2>2, SameIsMore
<1>2. CASE CloseQuote
  <2>1. /\ tokens' = Append(tokens, [type |-> "STR", lexeme |-> cur_lexeme])
        /\ UNCHANGED <<src, data, lexemes>>
    BY <1>2 DEF CloseQuote
  <2>2. [type |-> "STR", lexeme |-> cur_lexeme] \in Tokens
    BY TypeFacts DEF Tokens, TokenTypes
  <2> HIDE DEF TokenTypes
  <2> QED  BY <2>1, <2>2, SameIsMore, AppendIsMore
<1>3. CASE InString
  <2>1. GrowLexeme /\ UNCHANGED <<src, data, tokens>>
    BY <1>3 DEF InString
  <2>2. \A t \in DOMAIN lexemes \ {cur_lexeme} : lexemes'[t] = lexemes[t]
    BY <2>1 DEF GrowLexeme
  <2> QED  BY <2>1, <2>2, SameIsMore
<1>4. CASE SkipWhitespace
  <2>1. tokens' \in WithPending /\ UNCHANGED <<src, data, lexemes>>
    BY Zenon, <1>4 DEF SkipWhitespace
  <2> QED  BY <2>1, PendingIsMore
<1>5. CASE HardBoundary
  <2>1. UNCHANGED <<src, data, lexemes>>
    BY Zenon, <1>5 DEF HardBoundary
  <2>2. PICK ts \in WithPending : tokens' = Append(ts, Token(HardType(Char)))
    BY Zenon, <1>5 DEF HardBoundary
  <2>3. Token(HardType(Char)) \in Tokens
    BY HardTypeIs DEF Token, Tokens, TokenTypes, HardTypes
  <2> QED  BY <2>1, <2>2, <2>3, SameIsMore, PendingIsMore, AppendIsMore
<1>6. CASE LexemeChar
  <2>1. /\ IF cur_lexeme = Null THEN NewLexeme(0) ELSE GrowLexeme /\ UNCHANGED cur_lexeme
        /\ UNCHANGED <<src, data, tokens>>
    BY Zenon, <1>6 DEF LexemeChar
  <2>2. \A t \in DOMAIN lexemes \ {cur_lexeme} : lexemes'[t] = lexemes[t]
    BY <2>1, TypeFacts DEF NewLexeme, GrowLexeme
  <2> QED  BY <2>1, <2>2, SameIsMore
<1>7. CASE Finish
  <2>1. UNCHANGED <<src, data, lexemes>>
    BY <1>7 DEF Finish
  <2>2. PICK ts \in WithPending : tokens' = Append(ts, [type |-> "EOF", lexeme |-> Null])
    BY Zenon, <1>7 DEF Finish
  <2>3. [type |-> "EOF", lexeme |-> Null] \in Tokens
    BY DEF Tokens, TokenTypes
  <2> QED  BY <2>1, <2>2, <2>3, SameIsMore, PendingIsMore, AppendIsMore
<1>8. CASE ParseExpr
  <2>1. UNCHANGED <<src, data, lexemes, tokens>>
    BY <1>8 DEF ParseExpr
  <2> QED  BY <2>1, SameIsMore
<1> QED  BY <1>1, <1>2, <1>3, <1>4, <1>5, <1>6, <1>7, <1>8 DEF Next, Lex

(* A token in the list never changes what it says: the slices that the scan *)
(* goes on moving (lexical_analysis.c:157 and 210) are of lexemes no token  *)
(* with a text points at yet.                                               *)
THEOREM LexerTokensStay == Spec => TokensStay
<1>1. LexTypeIInv /\ LexTypeIInv' /\ [Next]_vars => [IsPrefix(View, View')]_vars
  <2> SUFFICES ASSUME LexTypeIInv, LexTypeIInv', Next
               PROVE  IsPrefix(View, View')
    OBVIOUS
  <2> QED  BY TokensAfter, ViewExtends
<1> QED  BY <1>1, LexTypeInductive, PTL DEF Spec, TokensStay
-----------------------------------------------------------------------------
(* What the definition of the source's tokens says, character by character. *)
LEMMA ParityStart ==
  ASSUME NEW t
  PROVE  QuotesBefore(t, 1) \in Nat /\ ~OddQuotes(t, 1)
<1>1. {j \in 1 .. 1 - 1 : t[j] = Quote} = {}
  OBVIOUS
<1>2. QuotesBefore(t, 1) = 0
  BY <1>1, FS_EmptySet DEF QuotesBefore
<1> QED  BY <1>2 DEF OddQuotes

LEMMA ParityNext ==
  ASSUME NEW t, NEW i \in Nat \ {0}
  PROVE  /\ OddQuotes(t, i + 1) <=> IF t[i] = Quote THEN ~OddQuotes(t, i) ELSE OddQuotes(t, i)
         /\ Opens(t, i) <=> t[i] = Quote /\ ~OddQuotes(t, i)
         /\ IsQuoted(t, i) <=> t[i] # Quote /\ OddQuotes(t, i)
         /\ ~OddQuotes(t, i) <=> QuotesBefore(t, i) % 2 = 0
<1> DEFINE S == {j \in 1 .. i - 1 : t[j] = Quote}
           T == {j \in 1 .. (i + 1) - 1 : t[j] = Quote}
           n == QuotesBefore(t, i)
           m == QuotesBefore(t, i + 1)
<1>1. IsFiniteSet(1 .. i - 1) /\ S \in SUBSET (1 .. i - 1)
  BY FS_Interval
<1>2. IsFiniteSet(S)
  BY <1>1, FS_Subset
<1>3. n = Cardinality(S) /\ m = Cardinality(T) /\ n \in Nat
  BY <1>2, FS_CardinalityType DEF QuotesBefore
<1>4. t[i] = Quote => m = n + 1
  <2> SUFFICES ASSUME t[i] = Quote PROVE m = n + 1
    OBVIOUS
  <2>1. T = S \cup {i} /\ i \notin S
    OBVIOUS
  <2> HIDE DEF S, T, n, m
  <2> QED  BY <1>2, <1>3, <2>1, FS_AddElement
<1>5. t[i] # Quote => m = n
  <2> SUFFICES ASSUME t[i] # Quote PROVE m = n
    OBVIOUS
  <2>1. T = S
    OBVIOUS
  <2> HIDE DEF S, T, n, m
  <2> QED  BY <1>3, <2>1
<1> HIDE DEF S, T
<1>6. n % 2 \in {0, 1} /\ (n + 1) % 2 = IF n % 2 = 1 THEN 0 ELSE 1
  <2> HIDE DEF n
  <2> QED  BY <1>3
<1> HIDE DEF n, m
<1>7. m % 2 = 1 <=> IF t[i] = Quote THEN ~(n % 2 = 1) ELSE n % 2 = 1
  BY <1>4, <1>5, <1>6
<1> QED  BY <1>6, <1>7 DEF OddQuotes, Opens, IsQuoted, n, m

LEMMA QuoteIsSoft == HardType(Quote) = "UNKNOWN"
BY Zenon DEF HardType, Quote

LEMMA WhitespaceIsSoft ==
  ASSUME NEW c \in Whitespace
  PROVE  HardType(c) = "UNKNOWN"
BY Zenon DEF HardType, Whitespace, Space

(* What the i-th character is, and whether a token starts with it. *)
IsStart(t, i) == i \in TokenStarts(t)

LEMMA StartIs ==
  ASSUME NEW t, Len(t) \in Nat, NEW i \in 1 .. Len(t)
  PROVE  IsStart(t, i) <=> \/ IsWordChar(t, i) /\ (i = 1 \/ ~IsWordChar(t, i - 1))
                           \/ Opens(t, i) \/ IsHard(t, i)
BY DEF IsStart, TokenStarts, WordStarts

LEMMA ClosingQuote ==
  ASSUME NEW t, Len(t) \in Nat, NEW i \in 1 .. Len(t), t[i] = Quote, OddQuotes(t, i)
  PROVE  /\ ~IsStart(t, i) /\ ~IsWordChar(t, i) /\ ~IsQuoted(t, i) /\ ~OddQuotes(t, i + 1)
<1>1. ~IsWordChar(t, i) /\ ~IsHard(t, i)
  BY QuoteIsSoft DEF IsWordChar, IsHard
<1> QED  BY <1>1, StartIs, ParityNext

LEMMA OpeningQuote ==
  ASSUME NEW t, Len(t) \in Nat, NEW i \in 1 .. Len(t), t[i] = Quote, ~OddQuotes(t, i)
  PROVE  /\ IsStart(t, i) /\ Opens(t, i) /\ OddQuotes(t, i + 1)
         /\ TokenAt(t, i) = [type |-> "STR", text |-> Quoted(t, i + 1)]
<1>1. Opens(t, i) /\ OddQuotes(t, i + 1)
  BY ParityNext
<1>2. ~IsHard(t, i)
  BY QuoteIsSoft DEF IsHard
<1>3. TokenAt(t, i) = [type |-> "STR", text |-> Quoted(t, i + 1)]
  BY <1>1, <1>2, Zenon DEF TokenAt
<1> QED  BY <1>1, <1>3, StartIs

LEMMA QuotedChar ==
  ASSUME NEW t, Len(t) \in Nat, NEW i \in 1 .. Len(t), t[i] # Quote, OddQuotes(t, i)
  PROVE  ~IsStart(t, i) /\ ~IsWordChar(t, i) /\ IsQuoted(t, i) /\ OddQuotes(t, i + 1)
<1>1. IsQuoted(t, i) /\ OddQuotes(t, i + 1) /\ ~Opens(t, i)
  BY ParityNext
<1>2. ~IsWordChar(t, i) /\ ~IsHard(t, i)
  BY <1>1 DEF IsWordChar, IsHard
<1> QED  BY <1>1, <1>2, StartIs

LEMMA SpaceChar ==
  ASSUME NEW t, Len(t) \in Nat, NEW i \in 1 .. Len(t), t[i] # Quote, ~OddQuotes(t, i),
         t[i] \in Whitespace
  PROVE  ~IsStart(t, i) /\ ~IsWordChar(t, i) /\ ~OddQuotes(t, i + 1)
<1>1. ~IsQuoted(t, i) /\ ~OddQuotes(t, i + 1) /\ ~Opens(t, i)
  BY ParityNext
<1>2. ~IsWordChar(t, i) /\ ~IsHard(t, i)
  BY <1>1, WhitespaceIsSoft DEF IsWordChar, IsHard
<1> QED  BY <1>1, <1>2, StartIs

LEMMA HardChar ==
  ASSUME NEW t, Len(t) \in Nat, NEW i \in 1 .. Len(t), t[i] # Quote, ~OddQuotes(t, i),
         HardType(t[i]) # "UNKNOWN"
  PROVE  /\ IsStart(t, i) /\ ~IsWordChar(t, i) /\ ~OddQuotes(t, i + 1)
         /\ TokenAt(t, i) = [type |-> HardType(t[i]), text |-> <<>>]
<1>1. ~IsQuoted(t, i) /\ ~OddQuotes(t, i + 1) /\ ~Opens(t, i)
  BY ParityNext
<1>2. ~IsWordChar(t, i) /\ IsHard(t, i)
  BY <1>1 DEF IsWordChar, IsHard
<1>3. TokenAt(t, i) = [type |-> HardType(t[i]), text |-> <<>>]
  BY <1>1, <1>2, Zenon DEF TokenAt
<1> QED  BY <1>1, <1>2, <1>3, StartIs

LEMMA WordChar ==
  ASSUME NEW t, Len(t) \in Nat, NEW i \in 1 .. Len(t), t[i] # Quote, ~OddQuotes(t, i),
         t[i] \notin Whitespace, HardType(t[i]) = "UNKNOWN"
  PROVE  /\ IsWordChar(t, i) /\ ~OddQuotes(t, i + 1)
         /\ IsStart(t, i) <=> i = 1 \/ ~IsWordChar(t, i - 1)
<1>1. ~IsQuoted(t, i) /\ ~OddQuotes(t, i + 1) /\ ~Opens(t, i)
  BY ParityNext
<1>2. IsWordChar(t, i) /\ ~IsHard(t, i)
  BY <1>1 DEF IsWordChar, IsHard
<1> QED  BY <1>1, <1>2, StartIs

(* Of a character of a word, the first one says what token it is. *)
LEMMA WordToken ==
  ASSUME NEW t, Len(t) \in Nat, NEW p \in WordStarts(t)
  PROVE  /\ p \in 1 .. Len(t) /\ IsWordChar(t, p)
         /\ TokenAt(t, p) = [type |-> WordType(Word(t, p)),
                             text |-> IF WordType(Word(t, p)) = "IDENTIFIER" THEN Word(t, p)
                                                                             ELSE <<>>]
<1>1. p \in 1 .. Len(t) /\ IsWordChar(t, p)
  BY DEF WordStarts
<1>2. ~Opens(t, p) /\ ~IsHard(t, p)
  BY <1>1 DEF IsWordChar, Opens
<1> QED  BY <1>1, <1>2 DEF TokenAt

IsRun(R, t, p, j) ==
  /\ j \in p .. Len(t) /\ \A k \in p .. j : k \in R
  /\ j = Len(t) \/ j + 1 \notin R

LEMMA RunEndsOnce ==
  ASSUME NEW R, NEW t, Len(t) \in Nat, NEW p \in Nat, NEW j, IsRun(R, t, p, j),
         NEW k, IsRun(R, t, p, k)
  PROVE  j = k
<1>1. j \in p .. Len(t) /\ k \in p .. Len(t)
  BY DEF IsRun
<1>2. ~(j < k)
  <2> SUFFICES ASSUME j < k PROVE FALSE
    OBVIOUS
  <2>1. j + 1 \in p .. k /\ j # Len(t)
    BY <1>1
  <2> QED  BY <2>1 DEF IsRun
<1>3. ~(k < j)
  <2> SUFFICES ASSUME k < j PROVE FALSE
    OBVIOUS
  <2>1. k + 1 \in p .. j /\ k # Len(t)
    BY <1>1
  <2> QED  BY <2>1 DEF IsRun
<1> QED  BY <1>1, <1>2, <1>3

LEMMA WordIs ==
  ASSUME NEW t, Len(t) \in Nat, NEW p \in 1 .. Len(t), NEW j \in p .. Len(t),
         \A k \in p .. j : IsWordChar(t, k), j = Len(t) \/ ~IsWordChar(t, j + 1)
  PROVE  Word(t, p) = SubSeq(t, p, j)
<1> DEFINE R == {k \in 1 .. Len(t) : IsWordChar(t, k)}
           Ends(x) == /\ \A k \in p .. x : IsWordChar(t, k)
                      /\ x = Len(t) \/ ~IsWordChar(t, x + 1)
<1>1. \A x \in p .. Len(t) : Ends(x) => IsRun(R, t, p, x)
  <2> SUFFICES ASSUME NEW x \in p .. Len(t), Ends(x) PROVE IsRun(R, t, p, x)
    OBVIOUS
  <2>1. \A k \in p .. x : k \in 1 .. Len(t)
    OBVIOUS
  <2> QED  BY <2>1 DEF IsRun
<1>2. Ends(j)
  OBVIOUS
<1> HIDE DEF Ends, R
<1>3. \A x \in p .. Len(t) : Ends(x) => x = j
  BY <1>1, <1>2, RunEndsOnce
<1>4. (CHOOSE x \in p .. Len(t) : Ends(x)) = j
  BY <1>2, <1>3
<1> QED  BY <1>4, Zenon DEF Word, Ends

LEMMA QuotedIs ==
  ASSUME NEW t, Len(t) \in Nat, NEW p \in 1 .. Len(t), NEW j \in p .. Len(t),
         \A k \in p .. j : IsQuoted(t, k), j = Len(t) \/ ~IsQuoted(t, j + 1)
  PROVE  Quoted(t, p) = SubSeq(t, p, j)
<1> DEFINE R == {k \in 1 .. Len(t) : IsQuoted(t, k)}
           Ends(x) == /\ \A k \in p .. x : IsQuoted(t, k)
                      /\ x = Len(t) \/ ~IsQuoted(t, x + 1)
<1>1. \A x \in p .. Len(t) : Ends(x) => IsRun(R, t, p, x)
  <2> SUFFICES ASSUME NEW x \in p .. Len(t), Ends(x) PROVE IsRun(R, t, p, x)
    OBVIOUS
  <2>1. \A k \in p .. x : k \in 1 .. Len(t)
    OBVIOUS
  <2> QED  BY <2>1 DEF IsRun
<1>2. Ends(j)
  OBVIOUS
<1> HIDE DEF Ends, R
<1>3. \A x \in p .. Len(t) : Ends(x) => x = j
  BY <1>1, <1>2, RunEndsOnce
<1>4. (CHOOSE x \in p .. Len(t) : Ends(x)) = j
  BY <1>2, <1>3
<1> QED  BY <1>4, Zenon DEF Quoted, Ends

(* The tokens before one more character. *)
LEMMA TokensBeforeNone ==
  ASSUME NEW t
  PROVE  TokensBefore(t, 1) = <<>>
<1> DEFINE u == [i \in 1 .. 1 - 1 |-> IF i \in TokenStarts(t) THEN <<TokenAt(t, i)>> ELSE <<>>]
<1>1. u = <<>>
  OBVIOUS
<1>2. u \in Seq(Seq({})) /\ Len(u) = 0
  BY <1>1
<1> HIDE DEF u
<1>3. FlattenSeq(u) = <<>>
  BY <1>2, FlattenEmpty
<1> QED  BY <1>3 DEF TokensBefore, u

LEMMA TokensBeforeNext ==
  ASSUME NEW t, NEW n \in Nat \ {0}
  PROVE  TokensBefore(t, n + 1) = IF IsStart(t, n) THEN Append(TokensBefore(t, n), TokenAt(t, n))
                                                   ELSE TokensBefore(t, n)
<1> DEFINE S == {TokenAt(t, i) : i \in 1 .. n}
           u == [i \in 1 .. n - 1 |-> IF i \in TokenStarts(t) THEN <<TokenAt(t, i)>> ELSE <<>>]
           v == [i \in 1 .. n |-> IF i \in TokenStarts(t) THEN <<TokenAt(t, i)>> ELSE <<>>]
<1>1. \A i \in 1 .. n : (IF i \in TokenStarts(t) THEN <<TokenAt(t, i)>> ELSE <<>>) \in Seq(S)
  <2> TAKE i \in 1 .. n
  <2> DEFINE x == TokenAt(t, i)
  <2>1. x \in S
    OBVIOUS
  <2> HIDE DEF x, S
  <2>2. <<x>> \in Seq(S) /\ <<>> \in Seq(S)
    BY <2>1
  <2> QED  BY <2>2 DEF x
<1>2. n - 1 \in Nat /\ n \in Nat /\ \A i \in 1 .. n - 1 : i \in 1 .. n
  OBVIOUS
<1>3. u \in [1 .. n - 1 -> Seq(S)] /\ v \in [1 .. n -> Seq(S)]
  <2> HIDE DEF S
  <2> QED  BY <1>1, <1>2
<1>4. /\ \A i \in 1 .. n - 1 : v[i] = u[i]
      /\ v[n] = IF IsStart(t, n) THEN <<TokenAt(t, n)>> ELSE <<>>
  BY <1>2 DEF IsStart
<1>5. TokensBefore(t, n) = FlattenSeq(u)
  BY DEF TokensBefore
<1>6. TokensBefore(t, n + 1) = FlattenSeq(v)
  <2>1. (n + 1) - 1 = n
    OBVIOUS
  <2> QED  BY <2>1 DEF TokensBefore
<1> HIDE DEF u, v, S
<1>7. u \in Seq(Seq(S)) /\ v \in Seq(Seq(S)) /\ Len(u) = n - 1 /\ Len(v) = n
  BY <1>2, <1>3, SeqDef
<1>8. (n - 1) + 1 = n
  OBVIOUS
<1>9. FlattenSeq(v) = FlattenSeq(u) \o v[n] /\ FlattenSeq(u) \in Seq(S)
  BY <1>2, <1>4, <1>7, <1>8, FlattenSnoc, FlattenIsSeq
<1>10. CASE IsStart(t, n)
  <2> DEFINE x == TokenAt(t, n)
             s == FlattenSeq(u)
  <2>1. x \in S
    BY <1>2 DEF S
  <2> HIDE DEF x, S, s
  <2>2. s \o <<x>> = Append(s, x)
    BY <1>9, <2>1, AppendIsConcat DEF s
  <2> QED  BY <1>4, <1>5, <1>6, <1>9, <1>10, <2>2 DEF s, x
<1>11. CASE ~IsStart(t, n)
  <2> DEFINE s == FlattenSeq(u)
  <2> HIDE DEF s, S
  <2>1. s \o <<>> = s
    BY <1>9 DEF s
  <2> QED  BY <1>4, <1>5, <1>6, <1>9, <1>11, <2>1 DEF s
<1> QED  BY <1>10, <1>11
-----------------------------------------------------------------------------
(* What a slice of the source designates: pointers from the p-th character  *)
(* to the j-th, block by block.                                             *)
Run(b, from, to) == [i \in 1 .. to - from |-> [block |-> b, off |-> from + i - 1]]
Parts(a, q, p, j) ==
  LET h == InBlock(p, q)
      k == InBlock(j, q)
  IN  [i \in 1 .. k - h + 1 |->
         Run(Chain(a)[h + i - 1], IF i = 1 THEN InOffset(p, q) ELSE 0,
             IF i = k - h + 1 THEN InOffset(j, q) + 1 ELSE q)]
Places(a, p, j) == [i \in 1 .. j - p + 1 |-> Place(a, p + i - 1)]

LEMMA RunType ==
  ASSUME NEW b \in Blocks, NEW from \in Nat, NEW to \in Nat
  PROVE  Run(b, from, to) \in Seq(ElemPtr)
<1> DEFINE n == IF from <= to THEN to - from ELSE 0
<1>1. n \in Nat /\ 1 .. n = 1 .. to - from
  OBVIOUS
<1>2. Run(b, from, to) = [i \in 1 .. n |-> [block |-> b, off |-> from + i - 1]]
  BY <1>1 DEF Run
<1>3. \A i \in 1 .. n : [block |-> b, off |-> from + i - 1] \in ElemPtr
  <2> TAKE i \in 1 .. n
  <2>1. from + i - 1 \in Nat
    BY <1>1
  <2> QED  BY <2>1 DEF ElemPtr
<1> HIDE DEF n
<1>4. Run(b, from, to) \in [1 .. n -> ElemPtr]
  BY <1>2, <1>3
<1> QED  BY <1>1, <1>4, SeqDef

LEMMA RunLonger ==
  ASSUME NEW b \in Blocks, NEW from \in Nat, NEW to \in Nat, from <= to
  PROVE  Run(b, from, to + 1) = Run(b, from, to) \o <<[block |-> b, off |-> to]>>
<1> DEFINE u == Run(b, from, to)
           v == Run(b, from, to + 1)
           n == to - from
           x == [block |-> b, off |-> to]
<1>1. n \in Nat /\ (to + 1) - from = n + 1 /\ from + (n + 1) - 1 = to
  OBVIOUS
<1>2. /\ DOMAIN u = 1 .. n /\ \A i \in 1 .. n : u[i] = [block |-> b, off |-> from + i - 1]
      /\ DOMAIN v = 1 .. n + 1
      /\ \A i \in 1 .. n + 1 : v[i] = [block |-> b, off |-> from + i - 1]
  BY <1>1 DEF Run
<1>3. u \in Seq(ElemPtr) /\ v \in Seq(ElemPtr) /\ x \in ElemPtr
  <2>1. to + 1 \in Nat
    OBVIOUS
  <2>2. u \in Seq(ElemPtr) /\ v \in Seq(ElemPtr)
    BY <2>1, RunType
  <2> QED  BY <2>2 DEF ElemPtr
<1> HIDE DEF u, v, n
<1>4. Len(u) = n /\ Len(v) = n + 1
  BY <1>1, <1>2, <1>3
<1>5. v[n + 1] = x
  BY <1>1, <1>2
<1> HIDE DEF x
<1>6. u \o <<x>> \in Seq(ElemPtr) /\ Len(u \o <<x>>) = n + 1
  BY <1>1, <1>3, <1>4
<1>7. \A i \in 1 .. n + 1 : v[i] = (u \o <<x>>)[i]
  <2> TAKE i \in 1 .. n + 1
  <2>1. CASE i \in 1 .. n
    <3>1. (u \o <<x>>)[i] = u[i]
      BY <1>3, <1>4, <2>1
    <3> QED  BY <1>2, <2>1, <3>1
  <2>2. CASE i = n + 1
    <3>1. (u \o <<x>>)[n + 1] = x
      BY <1>1, <1>3, <1>4
    <3> QED  BY <1>5, <2>2, <3>1
  <2>3. i \in 1 .. n \/ i = n + 1
    BY <1>1
  <2> QED  BY <2>1, <2>2, <2>3
<1>8. v = u \o <<x>>
  BY <1>1, <1>3, <1>4, <1>6, <1>7, SeqEqual
<1> QED  BY <1>8 DEF u, v, x

LEMMA RunOfOne ==
  ASSUME NEW b, NEW o \in Nat
  PROVE  Run(b, o, o + 1) = <<[block |-> b, off |-> o]>>
<1>1. (o + 1) - o = 1 /\ o + 1 - 1 = o
  OBVIOUS
<1>2. Run(b, o, o + 1) = [i \in 1 .. 1 |-> [block |-> b, off |-> o + i - 1]]
  BY <1>1 DEF Run
<1>3. Run(b, o, o + 1) = [i \in 1 .. 1 |-> [block |-> b, off |-> o]]
  BY <1>1, <1>2
<1> QED  BY <1>3

LEMMA SliceUnfolds ==
  ASSUME NEW a, NEW d, NEW s, Laid(a, d, s), NEW p \in 1 .. Len(s.text),
         NEW j \in 1 .. Len(s.text), NEW sl, Covers(a, sl, p, j)
  PROVE  SlicePtrs(a, sl) = FlattenSeq(Parts(a, s.block_size, p, j))
<1> DEFINE q == s.block_size
           h == InBlock(p, q)
           k == InBlock(j, q)
           c == Chain(a)
           At(b) == CHOOSE i \in 1 .. a.block_count : c[i] = b
           From(b) == IF b = sl.head_block THEN sl.head_offset ELSE a.block[b].left_offset
           To(b) == IF b = sl.tail_block THEN sl.tail_offset ELSE a.block[b].right_offset
           Piece(b) == [i \in 1 .. To(b) - From(b) |-> [block |-> b, off |-> From(b) + i - 1]]
<1>1. /\ h \in 1 .. a.block_count /\ k \in 1 .. a.block_count
      /\ sl.head_block = c[h] /\ sl.head_offset = InOffset(p, q)
      /\ sl.tail_block = c[k] /\ sl.tail_offset = InOffset(j, q) + 1
  BY PlaceIsIn DEF Covers
<1>2. /\ a.block_count \in Nat
      /\ \A x, y \in 1 .. a.block_count : c[x] = c[y] => x = y
      /\ \A x \in 1 .. a.block_count : c[x] \in a.live
      /\ \A b \in a.live : a.block[b].left_offset = 0 /\ a.block[b].right_offset = q
  BY LaidFacts
<1> HIDE DEF c, h, k
<1>3. At(sl.head_block) = h /\ At(sl.tail_block) = k
  BY <1>1, <1>2
<1>4. SlicePtrs(a, sl)
        = FlattenSeq([i \in 1 .. At(sl.tail_block) - At(sl.head_block) + 1 |->
                        Piece(c[At(sl.head_block) + i - 1])])
  BY Zenon DEF SlicePtrs, c
<1> HIDE DEF At
<1>5. SlicePtrs(a, sl) = FlattenSeq([i \in 1 .. k - h + 1 |-> Piece(c[h + i - 1])])
  BY <1>3, <1>4, Zenon
<1>6. \A i \in 1 .. k - h + 1 :
         Piece(c[h + i - 1]) = Run(c[h + i - 1], IF i = 1 THEN InOffset(p, q) ELSE 0,
                                  IF i = k - h + 1 THEN InOffset(j, q) + 1 ELSE q)
  <2> TAKE i \in 1 .. k - h + 1
  <2> DEFINE x == h + i - 1
  <2>1. x \in 1 .. a.block_count /\ (x = h <=> i = 1) /\ (x = k <=> i = k - h + 1)
    BY <1>1, <1>2
  <2> HIDE DEF x
  <2>2. /\ c[x] = sl.head_block <=> i = 1
        /\ c[x] = sl.tail_block <=> i = k - h + 1
    BY <1>1, <1>2, <2>1
  <2>3. From(c[x]) = IF i = 1 THEN InOffset(p, q) ELSE 0
    BY <1>1, <1>2, <2>1, <2>2
  <2>4. To(c[x]) = IF i = k - h + 1 THEN InOffset(j, q) + 1 ELSE q
    BY <1>1, <1>2, <2>1, <2>2
  <2> HIDE DEF From, To
  <2>5. Piece(c[x]) = Run(c[x], From(c[x]), To(c[x]))
    BY DEF Run
  <2> QED  BY <2>3, <2>4, <2>5, Zenon DEF x
<1> HIDE DEF Part
<1>7. [i \in 1 .. k - h + 1 |-> Piece(c[h + i - 1])] = Parts(a, q, p, j)
  BY <1>6, Zenon DEF Parts, h, k, c
<1> QED  BY <1>5, <1>7

LEMMA PartsType ==
  ASSUME NEW a, NEW d, NEW s, Laid(a, d, s), NEW p \in 1 .. Len(s.text),
         NEW j \in p .. Len(s.text)
  PROVE  LET n == InBlock(j, s.block_size) - InBlock(p, s.block_size) + 1
         IN  /\ n \in Nat \ {0} /\ Parts(a, s.block_size, p, j) \in Seq(Seq(ElemPtr))
             /\ Len(Parts(a, s.block_size, p, j)) = n
             /\ n = 1 => InOffset(p, s.block_size) <= InOffset(j, s.block_size)
<1> DEFINE q == s.block_size
           h == InBlock(p, q)
           k == InBlock(j, q)
           op == InOffset(p, q)
           oj == InOffset(j, q)
           n == k - h + 1
           u == Parts(a, q, p, j)
<1>1. q \in Nat \ {0} /\ Len(s.text) \in Nat
  BY LaidFacts
<1>2. j \in 1 .. Len(s.text)
  BY <1>1
<1>3. /\ h \in 1 .. a.block_count /\ op \in 0 .. q - 1 /\ p = (h - 1) * q + op + 1
      /\ k \in 1 .. a.block_count /\ oj \in 0 .. q - 1 /\ j = (k - 1) * q + oj + 1
  BY <1>2, PlaceIsIn
<1>4. a.block_count \in Nat /\ a.live \subseteq Blocks /\ \A i \in 1 .. a.block_count : Chain(a)[i] \in a.live
  BY LaidFacts
<1> HIDE DEF h, k, op, oj
<1>5. h <= k
  <2> SUFFICES ASSUME k + 1 <= h PROVE FALSE
    BY <1>3, <1>4
  <2>1. k * q <= (h - 1) * q
    <3>1. k \in Nat /\ h - 1 \in Nat /\ k <= h - 1
      BY <1>3, <1>4
    <3> QED  BY <1>1, <3>1
  <2>2. k * q = (k - 1) * q + q
    BY <1>1, <1>3, <1>4
  <2> DEFINE x == (h - 1) * q
             y == (k - 1) * q
  <2>3. x \in Int /\ y \in Int /\ y + q <= x /\ p = x + op + 1 /\ j = y + oj + 1
    BY <1>1, <1>3, <1>4, <2>1, <2>2
  <2> HIDE DEF x, y
  <2> QED  BY <1>1, <1>3, <2>3
<1>6. n \in Nat \ {0}
  BY <1>3, <1>4, <1>5
<1>7. n = 1 => op <= oj
  <2> SUFFICES ASSUME k = h PROVE op <= oj
    BY <1>3, <1>4
  <2> DEFINE x == (h - 1) * q
  <2>1. x \in Int /\ p = x + op + 1 /\ j = x + oj + 1
    BY <1>1, <1>3, <1>4
  <2> HIDE DEF x
  <2> QED  BY <1>1, <1>3, <2>1
<1>8. \A i \in 1 .. n : Run(Chain(a)[h + i - 1], IF i = 1 THEN op ELSE 0,
                            IF i = n THEN oj + 1 ELSE q) \in Seq(ElemPtr)
  <2> TAKE i \in 1 .. n
  <2> DEFINE b == Chain(a)[h + i - 1]
             from == IF i = 1 THEN op ELSE 0
             to == IF i = n THEN oj + 1 ELSE q
  <2>1. h + i - 1 \in 1 .. a.block_count
    BY <1>3, <1>4
  <2>2. b \in Blocks
    BY <1>4, <2>1
  <2>3. from \in Nat /\ to \in Nat
    <3> HIDE DEF n
    <3> QED  BY <1>1, <1>3
  <2> HIDE DEF b, from, to
  <2>4. Run(b, from, to) \in Seq(ElemPtr)
    BY <2>2, <2>3, RunType
  <2> QED  BY <2>4 DEF b, from, to
<1>9. u = [i \in 1 .. n |-> Run(Chain(a)[h + i - 1], IF i = 1 THEN op ELSE 0,
                                IF i = n THEN oj + 1 ELSE q)]
  BY DEF Parts, h, k, op, oj
<1> HIDE DEF u, n
<1>10. u \in [1 .. n -> Seq(ElemPtr)]
  BY <1>8, <1>9
<1>11. u \in Seq(Seq(ElemPtr)) /\ Len(u) = n
  BY <1>6, <1>10, SeqDef
<1> QED  BY <1>6, <1>7, <1>11 DEF u, n, h, k, op, oj

(* One character more at the end: the last part grows, or another follows. *)
LEMMA PartsGrow ==
  ASSUME NEW a, NEW d, NEW s, Laid(a, d, s), NEW p \in 1 .. Len(s.text),
         NEW j \in p .. Len(s.text) - 1
  PROVE  FlattenSeq(Parts(a, s.block_size, p, j + 1))
           = FlattenSeq(Parts(a, s.block_size, p, j)) \o <<Place(a, j + 1)>>
<1> DEFINE q == s.block_size
           h == InBlock(p, q)
           k == InBlock(j, q)
           op == InOffset(p, q)
           oj == InOffset(j, q)
           n == k - h + 1
           u == Parts(a, q, p, j)
           v == Parts(a, q, p, j + 1)
           x == Place(a, j + 1)
           From(i) == IF i = 1 THEN op ELSE 0
<1>1. /\ q \in Nat \ {0} /\ Len(s.text) \in Nat /\ a.block_count \in Nat
      /\ Len(s.text) = a.block_count * q
  BY LaidFacts
<1>2. j \in p .. Len(s.text) /\ j + 1 \in p .. Len(s.text) /\ j \in 1 .. Len(s.text)
      /\ j + 1 \in 1 .. Len(s.text)
  BY <1>1
<1>3. /\ h \in 1 .. a.block_count /\ op \in 0 .. q - 1
      /\ k \in 1 .. a.block_count /\ oj \in 0 .. q - 1
      /\ Chain(a)[k] \in Blocks
  BY <1>2, PlaceIsIn
<1>4. /\ n \in Nat \ {0} /\ u \in Seq(Seq(ElemPtr)) /\ Len(u) = n /\ (n = 1 => op <= oj)
  BY <1>2, PartsType
<1>5. v \in Seq(Seq(ElemPtr)) /\ Len(v) = InBlock(j + 1, q) - h + 1
  BY <1>2, PartsType
<1>6. /\ oj + 1 < q => InBlock(j + 1, q) = k /\ InOffset(j + 1, q) = oj + 1
      /\ oj + 1 >= q => InBlock(j + 1, q) = k + 1 /\ InOffset(j + 1, q) = 0
  <2>1. j \in 1 .. a.block_count * q
    BY <1>1, <1>2
  <2> QED  BY <1>1, <2>1, PlaceNext
<1>7. /\ x = [block |-> Chain(a)[InBlock(j + 1, q)], off |-> InOffset(j + 1, q)]
      /\ Chain(a)[InBlock(j + 1, q)] \in Blocks /\ InOffset(j + 1, q) \in 0 .. q - 1
  BY <1>2, PlaceIsIn
<1>8. /\ u = [i \in 1 .. n |-> Run(Chain(a)[h + i - 1], From(i), IF i = n THEN oj + 1 ELSE q)]
      /\ v = [i \in 1 .. InBlock(j + 1, q) - h + 1 |->
                Run(Chain(a)[h + i - 1], From(i),
                    IF i = InBlock(j + 1, q) - h + 1 THEN InOffset(j + 1, q) + 1 ELSE q)]
  BY DEF Parts
<1> HIDE DEF u, v, h, k, op, oj, x
<1>9. h + n - 1 = k /\ \A i \in 1 .. n : From(i) \in Nat
  BY <1>3, <1>4
<1>10. x \in ElemPtr
  <2>1. InOffset(j + 1, q) \in Nat
    BY <1>1, <1>7
  <2> QED  BY <1>7, <2>1 DEF ElemPtr
<1>11. CASE oj + 1 < q
  <2>1. /\ Len(v) = n /\ x = [block |-> Chain(a)[k], off |-> oj + 1]
        /\ v = [i \in 1 .. n |-> Run(Chain(a)[h + i - 1], From(i), IF i = n THEN oj + 2 ELSE q)]
    <3>1. InBlock(j + 1, q) = k /\ InOffset(j + 1, q) = oj + 1 /\ (oj + 1) + 1 = oj + 2
      BY <1>1, <1>3, <1>6, <1>11
    <3> QED  BY <1>5, <1>7, <1>8, <3>1, Zenon
  <2> HIDE DEF n
  <2>2. n \in 1 .. n /\ n \in Nat \ {0}
    BY <1>4
  <2>3. /\ u[n] = Run(Chain(a)[k], From(n), oj + 1)
        /\ v[n] = Run(Chain(a)[k], From(n), oj + 2)
    BY <1>8, <1>9, <2>1, <2>2
  <2>4. From(n) \in Nat /\ oj + 1 \in Nat /\ From(n) <= oj + 1 /\ oj + 2 = (oj + 1) + 1
    BY <1>1, <1>3, <1>4, <1>9, <2>2
  <2> DEFINE from == From(n)
  <2> HIDE DEF From, from
  <2>5. v[n] = u[n] \o <<x>>
    <3>1. Run(Chain(a)[k], from, (oj + 1) + 1)
            = Run(Chain(a)[k], from, oj + 1) \o <<[block |-> Chain(a)[k], off |-> oj + 1]>>
      BY <1>3, <2>4, RunLonger DEF from
    <3> QED  BY <2>1, <2>3, <2>4, <3>1 DEF from
  <2>6. \A i \in 1 .. n - 1 : v[i] = u[i]
    <3> TAKE i \in 1 .. n - 1
    <3>1. i \in 1 .. n /\ i # n
      BY <2>2
    <3> QED  BY <1>8, <2>1, <3>1
  <2>7. <<x>> \in Seq(ElemPtr)
    BY <1>10
  <2> DEFINE e == <<x>>
  <2>8. LastGrows(ElemPtr, u, v, n, e)
    BY <1>4, <1>5, <2>1, <2>2, <2>5, <2>6, <2>7 DEF LastGrows
  <2> HIDE DEF e
  <2>9. FlattenSeq(v) = FlattenSeq(u) \o e
    BY <2>8, FlattenLastGrown
  <2> QED  BY <2>9 DEF u, v, x, e
<1>12. CASE oj + 1 >= q
  <2>1. oj + 1 = q
    BY <1>1, <1>3, <1>12
  <2>2. /\ Len(v) = n + 1 /\ x = [block |-> Chain(a)[k + 1], off |-> 0]
        /\ Chain(a)[k + 1] \in Blocks
        /\ v = [i \in 1 .. n + 1 |-> Run(Chain(a)[h + i - 1], From(i), IF i = n + 1 THEN 1 ELSE q)]
    <3>1. InBlock(j + 1, q) - h + 1 = n + 1 /\ InOffset(j + 1, q) + 1 = 1
      BY <1>3, <1>6, <1>12
    <3> QED  BY <1>5, <1>6, <1>7, <1>8, <1>12, <3>1
  <2>3. h + (n + 1) - 1 = k + 1 /\ From(n + 1) = 0 /\ n + 1 \in 1 .. n + 1
    BY <1>3, <1>4
  <2> HIDE DEF n, From
  <2>4. v[n + 1] = Run(Chain(a)[k + 1], 0, 1)
    BY <2>2, <2>3
  <2>5. v[n + 1] = <<x>>
    <3>1. 0 \in Nat /\ 0 + 1 = 1
      OBVIOUS
    <3> QED  BY <2>2, <2>4, <3>1, RunOfOne
  <2>6. \A i \in 1 .. n : v[i] = u[i]
    <3> TAKE i \in 1 .. n
    <3>1. i \in 1 .. n + 1 /\ i # n + 1
      BY <1>4
    <3>2. v[i] = Run(Chain(a)[h + i - 1], From(i), q)
      BY <2>2, <3>1
    <3>3. u[i] = Run(Chain(a)[h + i - 1], From(i), q)
      BY <1>8, <2>1
    <3> QED  BY <3>2, <3>3
  <2>7. FlattenSeq(v) = FlattenSeq(u) \o v[n + 1]
    <3>1. u \in Seq(Seq(ElemPtr)) /\ v \in Seq(Seq(ElemPtr)) /\ n \in Nat
          /\ Len(u) = n /\ Len(v) = n + 1
      BY <1>4, <1>5, <2>2
    <3> QED  BY <2>6, <3>1, FlattenSnoc
  <2>8. FlattenSeq(v) = FlattenSeq(u) \o <<x>>
    BY <2>5, <2>7
  <2> QED  BY <2>8 DEF u, v, x
<1>13. oj + 1 < q \/ oj + 1 >= q
  BY <1>1, <1>3
<1> QED  BY <1>11, <1>12, <1>13

LEMMA PlacesType ==
  ASSUME NEW a, NEW d, NEW s, Laid(a, d, s), NEW p \in 1 .. Len(s.text),
         NEW j \in p .. Len(s.text)
  PROVE  /\ Places(a, p, j) \in Seq(ElemPtr) /\ Len(Places(a, p, j)) = j - p + 1
         /\ \A i \in 1 .. j - p + 1 : Places(a, p, j)[i] = Place(a, p + i - 1)
         /\ \A i \in 1 .. j - p + 1 : p + i - 1 \in 1 .. Len(s.text)
<1>1. Len(s.text) \in Nat /\ s.block_size \in Nat /\ j - p + 1 \in Nat
  BY LaidFacts
<1>2. \A i \in 1 .. j - p + 1 : p + i - 1 \in 1 .. Len(s.text)
  BY <1>1
<1>3. \A i \in 1 .. Len(s.text) : Place(a, i) \in ElemPtr
  <2> TAKE i \in 1 .. Len(s.text)
  <2> DEFINE k == InBlock(i, s.block_size)
             o == InOffset(i, s.block_size)
  <2>1. Place(a, i) = [block |-> Chain(a)[k], off |-> o] /\ Chain(a)[k] \in Blocks
        /\ o \in 0 .. s.block_size - 1
    BY PlaceIsIn
  <2> HIDE DEF k, o
  <2>2. o \in Nat
    BY <1>1, <2>1
  <2> QED  BY <2>1, <2>2 DEF ElemPtr
<1>4. Places(a, p, j) \in [1 .. j - p + 1 -> ElemPtr]
  BY <1>2, <1>3 DEF Places
<1>5. \A i \in 1 .. j - p + 1 : Places(a, p, j)[i] = Place(a, p + i - 1)
  BY DEF Places
<1> QED  BY <1>1, <1>2, <1>4, <1>5, SeqDef

LEMMA PartsArePlaces ==
  ASSUME NEW a, NEW d, NEW s, Laid(a, d, s), NEW p \in 1 .. Len(s.text),
         NEW j \in p .. Len(s.text)
  PROVE  FlattenSeq(Parts(a, s.block_size, p, j)) = Places(a, p, j)
<1> DEFINE q == s.block_size
           l == Len(s.text)
           T == {i \in p .. l : FlattenSeq(Parts(a, q, p, i)) = Places(a, p, i)}
<1>1. l \in Nat /\ q \in Nat \ {0}
  BY LaidFacts
<1>2. p \in T
  <2> DEFINE k == InBlock(p, q)
             o == InOffset(p, q)
  <2>1. p \in p .. l
    BY <1>1
  <2>2. /\ Parts(a, q, p, p) \in Seq(Seq(ElemPtr)) /\ Len(Parts(a, q, p, p)) = k - k + 1
        /\ k \in 1 .. a.block_count /\ o \in 0 .. q - 1
        /\ Place(a, p) = [block |-> Chain(a)[k], off |-> o]
    BY <2>1, PartsType, PlaceIsIn
  <2>3. Parts(a, q, p, p)
          = [i \in 1 .. k - k + 1 |-> Run(Chain(a)[k + i - 1], IF i = 1 THEN o ELSE 0,
                                          IF i = k - k + 1 THEN o + 1 ELSE q)]
    BY DEF Parts
  <2> HIDE DEF k, o
  <2>4. k \in Int /\ k - k + 1 = 1 /\ k + 1 - 1 = k /\ o \in Nat
    BY <1>1, <2>2
  <2>5. Parts(a, q, p, p)[1] = Run(Chain(a)[k], o, o + 1)
    BY <2>3, <2>4
  <2>6. FlattenSeq(Parts(a, q, p, p)) = <<Place(a, p)>>
    BY <2>2, <2>4, <2>5, RunOfOne, FlattenOne
  <2>7. Places(a, p, p) = <<Place(a, p)>>
    <3>1. p - p + 1 = 1 /\ p + 1 - 1 = p
      BY <1>1
    <3>2. Places(a, p, p) = [i \in 1 .. 1 |-> Place(a, p + i - 1)]
      BY <3>1 DEF Places
    <3>3. Places(a, p, p) = [i \in 1 .. 1 |-> Place(a, p)]
      BY <3>1, <3>2
    <3> QED  BY <3>3
  <2> QED  BY <2>1, <2>6, <2>7
<1>3. ASSUME NEW i \in p .. l - 1, i \in T
      PROVE  i + 1 \in T
  <2>1. i \in p .. l /\ i + 1 \in p .. l
    BY <1>1
  <2>2. FlattenSeq(Parts(a, q, p, i + 1)) = Places(a, p, i) \o <<Place(a, i + 1)>>
    BY <1>3, PartsGrow
  <2> DEFINE u == Places(a, p, i)
             v == Places(a, p, i + 1)
             x == Place(a, i + 1)
             n == i - p + 1
  <2>3. /\ u \in Seq(ElemPtr) /\ Len(u) = n /\ \A y \in 1 .. n : u[y] = Place(a, p + y - 1)
        /\ v \in Seq(ElemPtr) /\ Len(v) = (i + 1) - p + 1
        /\ \A y \in 1 .. (i + 1) - p + 1 : v[y] = Place(a, p + y - 1)
    <3>1. /\ u \in Seq(ElemPtr) /\ Len(u) = n
          /\ \A y \in 1 .. n : u[y] = Place(a, p + y - 1)
      BY <2>1, PlacesType
    <3>2. /\ v \in Seq(ElemPtr) /\ Len(v) = (i + 1) - p + 1
          /\ \A y \in 1 .. (i + 1) - p + 1 : v[y] = Place(a, p + y - 1)
      BY <2>1, PlacesType
    <3> QED  BY <3>1, <3>2
  <2>4. n \in Nat /\ (i + 1) - p + 1 = n + 1 /\ p + (n + 1) - 1 = i + 1
    BY <1>1
  <2>5. v[n + 1] = x /\ x \in ElemPtr
    <3>1. n + 1 \in 1 .. n + 1
      BY <2>4
    <3>2. v[n + 1] \in ElemPtr
      <4> HIDE DEF v, n
      <4> QED  BY <2>3, <2>4, <3>1
    <3> QED  BY <2>3, <2>4, <3>1, <3>2
  <2> HIDE DEF u, v, x, n
  <2>6. u \o <<x>> \in Seq(ElemPtr) /\ Len(u \o <<x>>) = n + 1
    BY <2>3, <2>4, <2>5
  <2>7. \A y \in 1 .. n + 1 : v[y] = (u \o <<x>>)[y]
    <3> TAKE y \in 1 .. n + 1
    <3>1. CASE y \in 1 .. n
      <4>1. (u \o <<x>>)[y] = u[y]
        BY <2>3, <2>4, <2>5, <3>1
      <4> QED  BY <2>3, <2>4, <3>1, <4>1
    <3>2. CASE y = n + 1
      <4>1. (u \o <<x>>)[n + 1] = x
        BY <2>3, <2>4, <2>5
      <4> QED  BY <2>5, <3>2, <4>1
    <3>3. y \in 1 .. n \/ y = n + 1
      BY <2>4
    <3> QED  BY <3>1, <3>2, <3>3
  <2>8. v = u \o <<x>>
    BY <2>3, <2>4, <2>6, <2>7, SeqEqual
  <2> QED  BY <2>1, <2>2, <2>8 DEF u, v, x
<1>4. \A i \in p .. l : i \in T
  <2> HIDE DEF T
  <2>1. p \in Nat
    BY <1>1
  <2> QED  BY <1>1, <1>2, <1>3, <2>1, IntervalInduction
<1> QED  BY <1>4

(* A slice that covers characters of the source has their text. *)
LEMMA CoveredText ==
  ASSUME NEW a, NEW d, NEW s, Laid(a, d, s), NEW p \in 1 .. Len(s.text),
         NEW j \in p .. Len(s.text), NEW sl, Covers(a, sl, p, j)
  PROVE  SliceText(a, d, sl) = SubSeq(s.text, p, j)
<1> DEFINE n == j - p + 1
           u == Places(a, p, j)
           t == s.text
<1>1. Len(t) \in Nat /\ j \in 1 .. Len(t) /\ n \in Nat
  BY LaidFacts
<1>2. SlicePtrs(a, sl) = u
  BY <1>1, SliceUnfolds, PartsArePlaces
<1>3. /\ DOMAIN u = 1 .. n /\ \A i \in 1 .. n : u[i] = Place(a, p + i - 1)
      /\ \A i \in 1 .. n : p + i - 1 \in 1 .. Len(t)
  BY PlacesType DEF Places
<1>4. \A i \in 1 .. Len(t) : CharAt(d, Place(a, i)) = t[i]
  BY DEF Laid
<1> HIDE DEF u
<1>5. SliceText(a, d, sl) = [i \in 1 .. n |-> CharAt(d, u[i])]
  BY <1>2, <1>3 DEF SliceText
<1>6. SliceText(a, d, sl) = [i \in 1 .. n |-> t[p + i - 1]]
  BY <1>3, <1>4, <1>5
<1>7. SubSeq(t, p, j) = [i \in 1 .. n |-> t[p + i - 1]]
  OBVIOUS
<1> QED  BY <1>6, <1>7
-----------------------------------------------------------------------------
(* A lexeme begins with a character of the source and takes in the next.    *)
LEMMA LexemeTakesNext ==
  ASSUME NEW a, NEW d, NEW s, Laid(a, d, s), NEW p \in 1 .. Len(s.text),
         NEW j \in p .. Len(s.text) - 1, NEW sl \in Slices, Covers(a, sl, p, j),
         sl.size = j - p + 1, NEW g, g = GrowSliceTail(a, sl, 1)
  PROVE  g \in Slices /\ Covers(a, g, p, j + 1) /\ g.size = (j + 1) - p + 1
<1> DEFINE q == s.block_size
           n == a.block_count
           k == InBlock(j, q)
           o == InOffset(j, q)
           room == (a.block_size - sl.tail_offset) % SizeMod
           more == (sl.size + 1) % SizeMod
<1>1. /\ ArenaOK(a) /\ a.live \subseteq Blocks /\ a.block_size = q /\ q \in 1 .. SizeMod - 1
      /\ n \in Nat \ {0} /\ q \in Nat \ {0} /\ Len(s.text) = n * q /\ Len(s.text) \in Nat
      /\ \A x \in 1 .. n : Chain(a)[x] \in a.live
                             /\ a.block[Chain(a)[x]].next = NextInChain(Chain(a), n, x)
  BY LaidFacts
<1>2. Len(s.text) < SizeMod /\ SizeMod \in Nat \ {0}
  BY SizeModAssumption DEF Laid
<1>3. j \in 1 .. Len(s.text) /\ j + 1 \in 1 .. Len(s.text) /\ j \in 1 .. n * q /\ j # n * q
  BY <1>1
<1>4. k \in 1 .. n /\ o \in 0 .. q - 1 /\ Place(a, j).block = Chain(a)[k] /\ Place(a, j).off = o
  BY <1>3, PlaceIsIn
<1>5. /\ o + 1 < q => InBlock(j + 1, q) = k /\ InOffset(j + 1, q) = o + 1
      /\ o + 1 >= q => InBlock(j + 1, q) = k + 1 /\ InOffset(j + 1, q) = 0 /\ k # n
  BY <1>1, <1>3, PlaceNext
<1>6. /\ Place(a, j + 1).block = Chain(a)[InBlock(j + 1, q)]
      /\ Place(a, j + 1).off = InOffset(j + 1, q)
  BY <1>3, PlaceIsIn
<1>7. /\ sl.tail_block = Chain(a)[k] /\ sl.tail_offset = o + 1
      /\ sl.head_block = Place(a, p).block /\ sl.head_offset = Place(a, p).off
  BY <1>4 DEF Covers
<1> HIDE DEF k, o
<1>8. more = (j + 1) - p + 1 /\ more \in 0 .. SizeMod - 1
  <2>1. sl.size + 1 = (j + 1) - p + 1 /\ sl.size + 1 \in 0 .. SizeMod - 1
    BY <1>1, <1>2, <1>3
  <2> QED  BY <1>2, <2>1, ModIs
<1>9. sl.tail_block \in a.live
  BY <1>1, <1>4, <1>7
<1>10. room # 0 => GrowsHere(a, sl)
  BY <1>1, <1>9, GrownByOne
<1>11. room = 0 /\ a.block[sl.tail_block].next # Null => GrowsInto(a, sl)
  BY <1>1, <1>9, GrownByOne
<1>12. room = q - (o + 1)
  <2> DEFINE x == q - (o + 1)
  <2>1. x \in 0 .. SizeMod - 1
    BY <1>1, <1>2, <1>4
  <2>2. room = x % SizeMod
    BY <1>1, <1>7
  <2> HIDE DEF x, room
  <2> QED  BY <1>2, <2>1, <2>2, ModIs DEF x
<1> HIDE DEF room
<1>13. CASE o + 1 < q
  <2>1. room # 0
    BY <1>1, <1>4, <1>12, <1>13
  <2>2. IsSliceMade(g, sl, sl.tail_block, o + 2, more)
    <3>1. sl.tail_offset + 1 = o + 2
      BY <1>1, <1>4, <1>7
    <3> QED  BY <1>10, <2>1, <3>1 DEF GrowsHere, Slices, IsSliceMade
  <2> HIDE DEF more
  <2>3. sl.tail_block \in Blocks /\ o + 2 \in Nat
    BY <1>1, <1>4, <1>9
  <2>4. /\ g \in Slices /\ g.tail_block = sl.tail_block /\ g.tail_offset = o + 2 /\ g.size = more
        /\ g.head_block = sl.head_block /\ g.head_offset = sl.head_offset
    BY <1>8, <2>2, <2>3, SliceMade
  <2>5. Place(a, j + 1).block = Chain(a)[k] /\ Place(a, j + 1).off + 1 = o + 2
    BY <1>1, <1>4, <1>5, <1>6, <1>13
  <2> QED  BY <1>7, <1>8, <2>4, <2>5 DEF Covers
<1>14. CASE o + 1 >= q
  <2>1. room = 0 /\ k # n /\ k + 1 \in 1 .. n
    <3>1. room = 0
      BY <1>1, <1>4, <1>12, <1>14
    <3>2. k # n
      BY <1>5, <1>14
    <3> QED  BY <1>1, <1>4, <3>1, <3>2
  <2>2. /\ a.block[sl.tail_block].next = Chain(a)[k + 1]
        /\ Chain(a)[k + 1] \in Blocks /\ Chain(a)[k + 1] # Null
    BY <1>1, <1>4, <1>7, <2>1, NullAssumption, BlocksAssumption DEF NextInChain
  <2>3. IsSliceMade(g, sl, Chain(a)[k + 1], 1, more)
    BY <1>11, <2>1, <2>2 DEF GrowsInto, IsSliceMade
  <2> HIDE DEF more
  <2>4. /\ g \in Slices /\ g.tail_block = Chain(a)[k + 1] /\ g.tail_offset = 1 /\ g.size = more
        /\ g.head_block = sl.head_block /\ g.head_offset = sl.head_offset
    <3>1. 1 \in Nat
      OBVIOUS
    <3> QED  BY <1>8, <2>2, <2>3, <3>1, SliceMade
  <2>5. Place(a, j + 1).block = Chain(a)[k + 1] /\ Place(a, j + 1).off + 1 = 1
    BY <1>5, <1>6, <1>14
  <2> QED  BY <1>7, <1>8, <2>4, <2>5 DEF Covers
<1>15. o + 1 < q \/ o + 1 >= q
  BY <1>1, <1>4
<1> QED  BY <1>13, <1>14, <1>15

LEMMA LexemeTakesFirst ==
  ASSUME NEW a, NEW d, NEW s, Laid(a, d, s), NEW i \in 1 .. Len(s.text),
         NEW skip \in {0, 1}, i + skip <= Len(s.text),
         skip = 1 => i % s.block_size # 0,
         NEW sl, sl = LexemeAt(a, Place(a, i), skip)
  PROVE  sl \in Slices /\ Covers(a, sl, i + skip, i + skip) /\ sl.size = 1
<1> DEFINE q == s.block_size
           n == a.block_count
           k == InBlock(i, q)
           o == InOffset(i, q)
<1>1. q \in Nat \ {0} /\ n \in Nat \ {0} /\ Len(s.text) = n * q /\ Len(s.text) \in Nat
  BY LaidFacts
<1>2. /\ k \in 1 .. n /\ o \in 0 .. q - 1 /\ i = (k - 1) * q + o + 1
      /\ Place(a, i).block = Chain(a)[k] /\ Place(a, i).off = o
  BY PlaceIsIn
<1>3. /\ sl \in Slices /\ sl.size = 1
      /\ sl.head_block = Chain(a)[k] /\ sl.head_offset = o + skip
      /\ sl.tail_block = Chain(a)[k] /\ sl.tail_offset = o + skip + 1
  BY <1>2, NewLexemeIs
<1>4. CASE skip = 0
  <2>1. i + skip = i /\ o + skip = o
    BY <1>1, <1>2, <1>4
  <2> HIDE DEF k, o
  <2> QED  BY <1>2, <1>3, <2>1 DEF Covers
<1>5. CASE skip = 1
  <2>1. o + 1 < q
    <3>1. CASE o + 1 = q
      <4> HIDE DEF k, o
      <4>1. i = k * q + 0 /\ k \in Int /\ 0 \in 0 .. q - 1
        <5>1. (k - 1) * q + q = k * q /\ k \in Int
          BY <1>1, <1>2
        <5> DEFINE x == (k - 1) * q
        <5>2. x \in Int
          BY <1>1, <5>1
        <5>3. i = x + o + 1 /\ x + q = k * q
          BY <1>2, <5>1
        <5> HIDE DEF x
        <5> DEFINE y == k * q
        <5>4. x + q = y /\ o \in Int /\ q \in Int /\ y \in Int
          BY <1>1, <1>2, <5>1, <5>3
        <5> HIDE DEF y
        <5>5. i = y
          BY <3>1, <5>2, <5>3, <5>4
        <5> QED  BY <1>1, <5>1, <5>5 DEF y
      <4>2. i % q = 0
        BY <1>1, <4>1, ModOf
      <4> QED  BY <1>5, <4>2
    <3> HIDE DEF k, o
    <3> QED  BY <1>1, <1>2, <3>1
  <2>2. i \in 1 .. n * q /\ i + 1 \in 1 .. Len(s.text)
    BY <1>1, <1>5
  <2>3. InBlock(i + 1, q) = k /\ InOffset(i + 1, q) = o + 1
    BY <1>1, <2>1, <2>2, PlaceNext
  <2>4. Place(a, i + 1).block = Chain(a)[k] /\ Place(a, i + 1).off = o + 1
    BY <2>2, <2>3, PlaceIsIn
  <2> HIDE DEF k, o
  <2> QED  BY <1>3, <1>5, <2>4 DEF Covers
<1> QED  BY <1>4, <1>5

(* The token made of a lexeme that holds a word is the word's token.        *)
LEMMA TextFacts ==
  ASSUME LexTypeIInv
  PROVE  /\ Len(source.text) \in Nat \ {0}
         /\ \A i \in 1 .. Len(source.text) : source.text[i] \in Letters \cup {Space}
<1>1. Laid(src, data, source)
  BY TypeFacts
<1>2. source.text \in Seq(Letters \cup {Space})
  BY <1>1 DEF Laid
<1>3. Len(source.text) \in Nat \ {0}
  BY <1>1, LaidFacts
<1> DEFINE L == Letters \cup {Space}
<1> HIDE DEF L
<1>4. \A i \in 1 .. Len(source.text) : source.text[i] \in L
  BY <1>2 DEF L
<1> QED  BY <1>3, <1>4 DEF L

WholeWord(p, j) ==
  /\ p \in WordStarts(source.text) /\ j \in p .. Len(source.text)
  /\ \A k \in p .. j : IsWordChar(source.text, k)
  /\ j = Len(source.text) \/ ~IsWordChar(source.text, j + 1)

LEMMA WholeWordIs ==
  ASSUME LexTypeIInv, NEW p, NEW j, WholeWord(p, j), NEW w, w = Word(source.text, p)
  PROVE  /\ p \in 1 .. Len(source.text) /\ w = SubSeq(source.text, p, j)
         /\ Len(w) = j - p + 1 /\ w[1] = source.text[p] /\ j - p + 1 \in Nat \ {0}
<1> DEFINE t == source.text
<1>1. Len(t) \in Nat /\ \A i \in 1 .. Len(t) : t[i] \in Letters \cup {Space}
  BY TextFacts
<1>2. p \in 1 .. Len(t)
  BY <1>1, WordToken DEF WholeWord
<1>3. j \in p .. Len(t) /\ j - p + 1 \in Nat \ {0}
  BY <1>1, <1>2 DEF WholeWord
<1>4. w = SubSeq(t, p, j)
  BY <1>1, <1>2, <1>3, WordIs DEF WholeWord
<1>5. \A i \in p .. j : i \in 1 .. Len(t)
  BY <1>1, <1>2, <1>3
<1> DEFINE L == Letters \cup {Space}
<1> HIDE DEF L
<1>6. /\ Len(SubSeq(t, p, j)) = j - p + 1
      /\ \A i \in 1 .. j - p + 1 : SubSeq(t, p, j)[i] = t[p + i - 1]
  <2>1. p \in Int /\ j \in Int /\ p <= j /\ \A i \in p .. j : t[i] \in L
    BY <1>1, <1>2, <1>3, <1>5 DEF L
  <2> QED  BY <2>1, SubSeqProperties
<1>7. 1 \in 1 .. j - p + 1 /\ p + 1 - 1 = p
  BY <1>1, <1>2, <1>3
<1> QED  BY <1>2, <1>3, <1>4, <1>6, <1>7

LEMMA ShortWord ==
  ASSUME LexTypeIInv, Lexable, cur_lexeme # Null, NEW p, NEW j, WholeWord(p, j), j = p,
         Holds(lexemes[cur_lexeme], p, j), NEW token \in Flushed
  PROVE  Shown(token, lexemes) = TokenAt(source.text, p)
<1> DEFINE t == source.text
           sl == lexemes[cur_lexeme]
           w == Word(t, p)
           fst == CharAt(data, FirstChar(src, sl))
<1>1. /\ p \in 1 .. Len(t) /\ Len(w) = j - p + 1 /\ w[1] = t[p]
      /\ Len(t) \in Nat
  BY WholeWordIs, TextFacts
<1>2. Len(w) = 1
  BY <1>1
<1>3. SoftType(t[p]) # "UNKNOWN"
  <2>1. OneLetterWords(source) = {} /\ p \in WordStarts(t)
    BY DEF Lexable, WholeWord
  <2> QED  BY <1>2, <2>1 DEF OneLetterWords
<1>4. sl \in Slices /\ sl # Null /\ sl.size = 1
      /\ sl.head_block = Place(src, p).block /\ sl.head_offset = Place(src, p).off
  <2>1. sl \in Slices /\ Covers(src, sl, p, j) /\ sl.size = j - p + 1
    BY DEF Holds
  <2> HIDE DEF sl
  <2>2. sl # Null /\ j - p + 1 = 1
    BY <1>1, <2>1, LexemeAssumption
  <2> QED  BY <2>1, <2>2 DEF Covers
<1>5. StringSize(src, sl) <= 1
  BY <1>4 DEF StringSize
<1>6. fst = t[p]
  <2>1. Laid(src, data, source)
    BY TypeFacts
  <2>2. Place(src, p) = [block |-> Place(src, p).block, off |-> Place(src, p).off]
    BY DEF Place
  <2>3. FirstChar(src, sl) = Place(src, p)
    BY <1>4, <2>2 DEF FirstChar
  <2> QED  BY <1>1, <2>1, <2>3 DEF Laid
<1>7. fst # Junk
  BY <1>1, <1>6, TextFacts, LettersAssumption
<1>8. SmallTypes(fst) = {SoftType(t[p])}
  BY <1>3, <1>6, <1>7, Zenon DEF SmallTypes
<1>9. token = [type |-> SoftType(t[p]), lexeme |-> Null]
  BY <1>5, <1>8 DEF Flushed
<1>10. SoftType(t[p]) \in {"EQUAL", "BANG"}
  BY <1>3, SoftTypeIs
<1>11. WordType(w) = SoftType(t[p])
  <2> HIDE DEF w
  <2>1. w \notin DOMAIN Keywords
    <3>1. \A k \in DOMAIN Keywords : Len(k) > 1
      BY KeywordsAssumption
    <3>2. ~(Len(w) > 1)
      BY <1>2
    <3> QED  BY <3>1, <3>2
  <2> QED  BY <1>1, <1>2, <1>3, <2>1, Zenon DEF WordType
<1>12. TokenAt(t, p) = [type |-> SoftType(t[p]), text |-> <<>>]
  <2>1. p \in WordStarts(t)
    BY DEF WholeWord
  <2>2. WordType(w) # "IDENTIFIER"
    BY <1>10, <1>11
  <2> QED  BY <1>1, <1>11, <2>1, <2>2, WordToken
<1> QED  BY <1>9, <1>10, <1>12 DEF Shown, HasText

LEMMA LongWordTypes ==
  ASSUME LexTypeIInv, Lexable, cur_lexeme # Null, NEW p, NEW j, WholeWord(p, j), j # p,
         NEW sl, Holds(sl, p, j), NEW w, w = Word(source.text, p)
  PROVE  /\ BigTypes(sl) = {WordType(w)} /\ SliceText(src, data, sl) = w
         /\ Len(w) # 1 /\ WordType(w) \in {"USE", "FUNC", "ENTRY", "IDENTIFIER"}
<1> DEFINE t == source.text
           q == source.block_size
<1>1. /\ p \in 1 .. Len(t) /\ Len(w) = j - p + 1 /\ w = SubSeq(t, p, j)
      /\ Len(t) \in Nat /\ j \in p .. Len(t) /\ Laid(src, data, source)
  BY WholeWordIs, TextFacts, TypeFacts DEF WholeWord
<1>2. Len(w) # 1 /\ Len(w) \in Nat
  BY <1>1
<1>3. SliceText(src, data, sl) = w /\ sl.size = Len(w)
  BY <1>1, CoveredText DEF Holds
<1>4. (\E k \in DOMAIN Keywords : Len(k) = Len(w)) => sl.head_block = sl.tail_block
  <2> SUFFICES ASSUME \E k \in DOMAIN Keywords : Len(k) = Len(w)
               PROVE  sl.head_block = sl.tail_block
    OBVIOUS
  <2>1. p \in WordStarts(t)
    BY DEF WholeWord
  <2>2. (p - 1) \div q = (p + Len(w) - 2) \div q
    BY <2>1 DEF Lexable, WellWorded
  <2>3. p + Len(w) - 2 = j - 1
    BY <1>1
  <2>4. InBlock(p, q) = InBlock(j, q)
    BY <2>2, <2>3 DEF InBlock
  <2>5. p \in 1 .. Len(t) /\ j \in 1 .. Len(t)
    BY <1>1
  <2>6. Place(src, p).block = Place(src, j).block
    BY <1>1, <2>4, <2>5, PlaceIsIn
  <2> QED  BY <2>6 DEF Holds, Covers
<1>5. \A k \in DOMAIN Keywords : CompareSlice(src, data, sl, k) = {k = w}
  <2> TAKE k \in DOMAIN Keywords
  <2>1. CASE Len(k) = Len(w)
    <3>1. CompareSlice(src, data, sl, k) = {SliceText(src, data, sl) = k}
      BY <1>3, <1>4, <2>1 DEF CompareSlice
    <3>2. (w = k) = (k = w)
      OBVIOUS
    <3> QED  BY <1>3, <3>1, <3>2
  <2>2. CASE Len(k) # Len(w)
    <3>1. CompareSlice(src, data, sl, k) = {FALSE}
      BY <1>3, <2>2 DEF CompareSlice
    <3>2. (k = w) = FALSE
      BY <2>2
    <3> QED  BY <3>1, <3>2
  <2> QED  BY <2>1, <2>2
<1>6. \A k \in DOMAIN Keywords : /\ TRUE \in CompareSlice(src, data, sl, k) <=> k = w
                                 /\ FALSE \in CompareSlice(src, data, sl, k) <=> k # w
  BY <1>5
<1>7. BigTypes(sl) = {Keywords[k] : k \in {k \in DOMAIN Keywords : k = w}}
                       \cup IF \A k \in DOMAIN Keywords : k # w THEN {"IDENTIFIER"} ELSE {}
  BY <1>6 DEF BigTypes
<1>8. WordType(w) = IF w \in DOMAIN Keywords THEN Keywords[w] ELSE "IDENTIFIER"
  BY <1>2, Zenon DEF WordType
<1>9. BigTypes(sl) = {WordType(w)}
  <2>1. CASE w \in DOMAIN Keywords
    BY <1>7, <1>8, <2>1
  <2>2. CASE w \notin DOMAIN Keywords
    BY <1>7, <1>8, <2>2
  <2> QED  BY <2>1, <2>2
<1>10. WordType(w) \in {"USE", "FUNC", "ENTRY", "IDENTIFIER"}
  BY <1>8, KeywordsAssumption
<1> QED  BY <1>2, <1>3, <1>9, <1>10

LEMMA LongWord ==
  ASSUME LexTypeIInv, Lexable, cur_lexeme # Null, NEW p, NEW j, WholeWord(p, j), j # p,
         Holds(lexemes[cur_lexeme], p, j), NEW token \in Flushed
  PROVE  Shown(token, lexemes) = TokenAt(source.text, p)
<1> DEFINE t == source.text
           sl == lexemes[cur_lexeme]
           w == Word(t, p)
           type == WordType(w)
<1>1. sl \in Slices /\ sl # Null /\ sl.size = j - p + 1 /\ Holds(sl, p, j)
  BY LexemeAssumption DEF Holds
<1>2. ~(StringSize(src, sl) <= 1)
  <2>1. j \in p .. Len(t) /\ p \in 1 .. Len(t) /\ Len(t) \in Nat
    BY WholeWordIs, TextFacts DEF WholeWord
  <2>2. StringSize(src, sl) = j - p + 1
    BY <1>1 DEF StringSize
  <2> HIDE DEF sl
  <2> QED  BY <2>1, <2>2
<1>3. /\ BigTypes(sl) = {type} /\ SliceText(src, data, sl) = w
      /\ type \in {"USE", "FUNC", "ENTRY", "IDENTIFIER"}
  <2> HIDE DEF sl
  <2> QED  BY <1>1, LongWordTypes
<1>4. token = IF type = "IDENTIFIER" THEN [type |-> type, lexeme |-> cur_lexeme] ELSE Token(type)
  BY <1>2, <1>3 DEF Flushed
<1>5. TokenAt(t, p) = [type |-> type, text |-> IF type = "IDENTIFIER" THEN w ELSE <<>>]
  BY WordToken, TextFacts DEF WholeWord
<1> HIDE DEF type, w
<1>6. CASE type = "IDENTIFIER"
  BY <1>3, <1>4, <1>5, <1>6 DEF Shown, HasText
<1>7. CASE type # "IDENTIFIER"
  <2>1. token.type = type /\ ~HasText(token)
    BY <1>3, <1>4, <1>7 DEF Token, HasText
  <2> QED  BY <1>5, <1>7, <2>1 DEF Shown
<1> QED  BY <1>6, <1>7

LEMMA FlushSays ==
  ASSUME LexTypeIInv, Lexable, cur_lexeme # Null, NEW p, NEW j, WholeWord(p, j),
         Holds(lexemes[cur_lexeme], p, j), NEW token \in Flushed
  PROVE  Shown(token, lexemes) = TokenAt(source.text, p)
BY ShortWord, LongWord
-----------------------------------------------------------------------------
(* What the list of tokens says after each step of the scan.                *)
ViewOf(ts, ls) == [i \in DOMAIN ts |-> Shown(ts[i], ls)]

LEMMA ViewOfAppend ==
  ASSUME NEW ts \in Seq(Tokens), NEW token \in Tokens, NEW ls
  PROVE  ViewOf(Append(ts, token), ls) = Append(ViewOf(ts, ls), Shown(token, ls))
<1> DEFINE n == Len(ts)
           more == Append(ts, token)
           S == {Shown(x, ls) : x \in Tokens}
           u == ViewOf(ts, ls)
           v == ViewOf(more, ls)
           e == Shown(token, ls)
<1>1. n \in Nat /\ DOMAIN ts = 1 .. n /\ \A i \in 1 .. n : ts[i] \in Tokens
  OBVIOUS
<1>2. /\ DOMAIN more = 1 .. n + 1 /\ more[n + 1] = token /\ \A i \in 1 .. n : more[i] = ts[i]
      /\ \A i \in 1 .. n + 1 : more[i] \in Tokens
  BY <1>1
<1> HIDE DEF more
<1>3. /\ u = [i \in 1 .. n |-> Shown(ts[i], ls)] /\ v = [i \in 1 .. n + 1 |-> Shown(more[i], ls)]
  BY <1>1, <1>2 DEF ViewOf
<1>4. u \in [1 .. n -> S] /\ v \in [1 .. n + 1 -> S] /\ e \in S
  BY <1>1, <1>2, <1>3
<1>5. /\ \A i \in 1 .. n : v[i] = u[i]
      /\ v[n + 1] = e
  <2>1. \A i \in 1 .. n : i \in 1 .. n + 1
    BY <1>1
  <2>2. n + 1 \in 1 .. n + 1
    BY <1>1
  <2> QED  BY <1>2, <1>3, <2>1, <2>2
<1> HIDE DEF u, v, e, S
<1>6. u \in Seq(S) /\ v \in Seq(S) /\ Len(u) = n /\ Len(v) = n + 1
  <2>1. n + 1 \in Nat
    BY <1>1
  <2> QED  BY <1>1, <1>4, <2>1, SeqDef
<1>7. /\ Append(u, e) \in Seq(S) /\ Len(Append(u, e)) = n + 1
      /\ \A i \in 1 .. n + 1 : Append(u, e)[i] = v[i]
  BY <1>1, <1>4, <1>5, <1>6
<1>8. v = Append(u, e)
  BY <1>6, <1>7, SeqEqual
<1> QED  BY <1>8 DEF u, v, e, more

LEMMA ViewBefore ==
  ASSUME LexTypeIInv
  PROVE  View = ViewOf(tokens, lexemes) /\ tokens \in Seq(Tokens)
BY ViewIs, TypeFacts DEF ViewOf, TokensKept

LEMMA ViewAfter ==
  ASSUME UNCHANGED <<src, data>>
  PROVE  View' = ViewOf(tokens', lexemes')
BY DEF View, ViewOf, Shown, HasText

LEMMA ViewKept ==
  ASSUME LexTypeIInv, UNCHANGED <<src, data, tokens>>,
         \A t \in DOMAIN lexemes \ {cur_lexeme} : lexemes'[t] = lexemes[t]
  PROVE  View' = View
<1>1. DOMAIN tokens = 1 .. Len(tokens)
  BY ViewBefore
<1>2. ViewOf(tokens, lexemes') = ViewOf(tokens, lexemes)
  BY <1>1, ShownKept DEF ViewOf
<1> QED  BY <1>2, ViewBefore, ViewAfter

LEMMA ReadsHere ==
  ASSUME LexTypeIInv, NEW i \in 1 .. Len(source.text) + 1, AtPlace(i), Reading
  PROVE  /\ i \in 1 .. Len(source.text) /\ at = Place(src, i) /\ Char = source.text[i]
         /\ Next1(at) = PlaceOrEnd(src, source, i + 1)
         /\ i + 1 \in 1 .. Len(source.text) + 1
<1>1. Laid(src, data, source)
  BY TypeFacts
<1>2. at = PlaceOrEnd(src, source, i) /\ at # Null
  BY DEF AtPlace, Reading
<1>3. i \in 1 .. Len(source.text) /\ at = Place(src, i)
  BY <1>1, <1>2, PlaceOrEndIs
<1>4. Char = source.text[i]
  BY <1>1, <1>3 DEF Char, Laid
<1>5. Next1(at) = PlaceOrEnd(src, source, i + 1)
  BY <1>1, <1>2, <1>3, NextPlace DEF Next1
<1>6. i + 1 \in 1 .. Len(source.text) + 1
  BY <1>3
<1> QED  BY <1>3, <1>4, <1>5, <1>6

(* The tokens with the lexeme in progress flushed are those before place i. *)
LEMMA PendingSays ==
  ASSUME LexTypeIInv, Lexable, NEW i, Scanned(i), ~is_reading_str,
         i = Len(source.text) + 1 \/ ~IsWordChar(source.text, i),
         NEW ts \in WithPending
  PROVE  ts \in Seq(Tokens) /\ ViewOf(ts, lexemes) = TokensBefore(source.text, i)
<1> DEFINE t == source.text
<1>1. ts \in Seq(Tokens)
  BY PendingKeptTokens DEF TokensKept
<1>2. CASE Idle(i)
  BY <1>1, <1>2, ViewBefore DEF Idle, WithPending
<1>3. CASE ~Idle(i)
  <2>1. PICK p \in 1 .. i - 1 : InWord(i, p)
    BY <1>3 DEF Scanned, InQuotes
  <2>2. /\ cur_lexeme # Null /\ p \in WordStarts(t) /\ \A k \in p .. i - 1 : IsWordChar(t, k)
        /\ Holds(lexemes[cur_lexeme], p, i - 1)
        /\ Append(View, TokenAt(t, p)) = TokensBefore(t, i)
    BY <2>1 DEF InWord
  <2>3. i \in 1 .. Len(t) + 1 /\ Len(t) \in Nat
    BY TextFacts DEF Scanned
  <2>4. WholeWord(p, i - 1)
    <3>1. i - 1 \in p .. Len(t) /\ (i - 1) + 1 = i /\ (i = Len(t) + 1 => i - 1 = Len(t))
      BY <2>3
    <3> QED  BY <2>2, <3>1 DEF WholeWord
  <2>5. PICK token \in Flushed : ts = Append(tokens, token)
    BY <2>2 DEF WithPending
  <2>6. Shown(token, lexemes) = TokenAt(t, p)
    BY <2>2, <2>4, FlushSays
  <2>7. token \in Tokens
    BY <2>2, TypeFacts, FlushedAre
  <2>8. ViewOf(ts, lexemes) = Append(View, TokenAt(t, p))
    BY <2>5, <2>6, <2>7, ViewBefore, ViewOfAppend
  <2> QED  BY <1>1, <2>2, <2>8
<1> QED  BY <1>2, <1>3

LEMMA HeldText ==
  ASSUME LexTypeIInv, NEW p \in 1 .. Len(source.text), NEW j \in p .. Len(source.text),
         NEW sl, Holds(sl, p, j)
  PROVE  SliceText(src, data, sl) = SubSeq(source.text, p, j)
<1>1. Laid(src, data, source) /\ Covers(src, sl, p, j)
  BY TypeFacts DEF Holds
<1> QED  BY <1>1, CoveredText

LEMMA HoldsNext ==
  ASSUME LexTypeIInv, NEW p \in 1 .. Len(source.text), NEW j \in p .. Len(source.text) - 1,
         NEW sl, Holds(sl, p, j)
  PROVE  Holds(GrowSliceTail(src, sl, 1), p, j + 1)
<1> DEFINE g == GrowSliceTail(src, sl, 1)
<1>1. /\ Laid(src, data, source) /\ sl \in Slices /\ Covers(src, sl, p, j)
      /\ sl.size = j - p + 1 /\ g = GrowSliceTail(src, sl, 1)
  BY TypeFacts DEF Holds
<1> HIDE DEF g
<1>2. g \in Slices /\ Covers(src, g, p, j + 1) /\ g.size = (j + 1) - p + 1
  BY <1>1, LexemeTakesNext
<1>3. Holds(g, p, j + 1)
  BY <1>2 DEF Holds
<1> QED  BY <1>3 DEF g

LEMMA ScanOfOpenQuote ==
  ASSUME LexTypeIInv, Lexable, NEW i, Scanned(i), OpenQuote
  PROVE  \E j : Scanned(j)'
<1> DEFINE t == source.text
           q == source.block_size
<1>1. /\ Reading /\ Char = Quote /\ ~is_reading_str /\ NewLexeme(1) /\ is_reading_str' = TRUE
      /\ at' = Next1(Next1(at)) /\ UNCHANGED <<source, src, data, tokens, status>>
  BY Zenon DEF OpenQuote
<1>2. /\ i \in 1 .. Len(t) /\ at = Place(src, i) /\ t[i] = Quote
      /\ Next1(at) = PlaceOrEnd(src, source, i + 1) /\ i + 1 \in 1 .. Len(t) + 1
      /\ ~OddQuotes(t, i) /\ Len(t) \in Nat
  BY <1>1, ReadsHere, TextFacts DEF Scanned
<1>3. /\ IsStart(t, i) /\ Opens(t, i) /\ OddQuotes(t, i + 1)
  BY <1>2, OpeningQuote
<1>4. ~OddQuotes(t, Len(t) + 1)
  BY DEF Lexable, WellQuoted, OddQuotes
<1>5. t[i + 1] # Quote /\ i % q # 0 /\ (i > 1 => ~IsWordChar(t, i - 1))
  BY <1>2, <1>3 DEF Lexable, WellQuoted
<1>6. i + 1 \in 1 .. Len(t) /\ i + 1 <= Len(t)
  <2>1. i # Len(t)
    BY <1>3, <1>4
  <2> QED  BY <1>2, <2>1
<1>7. Idle(i)
  <2> SUFFICES ASSUME ~Idle(i) PROVE FALSE
    OBVIOUS
  <2>1. PICK p \in 1 .. i - 1 : InWord(i, p)
    BY <1>1 DEF Scanned, InQuotes
  <2>2. i - 1 \in p .. i - 1 /\ i > 1
    BY <1>2
  <2> QED  BY <1>5, <2>1, <2>2 DEF InWord
<1>8. ~IsStart(t, i + 1) /\ IsQuoted(t, i + 1) /\ OddQuotes(t, i + 1 + 1)
  BY <1>2, <1>3, <1>5, <1>6, QuotedChar
<1>9. TokensBefore(t, i + 1 + 1) = Append(TokensBefore(t, i), TokenAt(t, i))
  <2>1. i \in Nat \ {0} /\ i + 1 \in Nat \ {0}
    BY <1>2
  <2>2. TokensBefore(t, i + 1 + 1) = TokensBefore(t, i + 1)
    BY <1>8, <2>1, TokensBeforeNext
  <2>3. TokensBefore(t, i + 1) = Append(TokensBefore(t, i), TokenAt(t, i))
    BY <1>3, <2>1, TokensBeforeNext
  <2> QED  BY <2>2, <2>3
<1> DEFINE sl == LexemeAt(src, Place(src, i), 1)
<1>10. Laid(src, data, source) /\ lexemes \in Seq(Slices) /\ Len(lexemes) \in Nat
  BY TypeFacts
<1>11. Holds(sl, i + 1, i + 1)
  <2>1. 1 \in {0, 1} /\ (i + 1) - (i + 1) + 1 = 1
    BY <1>2
  <2>2. sl \in Slices /\ Covers(src, sl, i + 1, i + 1) /\ sl.size = 1
    BY <1>2, <1>5, <1>6, <1>10, <2>1, LexemeTakesFirst
  <2> QED  BY <2>1, <2>2 DEF Holds
<1>12. /\ lexemes' = Append(lexemes, sl) /\ cur_lexeme' = Len(lexemes) + 1
  BY <1>1, <1>2 DEF NewLexeme, LexemeAt
<1> HIDE DEF sl
<1>13. /\ lexemes'[cur_lexeme'] = sl /\ cur_lexeme' # Null
       /\ \A x \in DOMAIN lexemes : lexemes'[x] = lexemes[x]
  <2>1. sl \in Slices
    BY <1>11 DEF Holds
  <2>2. Len(lexemes) + 1 # Null
    BY <1>10, LexemeAssumption
  <2> QED  BY <1>10, <1>12, <2>1, <2>2
<1>14. View' = View
  BY <1>1, <1>13, ViewKept
<1>15. at' = PlaceOrEnd(src, source, i + 1 + 1)
  BY <1>1, <1>2, <1>6, <1>10, NextPlace DEF Next1
<1>16. AtPlace(i + 1 + 1)' /\ i + 1 + 1 \in (1 .. Len(source.text) + 1)'
  BY <1>1, <1>6, <1>15 DEF AtPlace
<1>17. InQuotes(i + 1 + 1, i)'
  <2>1. (i + 1 + 1) - 1 = i + 1 /\ i < i + 1 /\ \A k \in i + 1 .. i + 1 : k = i + 1
    BY <1>2
  <2>2. Holds(lexemes[cur_lexeme], i + 1, i + 1)'
    BY <1>1, <1>11, <1>13 DEF Holds, Covers
  <2>3. Append(View, TokenAt(t, i)) = TokensBefore(t, i + 1 + 1)
    BY <1>7, <1>9 DEF Idle
  <2> QED  BY <1>1, <1>3, <1>8, <1>13, <1>14, <2>1, <2>2, <2>3 DEF InQuotes
<1>18. i \in 1 .. (i + 1 + 1) - 1
  BY <1>2
<1>19. Scanned(i + 1 + 1)'
  BY <1>1, <1>8, <1>16, <1>17, <1>18 DEF Scanned
<1> QED  BY <1>19

LEMMA ScanOfCloseQuote ==
  ASSUME LexTypeIInv, Lexable, NEW i, Scanned(i), CloseQuote
  PROVE  \E j : Scanned(j)'
<1> DEFINE t == source.text
           token == [type |-> "STR", lexeme |-> cur_lexeme]
           sl == lexemes[cur_lexeme]
<1>1. /\ Reading /\ Char = Quote /\ is_reading_str /\ tokens' = Append(tokens, token)
      /\ cur_lexeme' = Null /\ is_reading_str' = FALSE
      /\ at' = Next1(at) /\ UNCHANGED <<source, src, data, lexemes, status>>
  BY Zenon DEF CloseQuote
<1>2. /\ i \in 1 .. Len(t) /\ t[i] = Quote
      /\ Next1(at) = PlaceOrEnd(src, source, i + 1) /\ i + 1 \in 1 .. Len(t) + 1
      /\ OddQuotes(t, i) /\ Len(t) \in Nat
  BY <1>1, ReadsHere, TextFacts DEF Scanned
<1>3. ~IsStart(t, i) /\ ~IsWordChar(t, i) /\ ~IsQuoted(t, i) /\ ~OddQuotes(t, i + 1)
  BY <1>2, ClosingQuote
<1>4. PICK p \in 1 .. i - 1 : InQuotes(i, p)
  BY <1>1 DEF Scanned, Idle, InWord
<1>5. /\ cur_lexeme # Null /\ p < i - 1 /\ Opens(t, p)
      /\ \A k \in p + 1 .. i - 1 : IsQuoted(t, k)
      /\ Holds(sl, p + 1, i - 1)
      /\ Append(View, TokenAt(t, p)) = TokensBefore(t, i)
  BY <1>4 DEF InQuotes
<1>6. /\ p + 1 \in 1 .. Len(t) /\ i - 1 \in p + 1 .. Len(t) /\ (i - 1) + 1 = i /\ p \in 1 .. Len(t)
  BY <1>2, <1>5
<1>7. Quoted(t, p + 1) = SubSeq(t, p + 1, i - 1)
  BY <1>2, <1>3, <1>5, <1>6, QuotedIs
<1>8. Laid(src, data, source)
  BY TypeFacts
<1>9. SliceText(src, data, sl) = Quoted(t, p + 1)
  BY <1>5, <1>6, <1>7, HeldText
<1>10. TokenAt(t, p) = [type |-> "STR", text |-> Quoted(t, p + 1)]
  <2>1. t[p] = Quote /\ ~OddQuotes(t, p)
    <3>1. p \in Nat \ {0}
      BY <1>6
    <3> QED  BY <1>5, <3>1, ParityNext
  <2> QED  BY <1>2, <1>6, <2>1, OpeningQuote
<1>11. Shown(token, lexemes) = TokenAt(t, p)
  BY <1>9, <1>10 DEF Shown, HasText
<1>12. token \in Tokens
  BY TypeFacts DEF Tokens, TokenTypes
<1> HIDE DEF token
<1>13. View' = TokensBefore(t, i)
  BY <1>1, <1>5, <1>11, <1>12, ViewBefore, ViewAfter, ViewOfAppend
<1>14. TokensBefore(t, i + 1) = TokensBefore(t, i)
  <2>1. i \in Nat \ {0}
    BY <1>2
  <2> QED  BY <1>3, <2>1, TokensBeforeNext
<1>15. Idle(i + 1)'
  <2>1. (i + 1) - 1 = i
    BY <1>2
  <2> QED  BY <1>1, <1>3, <1>13, <1>14, <2>1 DEF Idle
<1>16. Scanned(i + 1)'
  BY <1>1, <1>2, <1>3, <1>15 DEF Scanned, AtPlace
<1> QED  BY <1>16

LEMMA ScanOfInString ==
  ASSUME LexTypeIInv, Lexable, NEW i, Scanned(i), InString
  PROVE  \E j : Scanned(j)'
<1> DEFINE t == source.text
           sl == lexemes[cur_lexeme]
<1>1. /\ Reading /\ Char # Quote /\ is_reading_str /\ GrowLexeme /\ at' = Next1(at)
      /\ UNCHANGED <<source, src, data, cur_lexeme, is_reading_str, tokens, status>>
  BY Zenon DEF InString
<1>2. /\ i \in 1 .. Len(t) /\ t[i] # Quote
      /\ Next1(at) = PlaceOrEnd(src, source, i + 1) /\ i + 1 \in 1 .. Len(t) + 1
      /\ OddQuotes(t, i) /\ Len(t) \in Nat
  BY <1>1, ReadsHere, TextFacts DEF Scanned
<1>3. ~IsStart(t, i) /\ IsQuoted(t, i) /\ OddQuotes(t, i + 1)
  BY <1>2, QuotedChar
<1>4. PICK p \in 1 .. i - 1 : InQuotes(i, p)
  BY <1>1 DEF Scanned, Idle, InWord
<1>5. /\ cur_lexeme # Null /\ p < i - 1 /\ Opens(t, p)
      /\ \A k \in p + 1 .. i - 1 : IsQuoted(t, k)
      /\ Holds(sl, p + 1, i - 1)
      /\ Append(View, TokenAt(t, p)) = TokensBefore(t, i)
  BY <1>4 DEF InQuotes
<1>6. /\ p + 1 \in 1 .. Len(t) /\ i - 1 \in p + 1 .. Len(t) - 1 /\ (i - 1) + 1 = i
      /\ (i + 1) - 1 = i
  <2>1. p < i - 1
    BY <1>5
  <2> QED  BY <1>2, <2>1
<1>7. Laid(src, data, source) /\ lexemes \in Seq(Slices) /\ cur_lexeme \in DOMAIN lexemes
  BY <1>5, TypeFacts
<1> DEFINE g == GrowSliceTail(src, sl, 1)
<1>8. lexemes'[cur_lexeme] = g /\ \A x \in DOMAIN lexemes \ {cur_lexeme} : lexemes'[x] = lexemes[x]
  BY <1>1, <1>7 DEF GrowLexeme
<1>9. Holds(g, p + 1, i)
  <2>1. Holds(g, p + 1, (i - 1) + 1)
    BY <1>5, <1>6, HoldsNext
  <2> QED  BY <1>6, <2>1
<1> HIDE DEF g
<1>10. View' = View
  BY <1>1, <1>8, ViewKept
<1>11. TokensBefore(t, i + 1) = TokensBefore(t, i)
  <2>1. i \in Nat \ {0}
    BY <1>2
  <2> QED  BY <1>3, <2>1, TokensBeforeNext
<1>12. \A k \in p + 1 .. i : IsQuoted(t, k)
  <2> TAKE k \in p + 1 .. i
  <2>1. k \in p + 1 .. i - 1 \/ k = i
    BY <1>2
  <2> QED  BY <1>3, <1>5, <2>1
<1>13. InQuotes(i + 1, p)'
  <2>1. p < i
    BY <1>2, <1>5
  <2>2. Holds(lexemes[cur_lexeme], p + 1, i)'
    BY <1>1, <1>8, <1>9 DEF Holds, Covers
  <2> QED  BY <1>1, <1>5, <1>6, <1>10, <1>11, <1>12, <2>1, <2>2 DEF InQuotes
<1>14. p \in 1 .. (i + 1) - 1
  BY <1>2
<1>15. Scanned(i + 1)'
  BY <1>1, <1>2, <1>3, <1>13, <1>14 DEF Scanned, AtPlace
<1> QED  BY <1>15

LEMMA ScanOfSkipWhitespace ==
  ASSUME LexTypeIInv, Lexable, NEW i, Scanned(i), SkipWhitespace
  PROVE  \E j : Scanned(j)'
<1> DEFINE t == source.text
<1>1. /\ Reading /\ Char # Quote /\ ~is_reading_str /\ Char \in Whitespace
      /\ tokens' \in WithPending /\ cur_lexeme' = Null
      /\ at' = Next1(at) /\ UNCHANGED <<source, src, data, is_reading_str, lexemes, status>>
  BY Zenon DEF SkipWhitespace, Outside, PendingDone
<1>2. /\ i \in 1 .. Len(t) /\ t[i] # Quote /\ t[i] \in Whitespace
      /\ Next1(at) = PlaceOrEnd(src, source, i + 1) /\ i + 1 \in 1 .. Len(t) + 1
      /\ ~OddQuotes(t, i) /\ Len(t) \in Nat
  BY <1>1, ReadsHere, TextFacts DEF Scanned
<1>3. ~IsStart(t, i) /\ ~IsWordChar(t, i) /\ ~OddQuotes(t, i + 1)
  BY <1>2, SpaceChar
<1>4. View' = TokensBefore(t, i)
  BY <1>1, <1>3, PendingSays, ViewAfter
<1>5. TokensBefore(t, i + 1) = TokensBefore(t, i)
  <2>1. i \in Nat \ {0}
    BY <1>2
  <2> QED  BY <1>3, <2>1, TokensBeforeNext
<1>6. Idle(i + 1)'
  <2>1. (i + 1) - 1 = i
    BY <1>2
  <2> QED  BY <1>1, <1>3, <1>4, <1>5, <2>1 DEF Idle
<1>7. Scanned(i + 1)'
  BY <1>1, <1>2, <1>3, <1>6 DEF Scanned, AtPlace
<1> QED  BY <1>7

LEMMA ScanOfHardBoundary ==
  ASSUME LexTypeIInv, Lexable, NEW i, Scanned(i), HardBoundary
  PROVE  \E j : Scanned(j)'
<1> DEFINE t == source.text
           token == Token(HardType(Char))
<1>1. /\ Reading /\ Char # Quote /\ ~is_reading_str /\ HardType(Char) # "UNKNOWN"
      /\ cur_lexeme' = Null
      /\ at' = Next1(at) /\ UNCHANGED <<source, src, data, is_reading_str, lexemes, status>>
  BY Zenon DEF HardBoundary, Outside, PendingDone
<1>2. PICK ts \in WithPending : tokens' = Append(ts, token)
  BY Zenon DEF HardBoundary
<1>3. /\ i \in 1 .. Len(t) /\ t[i] # Quote /\ Char = t[i]
      /\ Next1(at) = PlaceOrEnd(src, source, i + 1) /\ i + 1 \in 1 .. Len(t) + 1
      /\ ~OddQuotes(t, i) /\ Len(t) \in Nat
  BY <1>1, ReadsHere, TextFacts DEF Scanned
<1>4. /\ IsStart(t, i) /\ ~IsWordChar(t, i) /\ ~OddQuotes(t, i + 1)
      /\ TokenAt(t, i) = [type |-> HardType(t[i]), text |-> <<>>]
  BY <1>1, <1>3, HardChar
<1>5. ts \in Seq(Tokens) /\ ViewOf(ts, lexemes) = TokensBefore(t, i)
  BY <1>1, <1>4, PendingSays
<1>6. HardType(Char) \in HardTypes
  BY <1>1, HardTypeIs
<1>7. token \in Tokens /\ Shown(token, lexemes) = TokenAt(t, i)
  <2>1. HardType(Char) \in TokenTypes /\ HardType(Char) \notin {"STR", "IDENTIFIER"}
    BY <1>6 DEF TokenTypes, HardTypes
  <2>2. token \in Tokens
    BY <2>1 DEF Token, Tokens
  <2>3. Shown(token, lexemes) = [type |-> HardType(Char), text |-> <<>>]
    BY <2>1 DEF Shown, HasText, Token
  <2> QED  BY <1>3, <1>4, <2>2, <2>3
<1> HIDE DEF token
<1>8. View' = TokensBefore(t, i + 1)
  <2>1. i \in Nat \ {0}
    BY <1>3
  <2>2. View' = Append(TokensBefore(t, i), TokenAt(t, i))
    BY <1>1, <1>2, <1>5, <1>7, ViewAfter, ViewOfAppend
  <2> QED  BY <1>4, <2>1, <2>2, TokensBeforeNext
<1>9. Idle(i + 1)'
  <2>1. (i + 1) - 1 = i
    BY <1>3
  <2> QED  BY <1>1, <1>4, <1>8, <2>1 DEF Idle
<1>10. Scanned(i + 1)'
  BY <1>1, <1>3, <1>4, <1>9 DEF Scanned, AtPlace
<1> QED  BY <1>10

LEMMA ScanOfLexemeChar ==
  ASSUME LexTypeIInv, Lexable, NEW i, Scanned(i), LexemeChar
  PROVE  \E j : Scanned(j)'
<1> DEFINE t == source.text
<1>1. /\ Reading /\ Char # Quote /\ ~is_reading_str
      /\ Char \notin Whitespace /\ HardType(Char) = "UNKNOWN"
      /\ at' = Next1(at) /\ UNCHANGED <<source, src, data, is_reading_str, tokens, status>>
      /\ IF cur_lexeme = Null THEN NewLexeme(0) ELSE GrowLexeme /\ UNCHANGED cur_lexeme
  BY Zenon DEF LexemeChar, Outside
<1>2. /\ i \in 1 .. Len(t) /\ t[i] # Quote /\ Char = t[i] /\ at = Place(src, i)
      /\ Next1(at) = PlaceOrEnd(src, source, i + 1) /\ i + 1 \in 1 .. Len(t) + 1
      /\ ~OddQuotes(t, i) /\ Len(t) \in Nat
  BY <1>1, ReadsHere, TextFacts DEF Scanned
<1>3. /\ IsWordChar(t, i) /\ ~OddQuotes(t, i + 1)
      /\ IsStart(t, i) <=> i = 1 \/ ~IsWordChar(t, i - 1)
  BY <1>1, <1>2, WordChar
<1>4. Laid(src, data, source) /\ lexemes \in Seq(Slices) /\ Len(lexemes) \in Nat
      /\ cur_lexeme \in DOMAIN lexemes \cup {Null}
  BY TypeFacts
<1>5. AtPlace(i + 1)' /\ i + 1 \in (1 .. Len(source.text) + 1)' /\ (i + 1) - 1 = i
      /\ i \in Nat \ {0}
  BY <1>1, <1>2 DEF AtPlace
<1>6. CASE cur_lexeme = Null
  <2>1. Idle(i)
    BY <1>6 DEF Scanned, InWord, InQuotes
  <2>2. IsStart(t, i) /\ i \in WordStarts(t)
    BY <1>2, <1>3, <2>1 DEF Idle, WordStarts
  <2>3. TokensBefore(t, i + 1) = Append(TokensBefore(t, i), TokenAt(t, i))
    BY <1>5, <2>2, TokensBeforeNext
  <2> DEFINE sl == LexemeAt(src, Place(src, i), 0)
  <2>4. Holds(sl, i, i)
    <3>1. 0 \in {0, 1} /\ i + 0 = i /\ i - i + 1 = 1 /\ i <= Len(t) /\ 0 # 1
      BY <1>2
    <3>2. sl \in Slices /\ Covers(src, sl, i + 0, i + 0) /\ sl.size = 1
      BY <1>2, <1>4, <3>1, LexemeTakesFirst
    <3> QED  BY <3>1, <3>2 DEF Holds
  <2>5. lexemes' = Append(lexemes, sl) /\ cur_lexeme' = Len(lexemes) + 1
    BY <1>1, <1>2, <1>6 DEF NewLexeme, LexemeAt
  <2> HIDE DEF sl
  <2>6. /\ lexemes'[cur_lexeme'] = sl /\ cur_lexeme' # Null
        /\ \A x \in DOMAIN lexemes : lexemes'[x] = lexemes[x]
    <3>1. sl \in Slices
      BY <2>4 DEF Holds
    <3>2. Len(lexemes) + 1 # Null
      BY <1>4, LexemeAssumption
    <3> QED  BY <1>4, <2>5, <3>1, <3>2
  <2>7. View' = View
    BY <1>1, <2>6, ViewKept
  <2>8. InWord(i + 1, i)'
    <3>1. \A k \in i .. i : k = i
      BY <1>2
    <3>2. Holds(lexemes[cur_lexeme], i, i)'
      BY <1>1, <2>4, <2>6 DEF Holds, Covers
    <3>3. Append(View, TokenAt(t, i)) = TokensBefore(t, i + 1)
      BY <2>1, <2>3 DEF Idle
    <3> QED  BY <1>1, <1>3, <1>5, <2>2, <2>6, <2>7, <3>1, <3>2, <3>3 DEF InWord
  <2>9. i \in 1 .. (i + 1) - 1
    BY <1>2
  <2>10. Scanned(i + 1)'
    BY <1>1, <1>3, <1>5, <2>8, <2>9 DEF Scanned
  <2> QED  BY <2>10
<1>7. CASE cur_lexeme # Null
  <2> DEFINE sl == lexemes[cur_lexeme]
             g == GrowSliceTail(src, sl, 1)
  <2>1. PICK p \in 1 .. i - 1 : InWord(i, p)
    BY <1>1, <1>7 DEF Scanned, Idle, InQuotes
  <2>2. /\ p \in WordStarts(t) /\ \A k \in p .. i - 1 : IsWordChar(t, k)
        /\ Holds(sl, p, i - 1)
        /\ Append(View, TokenAt(t, p)) = TokensBefore(t, i)
    BY <2>1 DEF InWord
  <2>3. /\ p \in 1 .. Len(t) /\ i - 1 \in p .. Len(t) - 1 /\ (i - 1) + 1 = i
        /\ i - 1 \in p .. i - 1 /\ i # 1
    BY <1>2
  <2>4. lexemes'[cur_lexeme] = g /\ \A x \in DOMAIN lexemes \ {cur_lexeme} : lexemes'[x] = lexemes[x]
    BY <1>1, <1>4, <1>7 DEF GrowLexeme
  <2>5. Holds(g, p, i)
    <3>1. Holds(g, p, (i - 1) + 1)
      BY <2>2, <2>3, HoldsNext
    <3> QED  BY <2>3, <3>1
  <2> HIDE DEF g
  <2>6. View' = View
    BY <1>1, <2>4, ViewKept
  <2>7. TokensBefore(t, i + 1) = TokensBefore(t, i)
    <3>1. ~IsStart(t, i)
      BY <1>3, <2>2, <2>3
    <3> QED  BY <1>5, <3>1, TokensBeforeNext
  <2>8. \A k \in p .. i : IsWordChar(t, k)
    <3> TAKE k \in p .. i
    <3>1. k \in p .. i - 1 \/ k = i
      BY <1>2
    <3> QED  BY <1>3, <2>2, <3>1
  <2>9. InWord(i + 1, p)'
    <3>1. Holds(lexemes[cur_lexeme], p, i)'
      BY <1>1, <1>7, <2>4, <2>5 DEF Holds, Covers
    <3> QED  BY <1>1, <1>5, <1>7, <2>2, <2>6, <2>7, <2>8, <3>1 DEF InWord
  <2>10. p \in 1 .. (i + 1) - 1
    BY <1>2
  <2>11. Scanned(i + 1)'
    BY <1>1, <1>3, <1>5, <2>9, <2>10 DEF Scanned
  <2> QED  BY <2>11
<1> QED  BY <1>6, <1>7

LEMMA ScanOfFinish ==
  ASSUME LexTypeIInv, Lexable, NEW i, Scanned(i), Finish
  PROVE  View' = TokensOf(source.text)
<1> DEFINE t == source.text
           token == [type |-> "EOF", lexeme |-> Null]
           says == [type |-> "EOF", text |-> <<>>]
           before == TokensBefore(t, Len(t) + 1)
<1>1. at = Null /\ UNCHANGED <<src, data, lexemes>>
  BY Zenon DEF Finish
<1>2. PICK ts \in WithPending : tokens' = Append(ts, token)
  BY Zenon DEF Finish
<1>3. i = Len(t) + 1
  <2>1. Laid(src, data, source) /\ i \in 1 .. Len(t) + 1 /\ PlaceOrEnd(src, source, i) = Null
    BY <1>1, TypeFacts DEF Scanned, AtPlace
  <2> QED  BY <2>1, PlaceOrEndIs
<1>4. ~is_reading_str
  <2>1. ~OddQuotes(t, Len(t) + 1)
    BY DEF Lexable, WellQuoted, OddQuotes
  <2> QED  BY <1>3, <2>1 DEF Scanned
<1>5. ts \in Seq(Tokens) /\ ViewOf(ts, lexemes) = before
  BY <1>3, <1>4, PendingSays
<1>6. token \in Tokens /\ Shown(token, lexemes) = says
  BY DEF Tokens, TokenTypes, Shown, HasText
<1>7. TokensOf(t) = before \o <<says>>
  BY DEF TokensOf
<1> DEFINE S == {Shown(x, lexemes) : x \in Tokens}
<1>8. before \in Seq(S) /\ says \in S
  <2>1. \A x \in DOMAIN ts : ts[x] \in Tokens
    BY <1>5
  <2>2. before \in [1 .. Len(ts) -> S]
    BY <1>5, <2>1 DEF ViewOf
  <2>3. Len(ts) \in Nat
    BY <1>5
  <2> HIDE DEF before, S
  <2>4. before \in Seq(S)
    BY <2>2, <2>3, SeqDef
  <2> QED  BY <1>6, <2>4 DEF S
<1> HIDE DEF token, says, before, S
<1>9. View' = Append(before, says)
  BY <1>1, <1>2, <1>5, <1>6, ViewAfter, ViewOfAppend
<1>10. before \o <<says>> = Append(before, says)
  BY <1>8, AppendIsConcat
<1> QED  BY <1>7, <1>9, <1>10

LEMMA ScanOfInit ==
  ASSUME Init
  PROVE  ScanIInv
<1>1. LexTypeIInv /\ Laid(src, data, source)
  BY TypeOfInit, TypeFacts
<1>2. /\ status = "lexing" /\ at = FirstChar(src, Null) /\ cur_lexeme = Null
      /\ is_reading_str = FALSE /\ tokens = <<>>
  BY DEF Init
<1>3. 1 \in 1 .. Len(source.text) + 1 /\ AtPlace(1)
  BY <1>1, <1>2, TextFacts, FirstPlace DEF AtPlace
<1>4. View = <<>>
  <2>1. DOMAIN tokens = {}
    BY <1>2
  <2> QED  BY <2>1 DEF View
<1>5. Idle(1)
  BY <1>2, <1>4, TokensBeforeNone DEF Idle
<1>6. Scanned(1)
  BY <1>2, <1>3, <1>5, ParityStart DEF Scanned
<1> QED  BY <1>2, <1>3, <1>6 DEF ScanIInv

LEMMA ScanOfStep ==
  ASSUME LexTypeIInv, ScanIInv, [Next]_vars
  PROVE  ScanIInv'
<1> SUFFICES ASSUME Lexable'
             PROVE  (/\ status = "lexing" => \E i \in 1 .. Len(source.text) + 1 : Scanned(i)
                     /\ status # "lexing" => View = TokensOf(source.text))'
  BY DEF ScanIInv
<1>1. source' = source
  BY Zenon DEF Next, Lex, OpenQuote, CloseQuote, InString, SkipWhitespace, HardBoundary,
               LexemeChar, Finish, ParseExpr, vars
<1>2. Lexable
  BY <1>1 DEF Lexable
<1>3. ASSUME NEW j, Scanned(j)', status' = "lexing"
      PROVE  (/\ status = "lexing" => \E i \in 1 .. Len(source.text) + 1 : Scanned(i)
              /\ status # "lexing" => View = TokensOf(source.text))'
  BY <1>3 DEF Scanned
<1>4. ASSUME status = "lexing"
      PROVE  \E i : Scanned(i)
  BY <1>2, <1>4 DEF ScanIInv
<1>5. CASE OpenQuote
  <2>1. status = "lexing" /\ status' = status
    BY <1>5, Zenon DEF OpenQuote, Reading
  <2> QED  BY <1>2, <1>3, <1>4, <1>5, <2>1, ScanOfOpenQuote
<1>6. CASE CloseQuote
  <2>1. status = "lexing" /\ status' = status
    BY <1>6, Zenon DEF CloseQuote, Reading
  <2> QED  BY <1>2, <1>3, <1>4, <1>6, <2>1, ScanOfCloseQuote
<1>7. CASE InString
  <2>1. status = "lexing" /\ status' = status
    BY <1>7, Zenon DEF InString, Reading
  <2> QED  BY <1>2, <1>3, <1>4, <1>7, <2>1, ScanOfInString
<1>8. CASE SkipWhitespace
  <2>1. status = "lexing" /\ status' = status
    BY <1>8, Zenon DEF SkipWhitespace, Outside, Reading
  <2> QED  BY <1>2, <1>3, <1>4, <1>8, <2>1, ScanOfSkipWhitespace
<1>9. CASE HardBoundary
  <2>1. status = "lexing" /\ status' = status
    BY <1>9, Zenon DEF HardBoundary, Outside, Reading
  <2> QED  BY <1>2, <1>3, <1>4, <1>9, <2>1, ScanOfHardBoundary
<1>10. CASE LexemeChar
  <2>1. status = "lexing" /\ status' = status
    BY <1>10, Zenon DEF LexemeChar, Outside, Reading
  <2> QED  BY <1>2, <1>3, <1>4, <1>10, <2>1, ScanOfLexemeChar
<1>11. CASE Finish
  <2>1. status = "lexing" /\ status' = "done"
    BY <1>11, Zenon DEF Finish
  <2>2. PICK i : Scanned(i)
    BY <1>4, <2>1
  <2>3. View' = TokensOf(source.text)
    BY <1>2, <1>11, <2>2, ScanOfFinish
  <2> QED  BY <1>1, <2>1, <2>3
<1>12. CASE ParseExpr
  <2>1. /\ status = "done" /\ status' \in {"done", "aborted"}
        /\ UNCHANGED <<src, data, tokens, lexemes>>
    BY <1>12, Zenon DEF ParseExpr
  <2>2. View' = View
    BY <2>1, ViewKept
  <2>3. View = TokensOf(source.text)
    BY <1>2, <2>1 DEF ScanIInv
  <2> QED  BY <1>1, <2>1, <2>2, <2>3
<1>13. CASE UNCHANGED vars
  <2>1. UNCHANGED <<source, src, data, at, cur_lexeme, is_reading_str, tokens, lexemes, status>>
    BY <1>13 DEF vars
  <2>2. View' = View
    BY <2>1, ViewKept
  <2>3. ASSUME NEW i, Scanned(i)
        PROVE  Scanned(i)'
    <3>1. Idle(i) => Idle(i)'
      BY <2>1, <2>2 DEF Idle
    <3>2. \A p : InWord(i, p) => InWord(i, p)'
      BY <2>1, <2>2 DEF InWord, Holds, Covers
    <3>3. \A p : InQuotes(i, p) => InQuotes(i, p)'
      BY <2>1, <2>2 DEF InQuotes, Holds, Covers
    <3> QED  BY <2>1, <2>3, <3>1, <3>2, <3>3 DEF Scanned, AtPlace
  <2>4. CASE status = "lexing"
    BY <1>3, <1>4, <2>1, <2>3, <2>4
  <2>5. CASE status # "lexing"
    BY <1>2, <2>1, <2>2, <2>5 DEF ScanIInv
  <2> QED  BY <2>4, <2>5
<1> QED  BY <1>5, <1>6, <1>7, <1>8, <1>9, <1>10, <1>11, <1>12, <1>13 DEF Next, Lex

(* The tokens of a source that can be lexed, with the texts their lexemes   *)
(* designate once it is scanned, are the source's: strings, hard boundaries *)
(* and whole words between them, also where a lexeme runs over the end of a *)
(* block (lexical_analysis.c:107-220, arena.c:352-420).                     *)
THEOREM LexerTokensOfSource == Spec => []TokensOfSource
<1>1. Init => ScanIInv
  BY ScanOfInit
<1>2. LexTypeIInv /\ ScanIInv /\ [Next]_vars => ScanIInv'
  BY ScanOfStep
<1>3. ScanIInv => TokensOfSource
  BY DEF ScanIInv, TokensOfSource, LexedAll, Lexable
<1> QED  BY <1>1, <1>2, <1>3, LexTypeInductive, PTL DEF Spec
=============================================================================
