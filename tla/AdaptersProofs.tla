-------------------------- MODULE AdaptersProofs --------------------------
(***************************************************************************)
(* Theorems about Adapters for blocks of any number of elements.  Every    *)
(* block of the stack but its first is full, so that an element's place in *)
(* the order gives its block and its offset; the conversion carries these  *)
(* places over to the blocks of the list.                                  *)
(***************************************************************************)
EXTENDS Adapters, ArenaOpsProofs

(* The stack, whose blocks hold what StackProofs says.  Its lemmas about    *)
(* pointers do not look at values, so none are given.                       *)
Stk == INSTANCE StackProofs
  WITH mem <- stackData, out <- 0, ElemSize <- 1, ElemAlignment <- 1,
       Values <- {}, NoElem <- 0, Junk <- 1, ResetsAnywhere <- FALSE

Elems(s) == ElemsInOrder(s.arena, 1)

StackShape(s) ==
  /\ s \in Stacks /\ s.elem_size = 1 /\ s.elem_padded_size = 1
  /\ Stk!Shape(s.arena, s.elem_count)

(* Memory that was written with depths, or not at all. *)
Datas == [Blocks -> [0 .. ElemQtt - 1 -> Nat \cup {Junk}]]

(* Pushes and pops keep in every element its depth. *)
DepthsHeld(s, data) ==
  \A i \in 1 .. s.elem_count : Read(data, Elems(s)[i]) = s.elem_count - i + 1

(* While the stack is filled the list only gains blocks. *)
ListReady(l) ==
  /\ l \in Lists /\ l.elem_padded_size = 1
  /\ ArenaOK(l.arena) /\ l.arena.block_size = ElemQtt

(* chain carries the list's links over n blocks, but for the last next. *)
LinkedAlong(a, chain, n) ==
  /\ a.block_count = n
  /\ a.head_block = chain[1] /\ a.tail_block = chain[n]
  /\ \A i \in 1 .. n : a.block[chain[i]].prev = IF i = 1 THEN Null ELSE chain[i - 1]
  /\ \A i \in 1 .. n - 1 : a.block[chain[i]].next = chain[i + 1]

OneToOne(chain, n) == \A i, j \in 1 .. n : chain[i] = chain[j] => i = j

(* Block b holds in its used bytes what block c of the stack holds. *)
SameBytes(a, data, b, from, fromData, c) ==
  /\ a.block[b].left_offset = from.block[c].left_offset
  /\ a.block[b].right_offset = from.block[c].right_offset
  /\ \A o \in from.block[c].left_offset .. from.block[c].right_offset - 1 :
       data[b][o] = fromData[c][o]

CarriedOver(l, data, s, fromData, chain) ==
  LET n == s.arena.block_count
  IN  /\ LinkedAlong(l.arena, chain, n) /\ OneToOne(chain, n)
      /\ \A i \in 1 .. n :
           SameBytes(l.arena, data, chain[i], s.arena, fromData, Chain(s.arena)[i])

(* The list begins with an element of the stack, if there is one. *)
HeadUsed(s) ==
  s.elem_count = 0 \/ ~IsBlockEmpty(s.arena.block[s.arena.head_block])

ListOfTheStack ==
  /\ list.elem_count = stack.elem_count /\ list.elem_padded_size = 1
  /\ HeadUsed(stack)
  /\ \E chain \in [1 .. stack.arena.block_count -> Blocks] :
       CarriedOver(list, listData, stack, stackData, chain)
  /\ phase = "converted" => list.arena.block[list.arena.tail_block].next = Null

AdaptersIInv ==
  /\ StackShape(stack) /\ stackData \in Datas /\ DepthsHeld(stack, stackData)
  /\ list \in Lists /\ listData \in Datas
  /\ phase \in {"filling", "converted", "grown", "aborted"}
  /\ phase = "filling" => ListReady(list)
  /\ Converted => ListOfTheStack
-----------------------------------------------------------------------------
(* What StackProofs shows of its stack, said of this one.                   *)
LEMMA StkAssumptions ==
  /\ ElemQtt \in Nat \ {0}
  /\ Stk!BlocksAssumption /\ Stk!NullAssumption /\ Stk!SizeModAssumption
  /\ Stk!ElemAssumption /\ Stk!CellAssumption /\ Stk!ResetsAnywhereAssumption
<1>1. ElemQtt \in Nat \ {0}
  BY ElemQttAssumption
<1> QED  BY <1>1, BlocksAssumption, NullAssumption, SizeModAssumption
  DEF Stk!BlocksAssumption, Stk!NullAssumption, Stk!SizeModAssumption,
      Stk!ElemAssumption, Stk!CellAssumption, Stk!ResetsAnywhereAssumption

LEMMA StkBlockSize == Stk!BlockSize = ElemQtt
<1>1. ElemQtt \in Nat \ {0}
  BY ElemQttAssumption
<1>2. Stk!PaddedSize(1, 1) = 1 /\ Stk!BlockSize = ElemQtt * 1
  BY StkAssumptions, Stk!Sizes
<1> QED  BY <1>1, <1>2

LEMMA SameArenas == Arenas = Stk!Arenas /\ Stacks = Stk!Stacks
BY DEF Stacks, Stk!Stacks, Arenas, Stk!Arenas, MemBlocks, Stk!MemBlocks, Offsets, Stk!Offsets

LEMMA SameArenaOK ==
  ASSUME NEW a
  PROVE  Stk!ArenaOK(a) <=> ArenaOK(a)
<1>1. \A s : IsChain(a, s) <=> Stk!IsChain(a, s)
  BY DEF IsChain, Stk!IsChain
<1>2. Chains(a) = Stk!Chains(a)
  BY <1>1 DEF Chains, Stk!Chains
<1> QED  BY <1>2, SameArenas
  DEF ArenaOK, Stk!ArenaOK, Chained, Stk!Chained, InBounds, Stk!InBounds

LEMMA SameAlloc ==
  ASSUME NEW a
  PROVE  AllocAtHead(a, 1) = Stk!AllocAtHead(a, 1)
BY DEF AllocAtHead, Stk!AllocAtHead, HeadRoom, Stk!HeadRoom,
       AllocHeadBlock, Stk!AllocHeadBlock, Fresh, Stk!Fresh,
       StartOffset, Stk!StartOffset

LEMMA SamePop ==
  ASSUME NEW s
  PROVE  /\ IsStackEmpty(s) = Stk!IsStackEmpty(s)
         /\ PoppedPtr(s) = Stk!PoppedPtr(s)
         /\ PopFromStack(s) = Stk!PopFromStack(s)
<1>1. \A x : SizeLess(s.arena, x) = Stk!SizeLess(s.arena, x)
  BY DEF SizeLess, Stk!SizeLess
<1>2. \A b, c : Unlinked(s.arena, b, c) = Stk!Unlinked(s.arena, b, c)
  BY DEF Unlinked, Stk!Unlinked
<1>3. Freed = Stk!Freed
  BY DEF Freed, Stk!Freed
<1>4. \A b : DeallocBlock(s.arena, b) = Stk!DeallocBlock(s.arena, b)
  BY <1>1, <1>2, <1>3 DEF DeallocBlock, Stk!DeallocBlock
<1>5. PopArena(s) = Stk!PopArena(s)
  BY <1>4 DEF PopArena, Stk!PopArena, IsBlockEmpty, Stk!IsBlockEmpty,
     DeallocHeadBlock, Stk!DeallocHeadBlock
<1>6. IsStackEmpty(s) = Stk!IsStackEmpty(s)
  BY DEF IsStackEmpty, Stk!IsStackEmpty
<1>7. PoppedPtr(s) = Stk!PoppedPtr(s)
  BY <1>5, <1>6 DEF PoppedPtr, Stk!PoppedPtr, HeadPtr, Stk!HeadPtr
<1>8. PopFromStack(s) = Stk!PopFromStack(s)
  BY <1>5, <1>6 DEF PopFromStack, Stk!PopFromStack, CountAfterPop, Stk!CountAfterPop
<1> QED  BY <1>6, <1>7, <1>8

LEMMA SameElems ==
  ASSUME NEW a
  PROVE  ElemsInOrder(a, 1) = Stk!ElemsInOrder(a, 1)
<1>1. Chain(a) = Stk!Chain(a)
  BY DEF Chain, Stk!Chain
<1>2. \A b : ElemPtrs(a, b, 1) = Stk!ElemPtrs(a, b, 1)
  BY DEF ElemPtrs, Stk!ElemPtrs
<1>3. \A seqs : FlattenSeq(seqs) = Stk!FlattenSeq(seqs)
  BY DEF FlattenSeq, Stk!FlattenSeq
<1> QED  BY <1>1, <1>2, <1>3 DEF ElemsInOrder, Stk!ElemsInOrder

LEMMA SameInit ==
  ASSUME NEW n
  PROVE  InitArena(n, ElemQtt, "right") = Stk!InitArena(n, ElemQtt, "right")
BY DEF InitArena, Stk!InitArena, StartOffset, Stk!StartOffset, Freed, Stk!Freed

(* The blocks along s: full but for the first k places of the first.        *)
BlocksFilled(a, s, k) ==
  /\ a.block_count \in Nat \ {0} /\ k \in 0 .. ElemQtt
  /\ s \in [1 .. a.block_count -> Blocks]
  /\ \A i \in 1 .. a.block_count :
       /\ a.block[s[i]].left_offset = IF i = 1 THEN k ELSE 0
       /\ a.block[s[i]].right_offset = ElemQtt

LEMMA StackBlocks ==
  ASSUME NEW s, StackShape(s)
  PROVE  \E k : /\ BlocksFilled(s.arena, Chain(s.arena), k)
                /\ s.elem_count = s.arena.block_count * ElemQtt - k
<1> DEFINE a == s.arena
<1>1. /\ ArenaOK(a) /\ Stk!OthersFull(a) /\ Stk!HeadFree(a, s.elem_count)
  BY SameArenaOK DEF StackShape, Stk!Shape
<1>2. PICK k \in 0 .. ElemQtt :
        /\ a.block[a.head_block].left_offset = k * 1
        /\ s.elem_count = a.block_count * ElemQtt - k
  BY <1>1 DEF Stk!HeadFree
<1>3. /\ a.block_count \in Nat \ {0} /\ a.live \subseteq Blocks /\ Chained(a)
  BY <1>1 DEF ArenaOK, Arenas, Chained
<1>4. Chain(a) \in [1 .. a.block_count -> a.live] /\ IsChain(a, Chain(a))
  BY <1>3, ChainOfChained
<1>5. k * 1 = k
  OBVIOUS
<1>6. ASSUME NEW i \in 1 .. a.block_count
      PROVE  /\ a.block[Chain(a)[i]].left_offset = IF i = 1 THEN k ELSE 0
             /\ a.block[Chain(a)[i]].right_offset = ElemQtt
  <2>1. Chain(a)[i] \in a.live /\ 1 \in 1 .. a.block_count
    BY <1>3, <1>4
  <2>2. Chain(a)[1] = a.head_block /\ (i # 1 => Chain(a)[i] # a.head_block)
    BY <1>4, <2>1 DEF IsChain
  <2>3. a.block[Chain(a)[i]].right_offset = ElemQtt
    BY <1>1, <2>1, StkBlockSize DEF Stk!OthersFull
  <2>4. i # 1 => a.block[Chain(a)[i]].left_offset = 0
    BY <1>1, <2>1, <2>2 DEF Stk!OthersFull
  <2> QED  BY <1>2, <1>5, <2>2, <2>3, <2>4
<1>7. Chain(a) \in [1 .. a.block_count -> Blocks]
  BY <1>3, <1>4
<1> QED  BY <1>2, <1>3, <1>6, <1>7 DEF BlocksFilled
-----------------------------------------------------------------------------
(* The place in the order of the element at offset o of the j-th block.     *)
Place(k, j, o) == (j - 1) * ElemQtt + o + 1 - k

Used(k, j, o) == j = 1 => k <= o

Placed(u, s, n, k) ==
  /\ u \in Seq(ElemPtr) /\ Len(u) = n * ElemQtt - k
  /\ \A j \in 1 .. n, o \in 0 .. ElemQtt - 1 :
       Used(k, j, o) => u[Place(k, j, o)] = Ptr(s[j], o)

LEMMA MultMonotone ==
  ASSUME NEW i \in Nat, NEW j \in Nat, i <= j, NEW q \in Nat
  PROVE  i * q <= j * q
<1>1. PICK d \in Nat : j = i + d
  <2>1. j - i \in Nat /\ j = i + (j - i)
    OBVIOUS
  <2> QED  BY <2>1
<1>2. j * q = i * q + d * q /\ d * q \in Nat /\ i * q \in Nat
  BY <1>1
<1> QED  BY <1>2

LEMMA PlaceInRange ==
  ASSUME NEW n \in Nat, NEW k \in 0 .. ElemQtt, NEW j \in 1 .. n,
         NEW o \in 0 .. ElemQtt - 1, Used(k, j, o)
  PROVE  Place(k, j, o) \in 1 .. n * ElemQtt - k
<1> DEFINE q == ElemQtt
<1>1. q \in Nat /\ j - 1 \in Nat /\ j \in Nat
  BY ElemQttAssumption
<1>2. j * q <= n * q
  BY <1>1, MultMonotone
<1>3. (j - 1) * q + q = j * q /\ j * q \in Nat /\ n * q \in Nat /\ (j - 1) * q \in Nat
  BY <1>1
<1>4. k <= (j - 1) * q + o
  <2>1. CASE j = 1
    BY <1>1, <2>1 DEF Used
  <2>2. CASE j # 1
    <3>1. 1 <= j - 1 /\ 1 \in Nat
      BY <2>2
    <3>2. 1 * q <= (j - 1) * q
      BY <1>1, <3>1, MultMonotone
    <3> QED  BY <1>1, <1>3, <3>2
  <2> QED  BY <2>1, <2>2
<1> DEFINE x == (j - 1) * q
           y == n * q
<1>5. x \in Nat /\ y \in Nat /\ x + q <= y /\ k <= x + o
  BY <1>2, <1>3, <1>4
<1>6. Place(k, j, o) = x + o + 1 - k
  BY DEF Place
<1> HIDE DEF x, y
<1> QED  BY <1>1, <1>5, <1>6 DEF y

LEMMA PlacesCover ==
  ASSUME NEW n \in Nat, NEW k \in 0 .. ElemQtt, NEW m \in 1 .. n * ElemQtt - k
  PROVE  \E j \in 1 .. n, o \in 0 .. ElemQtt - 1 : Used(k, j, o) /\ m = Place(k, j, o)
<1> DEFINE q == ElemQtt
           x == m - 1 + k
           d == x \div q
           o == x % q
<1>1. q \in Nat \ {0} /\ n * q \in Nat
  BY ElemQttAssumption
<1>2. x \in Nat /\ x < n * q
  BY <1>1
<1> HIDE DEF x
<1>3. d \in Nat /\ o \in 0 .. q - 1 /\ x = d * q + o
  BY <1>1, <1>2
<1> HIDE DEF d, o
<1>4. d < n
  <2> SUFFICES ASSUME ~(d < n) PROVE FALSE
    OBVIOUS
  <2>1. n * q <= d * q
    BY <1>1, <1>3, MultMonotone
  <2>2. d * q \in Nat
    BY <1>1, <1>3
  <2> QED  BY <1>1, <1>2, <1>3, <2>1, <2>2
<1>5. d + 1 \in 1 .. n /\ (d + 1) - 1 = d
  BY <1>3, <1>4
<1>6. d * q + o + 1 - k = m
  <2>1. d * q \in Nat
    BY <1>1, <1>3
  <2> QED  BY <1>3, <2>1 DEF x
<1>7. Used(k, d + 1, o)
  <2> SUFFICES ASSUME d + 1 = 1 PROVE k <= o
    BY DEF Used
  <2>1. d = 0 /\ 0 * q = 0
    BY <1>1, <1>3
  <2>2. x = o
    BY <1>3, <2>1
  <2> QED  BY <2>2 DEF x
<1> QED  BY <1>3, <1>5, <1>6, <1>7 DEF Place

(* The elements of one block, in the order of their offsets.                *)
Row(u, b, left) ==
  /\ u \in Seq(ElemPtr) /\ Len(u) = ElemQtt - left
  /\ \A i \in 1 .. ElemQtt - left : u[i] = Ptr(b, left + i - 1)

LEMMA BlockRow ==
  ASSUME NEW a, NEW b \in Blocks, NEW left \in 0 .. ElemQtt,
         a.block[b].left_offset = left, a.block[b].right_offset = ElemQtt
  PROVE  Row(ElemPtrs(a, b, 1), b, left)
<1> DEFINE n == ElemQtt - left
           u == [i \in 1 .. n |-> Ptr(b, left + i - 1)]
<1>1. ElemQtt \in Nat /\ n \in Nat /\ n \div 1 = n
  BY ElemQttAssumption
<1>2. \A i \in 1 .. n : left + (i - 1) * 1 = left + i - 1 /\ left + i - 1 \in Nat
  BY <1>1
<1>3. ElemPtrs(a, b, 1) = u
  BY <1>1, <1>2 DEF ElemPtrs, Ptr
<1>4. u \in [1 .. n -> ElemPtr]
  BY <1>2 DEF ElemPtr, Ptr
<1>5. \A i \in 1 .. n : u[i] = Ptr(b, left + i - 1)
  OBVIOUS
<1> HIDE DEF u
<1>6. u \in Seq(ElemPtr)
  BY <1>1, <1>4, SeqDef
<1>7. Len(u) = n
  BY <1>1, <1>4, <1>6, LenProperties
<1> QED  BY <1>3, <1>5, <1>6, <1>7 DEF Row

LEMMA PlacedFirst ==
  ASSUME NEW u, NEW s, NEW k \in 0 .. ElemQtt, Row(u, s[1], k)
  PROVE  Placed(u, s, 1, k)
<1>1. ElemQtt \in Nat /\ 1 * ElemQtt = ElemQtt /\ 0 * ElemQtt = 0
  BY ElemQttAssumption
<1>2. ASSUME NEW j \in 1 .. 1, NEW o \in 0 .. ElemQtt - 1, Used(k, j, o)
      PROVE  u[Place(k, j, o)] = Ptr(s[j], o)
  <2>1. j = 1 /\ k <= o
    BY <1>2 DEF Used
  <2>2. Place(k, j, o) = (o - k) + 1
    BY <1>1, <2>1 DEF Place
  <2>3. (o - k) + 1 \in 1 .. ElemQtt - k /\ k + ((o - k) + 1) - 1 = o
    BY <1>1, <2>1
  <2> QED  BY <2>1, <2>2, <2>3 DEF Row
<1> QED  BY <1>1, <1>2 DEF Placed, Row

LEMMA PlacedNext ==
  ASSUME NEW u, NEW s, NEW n \in Nat \ {0}, NEW k \in 0 .. ElemQtt, Placed(u, s, n, k),
         NEW e, Row(e, s[n + 1], 0)
  PROVE  Placed(Cat(u, e), s, n + 1, k)
<1> DEFINE t == Cat(u, e)
           m == n * ElemQtt - k
<1>1. ElemQtt \in Nat /\ n * ElemQtt \in Nat /\ (n + 1) * ElemQtt = n * ElemQtt + ElemQtt
  BY ElemQttAssumption
<1>2. Appended(t, u, e, m, ElemQtt, ElemPtr)
  <2>1. IsCat(t, u, e, m, ElemQtt, ElemPtr)
    BY <1>1 DEF IsCat, Placed, Row
  <2> QED  BY <2>1, CatIs
<1> HIDE DEF t
<1>3. t \in Seq(ElemPtr) /\ Len(t) = (n + 1) * ElemQtt - k
  BY <1>1, <1>2 DEF Appended
<1>4. ASSUME NEW j \in 1 .. n + 1, NEW o \in 0 .. ElemQtt - 1, Used(k, j, o)
      PROVE  t[Place(k, j, o)] = Ptr(s[j], o)
  <2>1. CASE j \in 1 .. n
    <3>1. Place(k, j, o) \in 1 .. m
      BY <1>4, <2>1, PlaceInRange
    <3>2. t[Place(k, j, o)] = u[Place(k, j, o)]
      BY <1>2, <3>1 DEF Appended
    <3> QED  BY <1>4, <2>1, <3>2 DEF Placed
  <2>2. CASE j = n + 1
    <3>1. Place(k, j, o) = m + (o + 1) /\ o + 1 \in 1 .. ElemQtt /\ 0 + (o + 1) - 1 = o
      BY <1>1, <2>2 DEF Place
    <3>2. t[m + (o + 1)] = e[o + 1]
      BY <1>2, <3>1 DEF Appended
    <3>3. e[o + 1] = Ptr(s[j], o)
      BY <1>1, <2>2, <3>1 DEF Row
    <3> QED  BY <3>1, <3>2, <3>3
  <2> QED  BY <2>1, <2>2
<1> QED  BY <1>3, <1>4 DEF Placed, t

LEMMA ElemsPlaced ==
  ASSUME NEW a, NEW s, Chain(a) = s, NEW k, BlocksFilled(a, s, k)
  PROVE  Placed(ElemsInOrder(a, 1), s, a.block_count, k)
<1> DEFINE n == a.block_count
           seqs == ElemSeqs(a, 1)
           T == {j \in 1 .. n : Placed(FlattenSeq(Prefix(seqs, j)), s, j, k)}
<1>1. /\ n \in Nat \ {0} /\ k \in 0 .. ElemQtt /\ s \in [1 .. n -> Blocks]
      /\ ElemQtt \in Nat \ {0} /\ 0 \in 0 .. ElemQtt
  BY ElemQttAssumption DEF BlocksFilled
<1>2. ASSUME NEW i \in 1 .. n
      PROVE  Row(seqs[i], s[i], IF i = 1 THEN k ELSE 0)
  <2>1. seqs[i] = ElemPtrs(a, s[i], 1)
    BY DEF ElemSeqs
  <2>2. /\ a.block[s[i]].left_offset = IF i = 1 THEN k ELSE 0
        /\ a.block[s[i]].right_offset = ElemQtt
    BY DEF BlocksFilled
  <2> QED  BY <1>1, <2>1, <2>2, BlockRow
<1>3. seqs \in Seq(Seq(ElemPtr)) /\ Len(seqs) = n
  <2>1. \A i \in 1 .. n : seqs[i] \in Seq(ElemPtr)
    BY <1>2 DEF Row
  <2>2. seqs \in [1 .. n -> Seq(ElemPtr)]
    BY <2>1 DEF ElemSeqs
  <2> HIDE DEF seqs
  <2>3. seqs \in Seq(Seq(ElemPtr))
    BY <1>1, <2>2, SeqDef
  <2> QED  BY <1>1, <2>2, <2>3, LenProperties
<1>4. ElemsInOrder(a, 1) = FlattenSeq(seqs)
  BY DEF ElemsInOrder, ElemSeqs
<1> HIDE DEF seqs
<1>5. 1 \in T
  <2>0. 1 \in 0 .. Len(seqs)
    BY <1>1, <1>3
  <2>1. Prefix(seqs, 1) \in Seq(Seq(ElemPtr)) /\ Len(Prefix(seqs, 1)) = 1
    BY <1>3, <2>0, PrefixType
  <2>2. FlattenSeq(Prefix(seqs, 1)) = Prefix(seqs, 1)[1]
    BY <2>1, FlattenOne
  <2>3. Prefix(seqs, 1)[1] = seqs[1]
    BY DEF Prefix
  <2>4. 1 \in 1 .. n
    BY <1>1
  <2>5. Row(seqs[1], s[1], k)
    BY <1>2, <2>4
  <2>6. Placed(seqs[1], s, 1, k)
    BY <1>1, <2>5, PlacedFirst
  <2> QED  BY <2>2, <2>3, <2>4, <2>6
<1>6. ASSUME NEW j \in 1 .. n - 1, j \in T
      PROVE  j + 1 \in T
  <2>1. j \in 0 .. Len(seqs) - 1 /\ j + 1 \in 1 .. n /\ j + 1 # 1 /\ j \in Nat \ {0}
    BY <1>1, <1>3
  <2>2. FlattenSeq(Prefix(seqs, j + 1)) = Cat(FlattenSeq(Prefix(seqs, j)), seqs[j + 1])
    BY <1>3, <2>1, FlattenPrefix
  <2>3. Row(seqs[j + 1], s[j + 1], 0)
    BY <1>2, <2>1
  <2>4. Placed(FlattenSeq(Prefix(seqs, j)), s, j, k)
    BY <1>6
  <2>5. Placed(Cat(FlattenSeq(Prefix(seqs, j)), seqs[j + 1]), s, j + 1, k)
    BY <1>1, <2>1, <2>3, <2>4, PlacedNext
  <2> QED  BY <2>1, <2>2, <2>5
<1>7. n \in T
  <2> HIDE DEF T
  <2>1. \A i \in 1 .. n : i \in T
    BY <1>1, <1>5, <1>6, IntervalInduction
  <2> QED  BY <1>1, <2>1
<1>8. Prefix(seqs, n) = seqs
  BY <1>3, PrefixWhole
<1> QED  BY <1>4, <1>7, <1>8
-----------------------------------------------------------------------------
(* The list's blocks, followed from the head, although the last next may    *)
(* lead anywhere.                                                           *)
LEMMA ChainAlong ==
  ASSUME NEW a, NEW n \in Nat \ {0}, NEW s \in [1 .. n -> Blocks], LinkedAlong(a, s, n)
  PROVE  Chain(a) = s
<1> DEFINE Is(at) == at = [i \in 1 .. a.block_count |-> ChainAt(a, at, i)]
<1>1. a.block_count = n
  BY DEF LinkedAlong
<1>2. \A i \in 1 .. n : s[i] = ChainAt(a, s, i)
  <2> TAKE i \in 1 .. n
  <2>1. CASE i = 1
    BY <2>1 DEF ChainAt, LinkedAlong
  <2>2. CASE i # 1
    <3>1. i - 1 \in 1 .. n - 1 /\ (i - 1) + 1 = i
      BY <2>2
    <3>2. a.block[s[i - 1]].next = s[(i - 1) + 1]
      BY <3>1 DEF LinkedAlong
    <3> QED  BY <2>2, <3>1, <3>2 DEF ChainAt
  <2> QED  BY <2>1, <2>2
<1>3. Is(s)
  <2>1. s = [i \in 1 .. n |-> s[i]]
    OBVIOUS
  <2> QED  BY <1>1, <1>2, <2>1
<1>4. ASSUME NEW at, Is(at)
      PROVE  at = s
  <2> DEFINE T == {i \in 1 .. n : at[i] = s[i]}
  <2>1. \A i \in 1 .. n : at[i] = ChainAt(a, at, i)
    BY <1>1, <1>4
  <2>2. 1 \in T
    BY <1>2, <2>1 DEF ChainAt
  <2>3. ASSUME NEW i \in 1 .. n - 1, i \in T
        PROVE  i + 1 \in T
    <3>1. i + 1 \in 1 .. n /\ (i + 1) - 1 = i /\ i + 1 # 1
      OBVIOUS
    <3>2. at[i + 1] = ChainAt(a, at, i + 1) /\ s[i + 1] = ChainAt(a, s, i + 1)
      BY <1>2, <2>1, <3>1
    <3> QED  BY <2>3, <3>1, <3>2 DEF ChainAt
  <2>4. \A i \in 1 .. n : i \in T
    <3> HIDE DEF T
    <3> QED  BY <2>2, <2>3, IntervalInduction
  <2>5. at = [i \in 1 .. n |-> at[i]]
    BY <1>1, <1>4
  <2> QED  BY <2>4, <2>5
<1>5. Chain(a) = CHOOSE at : Is(at)
  BY DEF Chain, ChainAt
<1> HIDE DEF Is
<1> QED  BY <1>3, <1>4, <1>5

(* _lf_get_block_of_elem walks from the head or stays at the cursor.        *)
WalkAt(l, p, f, b) ==
  IF b = Null THEN Null
  ELSE IF SpansElem(l, b, p) THEN b ELSE f[l.arena.block[b].next]

IsWalk(l, p, f) == f = [b \in Blocks \cup {Null} |-> WalkAt(l, p, f, b)]

LEMMA WalkExists ==
  ASSUME NEW l, l.arena \in Arenas, NEW p
  PROVE  \E f : IsWalk(l, p, f)
<1> DEFINE D == Blocks \cup {Null}
           stop == {b \in D : b = Null \/ SpansElem(l, b, p)}
           val == [b \in D |-> b]
           move == [b \in D |-> l.arena.block[b].next]
<1>1. ASSUME NEW b \in D \ stop
      PROVE  move[b] \in D
  <2>1. b \in Blocks
    OBVIOUS
  <2>2. l.arena.block[b].next \in D
    BY <2>1 DEF Arenas, MemBlocks
  <2> QED  BY <2>2
<1>2. PICK f : IsLoop(f, D, stop, val, move)
  <2>1. stop \in SUBSET D
    OBVIOUS
  <2> HIDE DEF D, stop, val, move
  <2> QED  BY <1>1, <2>1, LoopExists
<1>3. ASSUME NEW b \in D
      PROVE  LoopAt(f, stop, val, move, b) = WalkAt(l, p, f, b)
  <2>1. /\ val[b] = b /\ move[b] = l.arena.block[b].next
        /\ b \in stop <=> b = Null \/ SpansElem(l, b, p)
    OBVIOUS
  <2> HIDE DEF val, move, stop
  <2> QED  BY <2>1 DEF LoopAt, WalkAt
<1> HIDE DEF stop, val, move
<1> QED  BY <1>2, <1>3 DEF IsLoop, IsWalk

LEMMA WalkUnfolds ==
  ASSUME NEW l, l.arena \in Arenas, NEW p
  PROVE  \E f : /\ IsWalk(l, p, f)
                /\ BlockOfElem(l, p) =
                     f[IF InUsedBytes(l, l.arena.cursor_block, p)
                       THEN l.arena.cursor_block ELSE l.arena.head_block]
<1> DEFINE f == CHOOSE f : IsWalk(l, p, f)
<1>1. IsWalk(l, p, f)
  BY WalkExists
<1>2. BlockOfElem(l, p) =
        f[IF InUsedBytes(l, l.arena.cursor_block, p)
          THEN l.arena.cursor_block ELSE l.arena.head_block]
  BY DEF BlockOfElem, IsWalk, WalkAt
<1> HIDE DEF f
<1> QED  BY <1>1, <1>2

(* A list whose blocks are linked along s and filled from place k on.       *)
FilledList(l, s, n, k) ==
  /\ l \in Lists /\ l.elem_padded_size = 1 /\ n \in Nat \ {0}
  /\ LinkedAlong(l.arena, s, n) /\ OneToOne(s, n)
  /\ BlocksFilled(l.arena, s, k)

(* Wherever the cursor is, an element is found in its block. *)
LEMMA BlockOfElemAlong ==
  ASSUME NEW l, NEW s, NEW n, NEW k, FilledList(l, s, n, k), NEW j \in 1 .. n,
         NEW o \in 0 .. ElemQtt - 1, Used(k, j, o)
  PROVE  BlockOfElem(l, Ptr(s[j], o)) = s[j]
<1> DEFINE a == l.arena
           p == Ptr(s[j], o)
<1>1. /\ a \in Arenas /\ n \in Nat \ {0} /\ s \in [1 .. n -> Blocks]
      /\ a.head_block = s[1] /\ OneToOne(s, n)
      /\ \A i \in 1 .. n - 1 : a.block[s[i]].next = s[i + 1]
  BY DEF FilledList, LinkedAlong, BlocksFilled, Lists
<1>2. PICK f : /\ IsWalk(l, p, f)
               /\ BlockOfElem(l, p) =
                    f[IF InUsedBytes(l, a.cursor_block, p)
                      THEN a.cursor_block ELSE a.head_block]
  BY <1>1, WalkUnfolds
<1>3. SpansElem(l, s[j], p)
  <2>1. /\ a.block[s[j]].left_offset = IF j = 1 THEN k ELSE 0
        /\ a.block[s[j]].right_offset = ElemQtt /\ l.elem_padded_size = 1
    BY DEF FilledList, LinkedAlong, BlocksFilled
  <2>2. a.block[s[j]].left_offset <= o
    BY <2>1 DEF Used
  <2>3. o <= ElemQtt - 1
    BY ElemQttAssumption
  <2> QED  BY <2>1, <2>2, <2>3 DEF SpansElem, LastOff, Ptr
<1>4. \A b \in Blocks : b # s[j] => ~SpansElem(l, b, p)
  BY DEF SpansElem, Ptr
<1>5. \A b \in Blocks : f[b] = IF SpansElem(l, b, p) THEN b ELSE f[a.block[b].next]
  BY <1>2, BlocksAssumption DEF IsWalk, WalkAt
<1> HIDE DEF p
<1> DEFINE T == {i \in 1 .. j : f[s[i]] = s[j]}
<1>6. j \in T
  BY <1>1, <1>3, <1>5
<1>7. ASSUME NEW i \in 1 .. j - 1, i + 1 \in T
      PROVE  i \in T
  <2>1. i \in 1 .. n - 1 /\ i \in 1 .. n /\ i # j /\ i \in 1 .. j
    BY <1>1
  <2>2. s[i] \in Blocks /\ s[i] # s[j]
    BY <1>1, <2>1 DEF OneToOne
  <2> QED  BY <1>1, <1>4, <1>5, <1>7, <2>1, <2>2
<1>8. 1 \in T
  <2> HIDE DEF T
  <2>1. j \in Nat /\ 1 \in 1 .. j
    OBVIOUS
  <2>2. \A i \in 1 .. j : i \in T
    BY <1>6, <1>7, <2>1, DownwardInduction
  <2> QED  BY <2>1, <2>2
<1>9. InUsedBytes(l, a.cursor_block, p) => a.cursor_block = s[j]
  BY DEF InUsedBytes, p, Ptr
<1>10. f[s[1]] = s[j] /\ f[s[j]] = s[j]
  BY <1>6, <1>8
<1> QED  BY <1>1, <1>2, <1>9, <1>10 DEF p

(* What the lookups return for an element and where they leave the cursor.  *)
IsAt(p, l, s, n, k, j, o) ==
  /\ FilledList(l, s, n, k) /\ j \in 1 .. n /\ o \in 0 .. ElemQtt - 1
  /\ Used(k, j, o) /\ p = Ptr(s[j], o)

LEMMA NextAlong ==
  ASSUME NEW l, NEW s, NEW n, NEW k, NEW j, NEW o, NEW p, IsAt(p, l, s, n, k, j, o)
  PROVE  /\ o # ElemQtt - 1 =>
              NextElem(l, p) = [ptr |-> Ptr(s[j], o + 1), cursor |-> s[j]]
         /\ o = ElemQtt - 1 => NextElem(l, p) = IntoNextBlock(l, s[j])
<1>0. /\ FilledList(l, s, n, k) /\ j \in 1 .. n /\ o \in 0 .. ElemQtt - 1
      /\ Used(k, j, o) /\ p = Ptr(s[j], o)
  BY DEF IsAt
<1>1. BlockOfElem(l, p) = s[j]
  BY <1>0, BlockOfElemAlong
<1>2. s[j] \in Blocks /\ s[j] # Null
  BY <1>0, BlocksAssumption DEF FilledList, LinkedAlong, BlocksFilled
<1>3. l.elem_padded_size = 1 /\ l.arena.block[s[j]].right_offset = ElemQtt
  BY <1>0 DEF FilledList, LinkedAlong, BlocksFilled
<1>4. AtBlockEnd(l, s[j], p) <=> o = ElemQtt - 1
  BY <1>0, <1>3 DEF AtBlockEnd, LastOff, Ptr
<1>5. p.off + l.elem_padded_size = o + 1
  BY <1>0, <1>3 DEF Ptr
<1>6. o # ElemQtt - 1 => NextElem(l, p) = [ptr |-> Ptr(s[j], o + 1), cursor |-> s[j]]
  <2> SUFFICES ASSUME o # ElemQtt - 1
               PROVE  NextElem(l, p) = [ptr |-> Ptr(s[j], o + 1), cursor |-> s[j]]
    OBVIOUS
  <2>1. NextElem(l, p) = [ptr |-> Ptr(s[j], p.off + l.elem_padded_size), cursor |-> s[j]]
    BY <1>1, <1>2, <1>4 DEF NextElem
  <2> QED  BY <1>5, <2>1
<1>7. o = ElemQtt - 1 => NextElem(l, p) = IntoNextBlock(l, s[j])
  BY <1>1, <1>2, <1>4 DEF NextElem
<1> QED  BY <1>6, <1>7

LEMMA PrevAlong ==
  ASSUME NEW l, NEW s, NEW n, NEW k, NEW j, NEW o, NEW p, IsAt(p, l, s, n, k, j, o)
  PROVE  /\ o # 0 =>
              PrevElem(l, p) = [ptr |-> Ptr(s[j], o - 1), cursor |-> s[j]]
         /\ o = 0 => PrevElem(l, p) = IntoPrevBlock(l, s[j])
<1>0. /\ FilledList(l, s, n, k) /\ j \in 1 .. n /\ o \in 0 .. ElemQtt - 1
      /\ Used(k, j, o) /\ p = Ptr(s[j], o)
  BY DEF IsAt
<1>1. BlockOfElem(l, p) = s[j]
  BY <1>0, BlockOfElemAlong
<1>2. s[j] \in Blocks /\ s[j] # Null
  BY <1>0, BlocksAssumption DEF FilledList, LinkedAlong, BlocksFilled
<1>3. p.off = o /\ p.off - l.elem_padded_size = o - 1
  BY <1>0 DEF FilledList, Ptr
<1>4. o # 0 => PrevElem(l, p) = [ptr |-> Ptr(s[j], o - 1), cursor |-> s[j]]
  <2> SUFFICES ASSUME o # 0
               PROVE  PrevElem(l, p) = [ptr |-> Ptr(s[j], o - 1), cursor |-> s[j]]
    OBVIOUS
  <2>1. PrevElem(l, p) = [ptr |-> Ptr(s[j], p.off - l.elem_padded_size), cursor |-> s[j]]
    BY <1>1, <1>2, <1>3 DEF PrevElem
  <2> QED  BY <1>3, <2>1
<1>5. o = 0 => PrevElem(l, p) = IntoPrevBlock(l, s[j])
  BY <1>1, <1>2, <1>3 DEF PrevElem
<1> QED  BY <1>4, <1>5

(* Neighbours in the order find each other, across blocks too.              *)
Neighbours(l, p, q) ==
  /\ NextElem(l, p).ptr = q /\ NextElem(l, p).cursor \in Blocks
  /\ PrevElem(l, q).ptr = p /\ PrevElem(l, q).cursor \in Blocks

LEMMA NeighboursInBlock ==
  ASSUME NEW l, NEW s, NEW n, NEW k, FilledList(l, s, n, k), NEW j \in 1 .. n,
         NEW o \in 0 .. ElemQtt - 1, Used(k, j, o), o # ElemQtt - 1
  PROVE  Neighbours(l, Ptr(s[j], o), Ptr(s[j], o + 1))
<1>1. s[j] \in Blocks
  BY DEF FilledList, LinkedAlong, BlocksFilled
<1>2. o + 1 \in 0 .. ElemQtt - 1 /\ o + 1 # 0 /\ (o + 1) - 1 = o
  BY ElemQttAssumption
<1>3. Used(k, j, o + 1)
  BY DEF Used, FilledList, BlocksFilled
<1>4. NextElem(l, Ptr(s[j], o)) = [ptr |-> Ptr(s[j], o + 1), cursor |-> s[j]]
  <2>1. IsAt(Ptr(s[j], o), l, s, n, k, j, o)
    BY DEF IsAt
  <2> QED  BY <2>1, NextAlong
<1>5. PrevElem(l, Ptr(s[j], o + 1)) = [ptr |-> Ptr(s[j], (o + 1) - 1), cursor |-> s[j]]
  <2>1. IsAt(Ptr(s[j], o + 1), l, s, n, k, j, o + 1)
    BY <1>2, <1>3 DEF IsAt
  <2> QED  BY <1>2, <2>1, PrevAlong
<1> QED  BY <1>1, <1>2, <1>4, <1>5 DEF Neighbours

LEMMA NeighboursAcross ==
  ASSUME NEW l, NEW s, NEW n, NEW k, FilledList(l, s, n, k), NEW j \in 1 .. n - 1,
         Used(k, j, ElemQtt - 1)
  PROVE  Neighbours(l, Ptr(s[j], ElemQtt - 1), Ptr(s[j + 1], 0))
<1> DEFINE a == l.arena
           o == ElemQtt - 1
<1>1. /\ j \in 1 .. n /\ j + 1 \in 1 .. n /\ j + 1 # 1 /\ (j + 1) - 1 = j
      /\ 0 \in 0 .. o /\ o \in 0 .. o
  BY ElemQttAssumption DEF FilledList
<1>2. /\ s[j] \in Blocks /\ s[j + 1] \in Blocks /\ s[j] # Null /\ s[j + 1] # Null
      /\ a.block[s[j]].next = s[j + 1] /\ a.block[s[j + 1]].prev = s[j]
      /\ a.block[s[j]].right_offset = ElemQtt /\ l.elem_padded_size = 1
  BY <1>1, BlocksAssumption DEF FilledList, LinkedAlong, BlocksFilled
<1>3. Used(k, j + 1, 0)
  BY <1>1 DEF Used
<1>4. NextElem(l, Ptr(s[j], o)) = IntoNextBlock(l, s[j])
  <2>1. IsAt(Ptr(s[j], o), l, s, n, k, j, o)
    BY <1>1 DEF IsAt
  <2> QED  BY <2>1, NextAlong
<1>5. PrevElem(l, Ptr(s[j + 1], 0)) = IntoPrevBlock(l, s[j + 1])
  <2>1. IsAt(Ptr(s[j + 1], 0), l, s, n, k, j + 1, 0)
    BY <1>1, <1>3 DEF IsAt
  <2> QED  BY <2>1, PrevAlong
<1>6. IntoNextBlock(l, s[j]) = [ptr |-> Ptr(s[j + 1], 0), cursor |-> s[j + 1]]
  BY <1>2 DEF IntoNextBlock
<1>7. IntoPrevBlock(l, s[j + 1]) = [ptr |-> Ptr(s[j], o), cursor |-> s[j]]
  BY <1>2 DEF IntoPrevBlock, PrevBlockLast, LastOff
<1> QED  BY <1>2, <1>4, <1>5, <1>6, <1>7 DEF Neighbours

LEMMA NeighboursInOrder ==
  ASSUME NEW l, NEW s, NEW n, NEW k, FilledList(l, s, n, k),
         NEW u, Placed(u, s, n, k), NEW m \in 1 .. Len(u) - 1
  PROVE  Neighbours(l, u[m], u[m + 1])
<1>1. /\ ElemQtt \in Nat \ {0} /\ n \in Nat \ {0} /\ k \in 0 .. ElemQtt
      /\ Len(u) = n * ElemQtt - k /\ n * ElemQtt \in Nat
  BY ElemQttAssumption DEF FilledList, BlocksFilled, Placed
<1>2. m \in 1 .. n * ElemQtt - k
  BY <1>1
<1>3. PICK j \in 1 .. n, o \in 0 .. ElemQtt - 1 : Used(k, j, o) /\ m = Place(k, j, o)
  BY <1>1, <1>2, PlacesCover
<1>4. u[m] = Ptr(s[j], o)
  BY <1>3 DEF Placed
<1>5. CASE o # ElemQtt - 1
  <2>1. o + 1 \in 0 .. ElemQtt - 1 /\ Used(k, j, o + 1)
    BY <1>1, <1>3, <1>5 DEF Used
  <2>2. (j - 1) * ElemQtt \in Nat
    BY <1>1, <1>3
  <2>3. Place(k, j, o + 1) = m + 1
    BY <1>1, <1>3, <2>2 DEF Place
  <2>4. u[m + 1] = Ptr(s[j], o + 1)
    BY <2>1, <2>3 DEF Placed
  <2> QED  BY <1>3, <1>4, <1>5, <2>4, NeighboursInBlock
<1>6. CASE o = ElemQtt - 1
  <2>1. /\ (j - 1) * ElemQtt + ElemQtt = j * ElemQtt /\ j * ElemQtt \in Nat
        /\ (j - 1) * ElemQtt \in Nat
    BY <1>1, <1>3
  <2>2. m = j * ElemQtt - k
    BY <1>1, <1>3, <1>6, <2>1 DEF Place
  <2>3. j # n
    BY <1>1, <2>2
  <2>4. j \in 1 .. n - 1 /\ j + 1 \in 1 .. n /\ (j + 1) - 1 = j /\ j + 1 # 1
    BY <1>1, <1>3, <2>3
  <2>5. Used(k, j + 1, 0) /\ 0 \in 0 .. ElemQtt - 1
    BY <1>1, <2>4 DEF Used
  <2>6. Place(k, j + 1, 0) = m + 1
    BY <1>1, <2>1, <2>2, <2>4 DEF Place
  <2>7. u[m + 1] = Ptr(s[j + 1], 0)
    BY <2>4, <2>5, <2>6 DEF Placed
  <2> QED  BY <1>3, <1>4, <1>6, <2>4, <2>7, NeighboursAcross
<1> QED  BY <1>5, <1>6

(* The two ends of the order. *)
LEMMA EndsAlong ==
  ASSUME NEW l, NEW s, NEW n, NEW k, FilledList(l, s, n, k),
         NEW u, Placed(u, s, n, k), l.elem_count = Len(u), k < ElemQtt
  PROVE  /\ 1 \in 1 .. Len(u) /\ Len(u) \in 1 .. Len(u)
         /\ FirstElem(l) = [ptr |-> u[1], cursor |-> s[1]]
         /\ LastElem(l) = [ptr |-> u[Len(u)], cursor |-> s[n]]
         /\ l.arena.block[s[n]].next = Null => NextElem(l, u[Len(u)]).ptr = Null
<1> DEFINE a == l.arena
           o == ElemQtt - 1
<1>1. /\ ElemQtt \in Nat \ {0} /\ n \in Nat \ {0} /\ k \in 0 .. ElemQtt
      /\ 1 \in 1 .. n /\ n \in 1 .. n /\ k \in 0 .. o /\ o \in 0 .. o
      /\ Len(u) = n * ElemQtt - k
  BY ElemQttAssumption DEF FilledList, BlocksFilled, Placed
<1>2. Used(k, 1, k) /\ Used(k, n, o)
  BY <1>1 DEF Used
<1>3. Place(k, 1, k) = 1 /\ Place(k, n, o) = n * ElemQtt - k
  <2>1. (n - 1) * ElemQtt + ElemQtt = n * ElemQtt /\ n * ElemQtt \in Nat /\ 0 * ElemQtt = 0
        /\ (n - 1) * ElemQtt \in Nat
    BY <1>1
  <2>2. Place(k, 1, k) = 1
    BY <1>1, <2>1 DEF Place
  <2>3. Place(k, n, o) = n * ElemQtt - k
    BY <1>1, <2>1 DEF Place
  <2> QED  BY <2>2, <2>3
<1>4. u[1] = Ptr(s[1], k) /\ u[Len(u)] = Ptr(s[n], o)
  BY <1>1, <1>2, <1>3 DEF Placed
<1>5. 1 \in 1 .. Len(u) /\ Len(u) \in 1 .. Len(u)
  <2>1. Place(k, 1, k) \in 1 .. n * ElemQtt - k
    BY <1>1, <1>2, PlaceInRange
  <2>2. n * ElemQtt - k \in Int
    BY <1>1
  <2> QED  BY <1>1, <1>3, <2>1, <2>2
<1>6. /\ a.head_block = s[1] /\ a.tail_block = s[n] /\ l.elem_padded_size = 1
      /\ a.block[s[1]].left_offset = k /\ a.block[s[n]].right_offset = ElemQtt
      /\ l.elem_count # 0
  BY <1>1, <1>5 DEF FilledList, LinkedAlong, BlocksFilled
<1>7. FirstElem(l) = [ptr |-> u[1], cursor |-> s[1]]
  BY <1>4, <1>6 DEF FirstElem, HeadFirstOff
<1>8. LastElem(l) = [ptr |-> u[Len(u)], cursor |-> s[n]]
  BY <1>4, <1>6 DEF LastElem, LastOff
<1>9. a.block[s[n]].next = Null => NextElem(l, u[Len(u)]).ptr = Null
  <2>1. IsAt(Ptr(s[n], o), l, s, n, k, n, o)
    BY <1>1, <1>2 DEF IsAt
  <2>2. NextElem(l, Ptr(s[n], o)) = IntoNextBlock(l, s[n])
    BY <2>1, NextAlong
  <2> QED  BY <1>4, <2>2 DEF IntoNextBlock
<1> QED  BY <1>5, <1>7, <1>8, <1>9
-----------------------------------------------------------------------------
(* The stack's operations.                                                  *)
LEMMA InitStk ==
  ASSUME NEW n \in Blocks
  PROVE  LET s == InitStack(n, 1, 1, ElemQtt)
         IN  StackShape(s) /\ s.elem_count = 0
<1> DEFINE a == InitArena(n, ElemQtt, "right")
<1>1. Stk!Shape(a, 0)
  BY StkAssumptions, Stk!InitShape, StkBlockSize, SameInit
<1>2. InitStack(n, 1, 1, ElemQtt) = [arena |-> a, elem_count |-> 0, elem_size |-> 1,
                                     elem_padded_size |-> 1]
  <2>1. PaddedSize(1, 1) = 1 /\ ElemQtt * 1 = ElemQtt
    BY ElemQttAssumption DEF PaddedSize
  <2> QED  BY <2>1 DEF InitStack
<1>3. a \in Arenas
  BY <1>1, SameArenaOK DEF Stk!Shape, ArenaOK
<1> HIDE DEF a
<1> QED  BY <1>1, <1>2, <1>3 DEF StackShape, Stacks

LEMMA StkElems ==
  ASSUME NEW s, StackShape(s)
  PROVE  Elems(s) \in Seq(ElemPtr) /\ Len(Elems(s)) = s.elem_count
<1>1. PICK k : /\ BlocksFilled(s.arena, Chain(s.arena), k)
               /\ s.elem_count = s.arena.block_count * ElemQtt - k
  BY StackBlocks
<1>2. Placed(ElemsInOrder(s.arena, 1), Chain(s.arena), s.arena.block_count, k)
  BY <1>1, ElemsPlaced
<1> QED  BY <1>1, <1>2 DEF Placed, Elems

LEMMA PushStk ==
  ASSUME NEW s, StackShape(s), NEW t \in AllocStackElem(s)
  PROVE  /\ StackShape(t) /\ t.elem_count = s.elem_count + 1
         /\ Elems(t) = <<HeadPtr(t.arena)>> \o Elems(s)
         /\ HeadPtr(t.arena) \notin Range(Elems(s))
         /\ HeadPtr(t.arena) \in ElemPtr
         /\ HeadPtr(t.arena).off \in 0 .. ElemQtt - 1
<1>1. /\ s \in Stacks /\ s.elem_size = 1 /\ s.elem_padded_size = 1
      /\ Stk!Shape(s.arena, s.elem_count) /\ s.elem_count \in Nat
  BY DEF StackShape, Stacks
<1>2. PICK a \in Stk!AllocAtHead(s.arena, 1) :
        t = [s EXCEPT !.arena = a, !.elem_count = @ + 1]
  <2>1. PICK a \in AllocAtHead(s.arena, s.elem_size) :
          t = [s EXCEPT !.arena = a, !.elem_count = @ + 1]
    BY DEF AllocStackElem
  <2>2. AllocAtHead(s.arena, s.elem_size) = Stk!AllocAtHead(s.arena, 1)
    BY <1>1, SameAlloc
  <2> QED  BY <2>1, <2>2
<1>3. /\ t.arena = a /\ t.elem_count = s.elem_count + 1 /\ t.elem_size = 1
      /\ t.elem_padded_size = 1
  BY <1>1, <1>2 DEF Stacks
<1>4. Stk!Shape(a, s.elem_count + 1)
  BY <1>1, StkAssumptions, Stk!PushShape
<1>5. a \in Arenas
  BY <1>4, SameArenaOK DEF Stk!Shape, ArenaOK
<1>6. t \in Stacks
  <2>1. s.elem_count + 1 \in Nat
    BY <1>1
  <2>2. \A n \in Nat : [s EXCEPT !.arena = a, !.elem_count = n] \in Stacks
    BY <1>1, <1>5 DEF Stacks
  <2> QED  BY <1>2, <2>1, <2>2
<1>7. /\ Stk!ElemsInOrder(a, 1) = <<Stk!HeadPtr(a)>> \o Stk!ElemsInOrder(s.arena, 1)
      /\ Stk!HeadPtr(a) \in Stk!ElemPtr
      /\ Stk!HeadPtr(a).off \in 0 .. Stk!BlockSize - 1
      /\ Stk!HeadPtr(a) \notin Stk!Range(Stk!ElemsInOrder(s.arena, 1))
  BY <1>1, StkAssumptions, Stk!PushElems
<1>8. Stk!HeadPtr(a) = HeadPtr(a) /\ \A x : Stk!Range(x) = Range(x)
  BY DEF HeadPtr, Stk!HeadPtr, Range, Stk!Range
<1>9. Stk!ElemPtr = ElemPtr
  BY DEF ElemPtr, Stk!ElemPtr
<1> QED  BY <1>3, <1>4, <1>6, <1>7, <1>8, <1>9, SameElems, StkBlockSize DEF StackShape, Elems

LEMMA PopStk ==
  ASSUME NEW s, StackShape(s), s.elem_count # 0
  PROVE  LET t == PopFromStack(s)
         IN  /\ StackShape(t) /\ t.elem_count = s.elem_count - 1
             /\ Elems(s) = <<PoppedPtr(s)>> \o Elems(t) /\ PoppedPtr(s) \in ElemPtr
<1> DEFINE t == PopFromStack(s)
<1>1. /\ s \in Stk!Stacks /\ s.elem_size = 1 /\ s.elem_padded_size = 1
      /\ Stk!Shape(s.arena, s.elem_count) /\ s.elem_count \in Nat
  BY SameArenas DEF StackShape, Stacks
<1>2. ~Stk!IsStackEmpty(s) /\ ~IsStackEmpty(s)
  BY DEF Stk!IsStackEmpty, IsStackEmpty
<1>3. t = Stk!PopFromStack(s) /\ PoppedPtr(s) = Stk!PoppedPtr(s)
  BY SamePop
<1>4. t.elem_count = s.elem_count - 1
  <2>1. \A x : [s EXCEPT !.arena = x, !.elem_count = CountAfterPop(s)].elem_count = CountAfterPop(s)
    BY <1>1 DEF Stk!Stacks
  <2> QED  BY <1>2, <2>1 DEF PopFromStack, CountAfterPop
<1> HIDE DEF t
<1>5. /\ t \in Stk!Stacks /\ t.elem_size = 1 /\ t.elem_padded_size = 1
      /\ Stk!Shape(t.arena, t.elem_count)
  BY <1>1, <1>2, <1>3, StkAssumptions, Stk!PopShape
<1>6. /\ Stk!ElemsInOrder(s.arena, 1) = <<PoppedPtr(s)>> \o Stk!ElemsInOrder(t.arena, 1)
      /\ PoppedPtr(s) \in Stk!ElemPtr
  BY <1>1, <1>2, <1>3, StkAssumptions, Stk!PopElems
<1>7. Stk!ElemPtr = ElemPtr
  BY DEF ElemPtr, Stk!ElemPtr
<1> QED  BY <1>4, <1>5, <1>6, <1>7, SameArenas, SameElems DEF StackShape, Elems, t

LEMMA PushUsesHead ==
  ASSUME NEW s, StackShape(s), NEW t \in AllocStackElem(s)
  PROVE  HeadUsed(t)
<1> DEFINE a == t.arena
           p == HeadPtr(a)
<1>1. StackShape(t) /\ Elems(t) = <<p>> \o Elems(s) /\ p \in ElemPtr
  BY PushStk
<1>2. ArenaOK(a) /\ Elems(s) \in Seq(ElemPtr)
  BY <1>1, StkElems, SameArenaOK DEF StackShape, Stk!Shape
<1>3. p \in Range(ElemsInOrder(a, 1))
  <2>1. Len(Elems(t)) = 1 + Len(Elems(s)) /\ Elems(t)[1] = p /\ Elems(t) \in Seq(ElemPtr)
    BY <1>1, <1>2
  <2>2. 1 \in DOMAIN Elems(t)
    BY <1>2, <2>1, LenProperties
  <2> QED  BY <2>1, <2>2 DEF Range, Elems
<1> HIDE DEF a
<1>4. /\ p.block \in a.live /\ a.block[p.block].left_offset <= p.off
      /\ p.off + 1 <= a.block[p.block].right_offset
  BY <1>2, <1>3, ElemPlaces
<1>5. p.block = a.head_block /\ p.off = a.block[a.head_block].left_offset
  BY DEF HeadPtr
<1>6. p.off \in Nat /\ a.block[a.head_block].right_offset \in Nat
  BY <1>1, <1>2, <1>4, <1>5 DEF ElemPtr, ArenaOK, Arenas, MemBlocks
<1>7. ~IsBlockEmpty(a.block[a.head_block])
  BY <1>4, <1>5, <1>6 DEF IsBlockEmpty
<1> QED  BY <1>7 DEF HeadUsed, a

(* What memory holds after a write. *)
LEMMA ReadWritten ==
  ASSUME NEW data \in Datas, NEW p \in ElemPtr, p.off \in 0 .. ElemQtt - 1,
         NEW val \in Nat
  PROVE  /\ Write(data, p, val) \in Datas
         /\ Read(Write(data, p, val), p) = val
         /\ \A q \in ElemPtr : q # p => Read(Write(data, p, val), q) = Read(data, q)
<1> DEFINE new == [data[p.block] EXCEPT ![p.off] = val]
           m == [data EXCEPT ![p.block] = new]
<1>1. p.block \in Blocks /\ data[p.block] \in [0 .. ElemQtt - 1 -> Nat \cup {Junk}]
  BY DEF ElemPtr, Datas
<1>2. Write(data, p, val) = m
  BY DEF Write
<1>3. /\ new \in [0 .. ElemQtt - 1 -> Nat \cup {Junk}] /\ new[p.off] = val
      /\ \A o \in 0 .. ElemQtt - 1 : o # p.off => new[o] = data[p.block][o]
  BY <1>1
<1> HIDE DEF new
<1>4. /\ m \in Datas /\ m[p.block] = new
      /\ \A b \in Blocks : b # p.block => m[b] = data[b]
  BY <1>1, <1>3 DEF Datas
<1> HIDE DEF m
<1>5. Read(m, p) = val
  BY <1>3, <1>4 DEF Read
<1>6. ASSUME NEW q \in ElemPtr, q # p
      PROVE  Read(m, q) = Read(data, q)
  <2>1. q.block \in Blocks /\ (q.block = p.block => q.off # p.off)
    BY <1>6 DEF ElemPtr
  <2>2. CASE q.block = p.block
    <3>1. DOMAIN new = 0 .. ElemQtt - 1 /\ DOMAIN data[p.block] = 0 .. ElemQtt - 1
      BY <1>1, <1>3
    <3> QED  BY <1>3, <1>4, <2>1, <2>2, <3>1 DEF Read
  <2>3. CASE q.block # p.block
    BY <1>4, <2>1, <2>3 DEF Read
  <2> QED  BY <2>2, <2>3
<1> QED  BY <1>2, <1>4, <1>5, <1>6

LEMMA PushKeepsDepths ==
  ASSUME NEW s, StackShape(s), NEW data \in Datas, DepthsHeld(s, data),
         NEW t \in AllocStackElem(s),
         NEW data2, data2 = Write(data, HeadPtr(t.arena), t.elem_count)
  PROVE  data2 \in Datas /\ DepthsHeld(t, data2)
<1> DEFINE p == HeadPtr(t.arena)
           u == Elems(s)
           v == Elems(t)
           n == s.elem_count
<1>1. /\ t.elem_count = n + 1 /\ v = Cat(<<p>>, u)
      /\ p \notin Range(u) /\ p \in ElemPtr /\ p.off \in 0 .. ElemQtt - 1
  BY PushStk DEF Cat
<1>2. u \in Seq(ElemPtr) /\ Len(u) = n /\ n \in Nat
  BY StkElems, LenProperties
<1>3. /\ data2 \in Datas /\ Read(data2, p) = n + 1
      /\ \A q \in ElemPtr : q # p => Read(data2, q) = Read(data, q)
  BY <1>1, <1>2, ReadWritten
<1>4. Appended(v, <<p>>, u, 1, n, ElemPtr)
  <2>1. <<p>> \in Seq(ElemPtr) /\ Len(<<p>>) = 1
    BY <1>1
  <2>2. IsCat(v, <<p>>, u, 1, n, ElemPtr)
    BY <1>1, <1>2, <2>1 DEF IsCat
  <2> QED  BY <2>2, CatIs
<1>5. \A i \in 1 .. n : Read(data, u[i]) = n - i + 1
  BY DEF DepthsHeld
<1>6. \A i \in 1 .. n : u[i] \in ElemPtr /\ u[i] # p
  BY <1>1, <1>2, LenProperties DEF Range
<1> HIDE DEF u, v, p
<1>7. ASSUME NEW i \in 1 .. n + 1
      PROVE  Read(data2, v[i]) = (n + 1) - i + 1
  <2>1. CASE i = 1
    <3>1. v[1] = p
      BY <1>4 DEF Appended
    <3> QED  BY <1>2, <1>3, <2>1, <3>1
  <2>2. CASE i # 1
    <3>1. i - 1 \in 1 .. n /\ 1 + (i - 1) = i /\ n - (i - 1) + 1 = (n + 1) - i + 1
      BY <1>2, <2>2
    <3>2. v[i] = u[i - 1]
      BY <1>4, <3>1 DEF Appended
    <3> QED  BY <1>3, <1>5, <1>6, <3>1, <3>2
  <2> QED  BY <2>1, <2>2
<1> QED  BY <1>1, <1>3, <1>7 DEF DepthsHeld, v

LEMMA PopKeepsDepths ==
  ASSUME NEW s, StackShape(s), s.elem_count # 0, NEW data, DepthsHeld(s, data),
         NEW t, t = PopFromStack(s)
  PROVE  DepthsHeld(t, data)
<1> DEFINE p == PoppedPtr(s)
           u == Elems(s)
           v == Elems(t)
           n == t.elem_count
<1>1. /\ StackShape(t) /\ n = s.elem_count - 1 /\ u = Cat(<<p>>, v) /\ p \in ElemPtr
  BY PopStk DEF Cat
<1>2. v \in Seq(ElemPtr) /\ Len(v) = n /\ n \in Nat /\ s.elem_count = n + 1
  <2>1. v \in Seq(ElemPtr) /\ Len(v) = n /\ n \in Nat
    BY <1>1, StkElems, LenProperties
  <2>2. s.elem_count \in Nat
    BY DEF StackShape, Stacks
  <2> QED  BY <1>1, <2>1, <2>2
<1>3. Appended(u, <<p>>, v, 1, n, ElemPtr)
  <2>1. <<p>> \in Seq(ElemPtr) /\ Len(<<p>>) = 1
    BY <1>1
  <2>2. IsCat(u, <<p>>, v, 1, n, ElemPtr)
    BY <1>1, <1>2, <2>1 DEF IsCat
  <2> QED  BY <2>2, CatIs
<1>4. \A i \in 1 .. n + 1 : Read(data, u[i]) = (n + 1) - i + 1
  BY <1>2 DEF DepthsHeld
<1> HIDE DEF u, v, p
<1>5. ASSUME NEW i \in 1 .. n
      PROVE  Read(data, v[i]) = n - i + 1
  <2>1. 1 + i \in 1 .. n + 1 /\ (n + 1) - (1 + i) + 1 = n - i + 1
    BY <1>2
  <2>2. u[1 + i] = v[i]
    BY <1>3 DEF Appended
  <2> QED  BY <1>4, <2>1, <2>2
<1> QED  BY <1>5 DEF DepthsHeld, v
-----------------------------------------------------------------------------
(* The conversion: the list's blocks and the new ones behind them are as    *)
(* many as the stack's, and no block twice.                                 *)
ChainOf(l, chain, n) ==
  /\ chain \in [1 .. n -> Blocks] /\ Len(chain) = n /\ DOMAIN chain = 1 .. n
  /\ OneToOne(chain, n) /\ chain[1] = l.arena.head_block

LEMMA ConvertedChain ==
  ASSUME NEW s, NEW l, ListReady(l), s.arena.block_count \in Nat, Missing(s, l) >= 0,
         NEW chain \in ListChains(s, l)
  PROVE  ChainOf(l, chain, s.arena.block_count)
<1> DEFINE n == s.arena.block_count
           m == l.arena.block_count
           d == Missing(s, l)
           old == Chain(l.arena)
<1>1. /\ m \in Nat \ {0} /\ l.arena.live \subseteq Blocks /\ Chained(l.arena)
  BY DEF ListReady, ArenaOK, Arenas, Chained
<1>2. old \in [1 .. m -> l.arena.live] /\ IsChain(l.arena, old)
  BY <1>1, ChainOfChained
<1>3. d \in Nat /\ m + d = n
  BY <1>1 DEF Missing
<1>4. PICK new \in [1 .. d -> Fresh(l.arena)] :
        /\ chain = Cat(old, new)
        /\ \A i, j \in DOMAIN new : new[i] = new[j] => i = j
  BY DEF ListChains, Cat
<1>5. /\ \A i \in 1 .. m : old[i] \in l.arena.live
      /\ \A i, j \in 1 .. m : old[i] = old[j] => i = j
      /\ old[1] = l.arena.head_block
  BY <1>2 DEF IsChain
<1>6. /\ \A i \in 1 .. d : new[i] \notin l.arena.live
      /\ \A i, j \in 1 .. d : new[i] = new[j] => i = j
  BY <1>4 DEF Fresh
<1>7. Appended(chain, old, new, m, d, Blocks)
  <2> HIDE DEF old, d, m, n
  <2>1. old \in [1 .. m -> Blocks] /\ new \in [1 .. d -> Blocks] /\ m \in Nat
    BY <1>1, <1>2, <1>4 DEF Fresh
  <2>2. old \in Seq(Blocks) /\ new \in Seq(Blocks)
    BY <1>3, <2>1, SeqDef
  <2>3. Len(old) = m /\ Len(new) = d
    BY <1>3, <2>1, <2>2, LenProperties
  <2>4. IsCat(chain, old, new, m, d, Blocks)
    BY <1>4, <2>2, <2>3 DEF IsCat
  <2> QED  BY <2>4, CatIs
<1> HIDE DEF old, d, m, n
<1>8. chain \in Seq(Blocks) /\ Len(chain) = n
  BY <1>3, <1>7 DEF Appended
<1>9. chain \in [1 .. n -> Blocks] /\ DOMAIN chain = 1 .. n
  BY <1>8, LenProperties
<1>10. /\ \A i \in 1 .. m : chain[i] = old[i]
       /\ \A i \in 1 .. n : i \notin 1 .. m => i - m \in 1 .. d /\ chain[i] = new[i - m]
  <2>1. \A i \in 1 .. m : chain[i] = old[i]
    BY <1>7 DEF Appended
  <2>2. ASSUME NEW i \in 1 .. n, i \notin 1 .. m
        PROVE  i - m \in 1 .. d /\ chain[i] = new[i - m]
    <3>1. i - m \in 1 .. d /\ m + (i - m) = i
      BY <1>1, <1>3, <2>2
    <3> DEFINE j == i - m
    <3>2. chain[m + j] = new[j]
      BY <1>7, <3>1 DEF Appended
    <3> QED  BY <3>1, <3>2
  <2> QED  BY <2>1, <2>2
<1>11. ASSUME NEW i \in 1 .. n, NEW j \in 1 .. n, chain[i] = chain[j]
       PROVE  i = j
  <2>1. CASE i \in 1 .. m /\ j \in 1 .. m
    BY <1>5, <1>10, <1>11, <2>1
  <2>2. CASE i \in 1 .. m /\ j \notin 1 .. m
    BY <1>5, <1>6, <1>10, <1>11, <2>2
  <2>3. CASE i \notin 1 .. m /\ j \in 1 .. m
    BY <1>5, <1>6, <1>10, <1>11, <2>3
  <2>4. CASE i \notin 1 .. m /\ j \notin 1 .. m
    <3>1. i - m = j - m
      BY <1>6, <1>10, <1>11, <2>4
    <3> QED  BY <1>1, <3>1
  <2> QED  BY <2>1, <2>2, <2>3, <2>4
<1>12. chain[1] = l.arena.head_block
  <2>1. 1 \in 1 .. m
    BY <1>1
  <2> QED  BY <1>5, <1>10, <2>1
<1>13. ChainOf(l, chain, n)
  BY <1>8, <1>9, <1>11, <1>12 DEF ChainOf, OneToOne
<1> QED  BY <1>13 DEF n

(* The list's one block and as many others as the stack's besides its own.  *)
NewBlocks(s, m) ==
  LET C == Chain(s.arena)
  IN  [i \in 1 .. s.arena.block_count - 1 |-> IF C[i + 1] = m THEN C[1] ELSE C[i + 1]]

LEMMA BlocksToConvert ==
  ASSUME NEW s, StackShape(s), NEW l, NEW m \in Blocks,
         l.arena.block_count = 1, l.arena.live = {m}
  PROVE  Missing(s, l) >= 0 /\ ListChains(s, l) # {}
<1> DEFINE n == s.arena.block_count
           C == Chain(s.arena)
           new == NewBlocks(s, m)
<1>1. ArenaOK(s.arena) /\ n \in Nat \ {0}
  BY SameArenaOK DEF StackShape, Stk!Shape, ArenaOK, Arenas, Chained
<1>2. C \in [1 .. n -> Blocks] /\ \A i, j \in 1 .. n : C[i] = C[j] => i = j
  <2>1. C \in [1 .. n -> s.arena.live] /\ IsChain(s.arena, C) /\ s.arena.live \subseteq Blocks
    BY <1>1, ChainOfChained DEF ArenaOK, Arenas
  <2> QED  BY <2>1 DEF IsChain
<1>3. Missing(s, l) = n - 1
  BY DEF Missing
<1> HIDE DEF C
<1>4. DOMAIN new = 1 .. n - 1
      /\ \A i \in 1 .. n - 1 : new[i] = IF C[i + 1] = m THEN C[1] ELSE C[i + 1]
  BY DEF NewBlocks, C
<1> HIDE DEF n, new
<1>5. ASSUME NEW i \in 1 .. n - 1
      PROVE  1 \in 1 .. n /\ i + 1 \in 1 .. n /\ i + 1 # 1
  BY <1>1
<1>6. ASSUME NEW i \in 1 .. n - 1
      PROVE  new[i] \in Fresh(l.arena)
  <2>1. C[1] \in Blocks /\ C[i + 1] \in Blocks /\ C[1] # C[i + 1]
    BY <1>2, <1>5
  <2> QED  BY <1>4, <2>1 DEF Fresh
<1>7. ASSUME NEW i \in 1 .. n - 1, NEW j \in 1 .. n - 1, new[i] = new[j]
      PROVE  i = j
  <2>1. C[1] # C[i + 1] /\ C[1] # C[j + 1]
    BY <1>2, <1>5
  <2>2. C[i + 1] = C[j + 1]
    BY <1>4, <1>7, <2>1
  <2>3. i + 1 = j + 1
    BY <1>2, <1>5, <2>2
  <2> QED  BY <1>1, <2>3
<1>8. new \in [1 .. Missing(s, l) -> Fresh(l.arena)]
  <2>1. new = [i \in 1 .. n - 1 |-> new[i]]
    BY <1>4 DEF new, NewBlocks
  <2> QED  BY <1>3, <1>6, <2>1
<1>9. Chain(l.arena) \o new \in ListChains(s, l)
  BY <1>4, <1>7, <1>8 DEF ListChains
<1> QED  BY <1>1, <1>3, <1>9

LEMMA IndexInChain ==
  ASSUME NEW l, NEW n, NEW chain, ChainOf(l, chain, n), NEW i \in 1 .. n
  PROVE  /\ (CHOOSE j \in DOMAIN chain : chain[j] = chain[i]) = i
         /\ chain[i] \in ToSet(chain) /\ chain[i] \in Blocks
BY DEF ChainOf, OneToOne, ToSet

LEMMA ToSetOfChain ==
  ASSUME NEW l, NEW n, NEW chain, ChainOf(l, chain, n), NEW b \in ToSet(chain)
  PROVE  b \in Blocks /\ \E i \in 1 .. n : b = chain[i]
BY DEF ChainOf, ToSet

(* The blocks it leaves. *)
BlocksAfter(s, l, chain, wild) ==
  [b \in Blocks |->
     IF b \in ToSet(chain)
     THEN ConvertedBlock(s, l, chain, CHOOSE i \in DOMAIN chain : chain[i] = b, wild)
     ELSE l.arena.block[b]]

LEMMA BlocksAfterType ==
  ASSUME NEW s, NEW l, ListReady(l), ArenaOK(s.arena),
         NEW chain, ChainOf(l, chain, s.arena.block_count),
         NEW wild \in Blocks \cup {Null}
  PROVE  /\ BlocksAfter(s, l, chain, wild) \in [Blocks -> MemBlocks]
         /\ \A i \in 1 .. s.arena.block_count :
              BlocksAfter(s, l, chain, wild)[chain[i]] = ConvertedBlock(s, l, chain, i, wild)
<1> DEFINE n == s.arena.block_count
           B == BlocksAfter(s, l, chain, wild)
<1>1. /\ s.arena \in Arenas /\ Chained(s.arena) /\ n \in Nat /\ s.arena.live \subseteq Blocks
  BY DEF ArenaOK, Arenas
<1>2. Chain(s.arena) \in [1 .. n -> s.arena.live]
  BY <1>1, ChainOfChained
<1>3. l.arena \in Arenas
  BY DEF ListReady, ArenaOK
<1>4. chain \in [1 .. n -> Blocks] /\ Len(chain) = n
  BY DEF ChainOf
<1>5. ASSUME NEW i \in 1 .. n
      PROVE  ConvertedBlock(s, l, chain, i, wild) \in MemBlocks
  <2> DEFINE from == s.arena.block[Chain(s.arena)[i]]
  <2>1. from.left_offset \in Nat /\ from.right_offset \in Nat
    BY <1>1, <1>2 DEF Arenas, MemBlocks
  <2>2. l.arena.block_size \in Nat /\ UninitSize \in Nat
    BY <1>3, UninitAssumption DEF Arenas
  <2>3. /\ Linked(l, chain, i, wild).prev \in Blocks \cup {Null}
        /\ Linked(l, chain, i, wild).next \in Blocks \cup {Null}
    <3>1. i # 1 => i - 1 \in 1 .. n
      BY <1>1
    <3>2. i < n => i + 1 \in 1 .. n
      BY <1>1
    <3> QED  BY <1>4, <3>1, <3>2 DEF Linked
  <2> HIDE DEF from
  <2>4. ConvertedBlock(s, l, chain, i, wild) =
          [left_offset |-> from.left_offset, right_offset |-> from.right_offset,
           size |-> IF chain[i] \in l.arena.live THEN l.arena.block_size ELSE UninitSize,
           prev |-> Linked(l, chain, i, wild).prev,
           next |-> Linked(l, chain, i, wild).next]
    BY DEF ConvertedBlock, from
  <2> QED  BY <2>1, <2>2, <2>3, <2>4 DEF MemBlocks
<1>6. \A i \in 1 .. n : /\ (CHOOSE j \in DOMAIN chain : chain[j] = chain[i]) = i
                        /\ chain[i] \in ToSet(chain) /\ chain[i] \in Blocks
  BY IndexInChain
<1>7. \A i \in 1 .. n : B[chain[i]] = ConvertedBlock(s, l, chain, i, wild)
  <2> TAKE i \in 1 .. n
  <2>1. B[chain[i]] = ConvertedBlock(s, l, chain, CHOOSE j \in DOMAIN chain : chain[j] = chain[i],
                                     wild)
    BY <1>6 DEF BlocksAfter
  <2> QED  BY <1>6, <2>1
<1>8. ASSUME NEW b \in Blocks
      PROVE  B[b] \in MemBlocks
  <2>1. CASE b \in ToSet(chain)
    <3>1. PICK i \in 1 .. n : b = chain[i]
      BY <2>1, ToSetOfChain
    <3> QED  BY <1>5, <1>7, <3>1
  <2>2. CASE b \notin ToSet(chain)
    <3>1. B[b] = l.arena.block[b]
      BY <2>2 DEF BlocksAfter
    <3> QED  BY <1>3, <3>1 DEF Arenas
  <2> QED  BY <2>1, <2>2
<1>9. B = [b \in Blocks |-> B[b]]
  BY DEF BlocksAfter
<1> HIDE DEF B
<1>10. B \in [Blocks -> MemBlocks]
  BY <1>8, <1>9
<1> QED  BY <1>7, <1>10 DEF B

LEMMA ConvertedBlockIs ==
  ASSUME NEW s, NEW l, NEW chain, NEW i, NEW wild,
         NEW blk, blk = ConvertedBlock(s, l, chain, i, wild)
  PROVE  /\ blk.left_offset = s.arena.block[Chain(s.arena)[i]].left_offset
         /\ blk.right_offset = s.arena.block[Chain(s.arena)[i]].right_offset
         /\ blk.prev = IF i = 1 THEN Null ELSE chain[i - 1]
         /\ blk.next = IF i < Len(chain) THEN chain[i + 1] ELSE wild
<1>1. /\ blk.prev = Linked(l, chain, i, wild).prev
      /\ blk.next = Linked(l, chain, i, wild).next
  BY DEF ConvertedBlock
<1>2. /\ Linked(l, chain, i, wild).prev = IF i = 1 THEN Null ELSE chain[i - 1]
      /\ Linked(l, chain, i, wild).next = IF i < Len(chain) THEN chain[i + 1] ELSE wild
  BY DEF Linked
<1>3. /\ blk.left_offset = s.arena.block[Chain(s.arena)[i]].left_offset
      /\ blk.right_offset = s.arena.block[Chain(s.arena)[i]].right_offset
  BY DEF ConvertedBlock
<1> QED  BY <1>1, <1>2, <1>3

(* The list it leaves, linked along the chain. *)
LEMMA ConvertedListIs ==
  ASSUME NEW s, NEW l, ListReady(l), ArenaOK(s.arena), s.elem_count \in Nat,
         NEW chain, ChainOf(l, chain, s.arena.block_count),
         NEW wild \in Blocks \cup {Null}, NEW h, h = ListOfStack(s, l, chain, wild)
  PROVE  /\ h \in Lists /\ h.elem_padded_size = 1 /\ h.elem_count = s.elem_count
         /\ LinkedAlong(h.arena, chain, s.arena.block_count)
         /\ h.arena.block = BlocksAfter(s, l, chain, wild)
         /\ h.arena.block[h.arena.tail_block].next = wild
<1> DEFINE n == s.arena.block_count
           B == BlocksAfter(s, l, chain, wild)
           live == ToSet(chain)
           tail == chain[n]
<1>1. n \in Nat \ {0}
  BY DEF ArenaOK, Arenas, Chained
<1>2. /\ B \in [Blocks -> MemBlocks]
      /\ \A i \in 1 .. n : B[chain[i]] = ConvertedBlock(s, l, chain, i, wild)
  BY BlocksAfterType
<1>3. live \in SUBSET Blocks
  BY ToSetOfChain
<1>4. chain \in [1 .. n -> Blocks] /\ Len(chain) = n /\ chain[1] = l.arena.head_block
  BY DEF ChainOf
<1>5. tail \in Blocks
  BY <1>1, <1>4
<1>6. l \in Lists /\ l.elem_padded_size = 1
  BY DEF ListReady
<1>7. h = [l EXCEPT !.arena = [l.arena EXCEPT !.live = live, !.block = B,
                                              !.block_count = n, !.tail_block = tail],
                    !.elem_count = s.elem_count]
  BY <1>4, <1>6 DEF ListOfStack, NewTail, BlocksAfter, Lists
<1> DEFINE g == [l.arena EXCEPT !.live = live, !.block = B,
                                !.block_count = n, !.tail_block = tail]
<1> HIDE DEF B, live, tail
<1>8. l.arena \in Arenas
  BY <1>6 DEF Lists
<1>9. /\ g \in Arenas /\ g.block = B /\ g.block_count = n /\ g.tail_block = tail
      /\ g.head_block = l.arena.head_block
  <2> HIDE DEF n
  <2> QED  BY <1>1, <1>2, <1>3, <1>5, <1>8 DEF Arenas
<1> HIDE DEF g
<1>10. h = [l EXCEPT !.arena = g, !.elem_count = s.elem_count]
  BY <1>7 DEF g
<1>11. /\ h \in Lists /\ h.arena = g /\ h.elem_count = s.elem_count
       /\ h.elem_padded_size = 1
  BY <1>6, <1>9, <1>10 DEF Lists
<1>12. \A i \in 1 .. n : /\ B[chain[i]].prev = IF i = 1 THEN Null ELSE chain[i - 1]
                         /\ B[chain[i]].next = IF i < n THEN chain[i + 1] ELSE wild
  <2> TAKE i \in 1 .. n
  <2> DEFINE blk == B[chain[i]]
  <2>1. blk = ConvertedBlock(s, l, chain, i, wild)
    BY <1>2
  <2> HIDE DEF blk
  <2>2. /\ blk.prev = IF i = 1 THEN Null ELSE chain[i - 1]
        /\ blk.next = IF i < Len(chain) THEN chain[i + 1] ELSE wild
    BY <2>1, ConvertedBlockIs
  <2> QED  BY <1>4, <2>2 DEF blk
<1>13. LinkedAlong(g, chain, n)
  <2>1. \A i \in 1 .. n - 1 : i \in 1 .. n /\ i < n
    BY <1>1
  <2> QED  BY <1>4, <1>9, <1>12, <2>1 DEF LinkedAlong, tail
<1>14. B[tail].next = wild
  BY <1>1, <1>12 DEF tail
<1> QED  BY <1>9, <1>11, <1>13, <1>14 DEF B

(* What its blocks hold. *)
AllCopied(s, fromData, data, chain, data2) ==
  \A i \in 1 .. s.arena.block_count :
    LET c == Chain(s.arena)[i]
    IN  data2[chain[i]] = Copied(s.arena.block[c], fromData[c], data[chain[i]])

LEMMA ConvertedDataIs ==
  ASSUME NEW s, ArenaOK(s.arena), NEW l, NEW fromData \in Datas, NEW data \in Datas,
         NEW chain, ChainOf(l, chain, s.arena.block_count),
         NEW data2, data2 = DataOfStack(s, fromData, data, chain)
  PROVE  data2 \in Datas /\ AllCopied(s, fromData, data, chain, data2)
<1> DEFINE n == s.arena.block_count
           C == Chain(s.arena)
           idx(b) == CHOOSE i \in DOMAIN chain : chain[i] = b
           V == [0 .. ElemQtt - 1 -> Nat \cup {Junk}]
<1>1. C \in [1 .. n -> Blocks]
  <2>1. s.arena \in Arenas /\ Chained(s.arena) /\ s.arena.live \subseteq Blocks
    BY DEF ArenaOK, Arenas
  <2> QED  BY <2>1, ChainOfChained DEF Arenas
<1>2. \A i \in 1 .. n : idx(chain[i]) = i /\ chain[i] \in ToSet(chain) /\ chain[i] \in Blocks
  BY IndexInChain
<1> HIDE DEF idx
<1>3. \A b \in Blocks :
        data2[b] = IF b \in ToSet(chain)
                   THEN Copied(s.arena.block[C[idx(b)]], fromData[C[idx(b)]], data[b])
                   ELSE data[b]
  BY DEF DataOfStack, idx
<1>4. \A i \in 1 .. n :
        data2[chain[i]] = Copied(s.arena.block[C[i]], fromData[C[i]], data[chain[i]])
  <2> TAKE i \in 1 .. n
  <2>1. /\ chain[i] \in Blocks /\ chain[i] \in ToSet(chain) /\ idx(chain[i]) = i
    BY <1>2
  <2> DEFINE b == chain[i]
  <2> HIDE DEF b
  <2>2. data2[b] = Copied(s.arena.block[C[idx(b)]], fromData[C[idx(b)]], data[b])
    BY <1>3, <2>1 DEF b
  <2> QED  BY <2>1, <2>2 DEF b
<1>5. \A i \in 1 .. n, b \in Blocks :
        Copied(s.arena.block[C[i]], fromData[C[i]], data[b]) \in V
  <2> TAKE i \in 1 .. n, b \in Blocks
  <2>1. data[b] \in V /\ fromData[C[i]] \in V
    BY <1>1 DEF Datas
  <2> HIDE DEF C
  <2> QED  BY <2>1 DEF Copied
<1>6. \A b \in Blocks : data2[b] \in V
  <2> TAKE b \in Blocks
  <2>1. CASE b \in ToSet(chain)
    <3>1. PICK i \in 1 .. n : b = chain[i]
      BY <2>1, ToSetOfChain
    <3> QED  BY <1>4, <1>5, <3>1
  <2>2. CASE b \notin ToSet(chain)
    BY <1>3, <2>2 DEF Datas
  <2> QED  BY <2>1, <2>2
<1>7. data2 = [b \in Blocks |-> data2[b]]
  BY DEF DataOfStack
<1>8. data2 \in Datas
  BY <1>6, <1>7 DEF Datas
<1> QED  BY <1>4, <1>8 DEF AllCopied

LEMMA ConvertCarriesOver ==
  ASSUME NEW s, StackShape(s), NEW l, ListReady(l),
         NEW fromData \in Datas, NEW data \in Datas,
         NEW chain, ChainOf(l, chain, s.arena.block_count),
         NEW wild \in Blocks \cup {Null},
         NEW h, h = ListOfStack(s, l, chain, wild),
         NEW data2, data2 = DataOfStack(s, fromData, data, chain)
  PROVE  CarriedOver(h, data2, s, fromData, chain)
<1> DEFINE n == s.arena.block_count
           C == Chain(s.arena)
<1>1. PICK k : BlocksFilled(s.arena, C, k)
  BY StackBlocks
<1>2. ArenaOK(s.arena) /\ s.elem_count \in Nat
  BY SameArenaOK DEF StackShape, Stk!Shape, Stacks
<1>3. LinkedAlong(h.arena, chain, n) /\ h.arena.block = BlocksAfter(s, l, chain, wild)
  BY <1>2, ConvertedListIs
<1>4. \A i \in 1 .. n : h.arena.block[chain[i]] = ConvertedBlock(s, l, chain, i, wild)
  BY <1>2, <1>3, BlocksAfterType
<1>5. /\ data2 \in Datas
      /\ \A i \in 1 .. n :
           data2[chain[i]] = Copied(s.arena.block[C[i]], fromData[C[i]], data[chain[i]])
  <2>1. data2 \in Datas /\ AllCopied(s, fromData, data, chain, data2)
    BY <1>2, ConvertedDataIs
  <2> QED  BY <2>1 DEF AllCopied
<1>6. OneToOne(chain, n) /\ chain \in [1 .. n -> Blocks]
  BY DEF ChainOf
<1>7. ASSUME NEW i \in 1 .. n
      PROVE  SameBytes(h.arena, data2, chain[i], s.arena, fromData, C[i])
  <2> DEFINE b == chain[i]
             from == s.arena.block[C[i]]
  <2>1. /\ h.arena.block[b].left_offset = from.left_offset
        /\ h.arena.block[b].right_offset = from.right_offset
    <3> DEFINE blk == h.arena.block[b]
    <3>1. blk = ConvertedBlock(s, l, chain, i, wild)
      BY <1>4
    <3> HIDE DEF blk, b
    <3>2. /\ blk.left_offset = s.arena.block[Chain(s.arena)[i]].left_offset
          /\ blk.right_offset = s.arena.block[Chain(s.arena)[i]].right_offset
      BY <3>1, ConvertedBlockIs
    <3> QED  BY <3>2 DEF blk
  <2>2. /\ from.left_offset \in 0 .. ElemQtt /\ from.right_offset = ElemQtt
        /\ ElemQtt \in Nat
    <3>1. 0 \in 0 .. ElemQtt /\ k \in 0 .. ElemQtt /\ ElemQtt \in Nat
      BY <1>1, ElemQttAssumption DEF BlocksFilled
    <3> QED  BY <1>1, <3>1 DEF BlocksFilled
  <2>3. DOMAIN data[b] = 0 .. ElemQtt - 1
    BY <1>6 DEF Datas
  <2>4. data2[b] = Copied(from, fromData[C[i]], data[b])
    BY <1>5
  <2> HIDE DEF from, b
  <2>5. \A o \in from.left_offset .. from.right_offset - 1 : data2[b][o] = fromData[C[i]][o]
    BY <2>2, <2>3, <2>4 DEF Copied
  <2> QED  BY <2>1, <2>5 DEF SameBytes, from, b
<1> QED  BY <1>3, <1>6, <1>7 DEF CarriedOver
-----------------------------------------------------------------------------
(* A list that holds what a stack held: its elements lie along the chain in *)
(* the order of the stack's, and read the same.                             *)
Carries(l, data, s, fromData, chain) ==
  /\ StackShape(s) /\ HeadUsed(s) /\ fromData \in Datas
  /\ l \in Lists /\ l.elem_padded_size = 1 /\ l.elem_count = s.elem_count
  /\ data \in Datas
  /\ chain \in [1 .. s.arena.block_count -> Blocks]
  /\ CarriedOver(l, data, s, fromData, chain)

WalkAlong(l, s, n, k) ==
  /\ FilledList(l, s, n, k) /\ Placed(Elems(l), s, n, k)
  /\ l.elem_count = Len(Elems(l))
  /\ l.elem_count # 0 => k < ElemQtt

ReadsSame(l, data, s, fromData) ==
  \A m \in 1 .. s.elem_count : Read(data, Elems(l)[m]) = Read(fromData, Elems(s)[m])

LEMMA CarriedWalk ==
  ASSUME NEW l, NEW data, NEW s, NEW fromData, NEW chain,
         Carries(l, data, s, fromData, chain)
  PROVE  /\ \E k : WalkAlong(l, chain, s.arena.block_count, k)
         /\ ReadsSame(l, data, s, fromData)
<1> DEFINE n == s.arena.block_count
           C == Chain(s.arena)
           v == Elems(s)
           u == Elems(l)
<1>1. /\ StackShape(s) /\ HeadUsed(s) /\ fromData \in Datas
      /\ l \in Lists /\ l.elem_padded_size = 1 /\ l.elem_count = s.elem_count
      /\ data \in Datas /\ chain \in [1 .. n -> Blocks]
      /\ CarriedOver(l, data, s, fromData, chain)
  BY DEF Carries
<1>2. PICK k : BlocksFilled(s.arena, C, k) /\ s.elem_count = n * ElemQtt - k
  BY <1>1, StackBlocks
<1>3. /\ n \in Nat \ {0} /\ k \in 0 .. ElemQtt /\ C \in [1 .. n -> Blocks]
      /\ \A i \in 1 .. n : /\ s.arena.block[C[i]].left_offset = IF i = 1 THEN k ELSE 0
                           /\ s.arena.block[C[i]].right_offset = ElemQtt
  BY <1>2 DEF BlocksFilled
<1>4. /\ LinkedAlong(l.arena, chain, n) /\ OneToOne(chain, n)
      /\ \A i \in 1 .. n : SameBytes(l.arena, data, chain[i], s.arena, fromData, C[i])
  BY <1>1 DEF CarriedOver
<1>5. BlocksFilled(l.arena, chain, k)
  <2>1. l.arena.block_count = n
    BY <1>4 DEF LinkedAlong
  <2>2. \A i \in 1 .. n :
          /\ l.arena.block[chain[i]].left_offset = s.arena.block[C[i]].left_offset
          /\ l.arena.block[chain[i]].right_offset = s.arena.block[C[i]].right_offset
    BY <1>4 DEF SameBytes
  <2> QED  BY <1>1, <1>3, <2>1, <2>2 DEF BlocksFilled
<1>6. FilledList(l, chain, n, k)
  BY <1>1, <1>3, <1>4, <1>5 DEF FilledList
<1>7. Placed(u, chain, n, k)
  <2>1. Chain(l.arena) = chain
    BY <1>1, <1>3, <1>4, ChainAlong
  <2>2. l.arena.block_count = n
    BY <1>4 DEF LinkedAlong
  <2>3. Placed(ElemsInOrder(l.arena, 1), chain, l.arena.block_count, k)
    BY <1>5, <2>1, ElemsPlaced
  <2> QED  BY <2>2, <2>3 DEF Elems
<1>8. Placed(v, C, n, k)
  BY <1>2, ElemsPlaced DEF Elems
<1>9. l.elem_count = Len(u)
  BY <1>1, <1>2, <1>7 DEF Placed
<1>10. l.elem_count # 0 => k < ElemQtt
  <2> SUFFICES ASSUME s.elem_count # 0 PROVE k < ElemQtt
    BY <1>1
  <2>1. ~IsBlockEmpty(s.arena.block[s.arena.head_block])
    BY <1>1 DEF HeadUsed
  <2>2. C[1] = s.arena.head_block /\ 1 \in 1 .. n
    <3>1. ArenaOK(s.arena)
      BY <1>1, SameArenaOK DEF StackShape, Stk!Shape
    <3>2. IsChain(s.arena, C)
      BY <3>1, ChainOfChained DEF ArenaOK, Arenas
    <3> QED  BY <1>3, <3>2 DEF IsChain
  <2>3. k # ElemQtt
    BY <1>3, <2>1, <2>2 DEF IsBlockEmpty
  <2> QED  BY <1>3, <2>3, ElemQttAssumption
<1>11. ASSUME NEW m \in 1 .. s.elem_count
       PROVE  Read(data, u[m]) = Read(fromData, v[m])
  <2>0. m \in 1 .. n * ElemQtt - k
    BY <1>2
  <2>1. PICK j \in 1 .. n, o \in 0 .. ElemQtt - 1 : Used(k, j, o) /\ m = Place(k, j, o)
    <3> HIDE DEF n
    <3> QED  BY <1>3, <2>0, PlacesCover
  <2>2. u[m] = Ptr(chain[j], o) /\ v[m] = Ptr(C[j], o)
    BY <1>7, <1>8, <2>1 DEF Placed
  <2>3. data[chain[j]][o] = fromData[C[j]][o]
    <3>1. o \in s.arena.block[C[j]].left_offset .. s.arena.block[C[j]].right_offset - 1
      BY <1>3, <2>1, ElemQttAssumption DEF Used
    <3> QED  BY <1>4, <3>1 DEF SameBytes
  <2>4. DOMAIN data[chain[j]] = 0 .. ElemQtt - 1 /\ DOMAIN fromData[C[j]] = 0 .. ElemQtt - 1
    BY <1>1, <1>3 DEF Datas
  <2> HIDE DEF u, v, C
  <2> QED  BY <2>2, <2>3, <2>4 DEF Read, Ptr
<1>12. WalkAlong(l, chain, n, k)
  BY <1>6, <1>7, <1>9, <1>10 DEF WalkAlong
<1> QED  BY <1>11, <1>12 DEF ReadsSame

(* What the invariant says of a list that holds the stack's elements.       *)
WalkOf(s, n, k) ==
  /\ FilledList(list, s, n, k) /\ Placed(ListPtrs, s, n, k)
  /\ list.elem_count = Len(ListPtrs) /\ stack.elem_count = Len(ListPtrs)
  /\ stack.elem_count # 0 => k < ElemQtt
  /\ phase = "converted" => list.arena.block[s[n]].next = Null

DepthsInOrder ==
  \A m \in 1 .. stack.elem_count : Read(listData, ListPtrs[m]) = stack.elem_count - m + 1

LEMMA ListWalk ==
  ASSUME AdaptersIInv, Converted
  PROVE  DepthsInOrder /\ \E s, n, k : WalkOf(s, n, k)
<1> DEFINE n == stack.arena.block_count
<1>1. /\ StackShape(stack) /\ stackData \in Datas /\ DepthsHeld(stack, stackData)
      /\ list \in Lists /\ listData \in Datas /\ ListOfTheStack
  BY DEF AdaptersIInv
<1>2. PICK s \in [1 .. n -> Blocks] : CarriedOver(list, listData, stack, stackData, s)
  BY <1>1 DEF ListOfTheStack
<1>3. Carries(list, listData, stack, stackData, s)
  BY <1>1, <1>2 DEF Carries, ListOfTheStack
<1>4. PICK k : WalkAlong(list, s, n, k)
  BY <1>3, CarriedWalk
<1>5. DepthsInOrder
  <2>1. ReadsSame(list, listData, stack, stackData)
    BY <1>3, CarriedWalk
  <2> QED  BY <1>1, <2>1 DEF ReadsSame, DepthsHeld, DepthsInOrder, Elems, ListPtrs
<1>6. list.arena.tail_block = s[n]
  BY <1>2 DEF CarriedOver, LinkedAlong
<1>7. WalkOf(s, n, k)
  BY <1>1, <1>4, <1>6 DEF WalkAlong, WalkOf, Elems, ListPtrs, ListOfTheStack
<1> QED  BY <1>5, <1>7

(* A conversion of any stack into any list, as those who convert need it:   *)
(* the list reads as the stack did, and is walked from its first element.   *)
HoldsSame(l, data, s, fromData) ==
  /\ l \in Lists /\ data \in Datas
  /\ Elems(l) \in Seq(ElemPtr) /\ Len(Elems(l)) = s.elem_count
  /\ ReadsSame(l, data, s, fromData)
  /\ s.elem_count # 0 => FirstElem(l).ptr = Elems(l)[1]
  /\ \A m \in 1 .. Len(Elems(l)) - 1 : NextElem(l, Elems(l)[m]).ptr = Elems(l)[m + 1]

LEMMA ConvertHoldsSame ==
  ASSUME NEW s, StackShape(s), HeadUsed(s), NEW l, ListReady(l), Missing(s, l) >= 0,
         NEW fromData \in Datas, NEW data \in Datas,
         NEW chain \in ListChains(s, l), NEW wild \in Blocks \cup {Null},
         NEW h, h = ListOfStack(s, l, chain, wild),
         NEW data2, data2 = DataOfStack(s, fromData, data, chain)
  PROVE  HoldsSame(h, data2, s, fromData)
<1> DEFINE n == s.arena.block_count
           u == Elems(h)
<1>1. ArenaOK(s.arena) /\ s.elem_count \in Nat /\ n \in Nat
  BY SameArenaOK DEF StackShape, Stk!Shape, Stacks, ArenaOK, Arenas
<1>2. ChainOf(l, chain, n)
  BY <1>1, ConvertedChain
<1>3. /\ h \in Lists /\ h.elem_padded_size = 1
      /\ h.elem_count = s.elem_count
  BY <1>1, <1>2, ConvertedListIs
<1>4. data2 \in Datas
  BY <1>1, <1>2, ConvertedDataIs
<1>5. CarriedOver(h, data2, s, fromData, chain)
  BY <1>2, ConvertCarriesOver
<1>6. chain \in [1 .. n -> Blocks]
  BY <1>2 DEF ChainOf
<1>7. Carries(h, data2, s, fromData, chain)
  BY <1>3, <1>4, <1>5, <1>6 DEF Carries
<1>8. PICK k : WalkAlong(h, chain, n, k)
  BY <1>7, CarriedWalk
<1>9. ReadsSame(h, data2, s, fromData)
  BY <1>7, CarriedWalk
<1> HIDE DEF n, u
<1>10. /\ FilledList(h, chain, n, k) /\ Placed(u, chain, n, k) /\ h.elem_count = Len(u)
       /\ h.elem_count # 0 => k < ElemQtt
  BY <1>8 DEF WalkAlong, u
<1>11. s.elem_count # 0 => FirstElem(h).ptr = u[1]
  BY <1>3, <1>10, EndsAlong
<1>12. \A m \in 1 .. Len(u) - 1 : NextElem(h, u[m]).ptr = u[m + 1]
  BY <1>10, NeighboursInOrder DEF Neighbours
<1>13. u \in Seq(ElemPtr) /\ Len(u) = s.elem_count
  BY <1>3, <1>10 DEF Placed
<1> QED  BY <1>3, <1>4, <1>9, <1>11, <1>12, <1>13 DEF HoldsSame, u

LEMMA CursorsInBlocks ==
  ASSUME AdaptersIInv, Converted
  PROVE  /\ FirstElem(list).cursor \in Blocks /\ LastElem(list).cursor \in Blocks
         /\ \A i \in 1 .. Len(ListPtrs) :
              /\ i < Len(ListPtrs) => NextElem(list, ListPtrs[i]).cursor \in Blocks
              /\ i > 1 => PrevElem(list, ListPtrs[i]).cursor \in Blocks
<1>1. list \in Lists
  BY DEF AdaptersIInv
<1>2. FirstElem(list).cursor \in Blocks /\ LastElem(list).cursor \in Blocks
  BY <1>1 DEF FirstElem, LastElem, Lists, Arenas
<1>3. PICK s, n, k : WalkOf(s, n, k)
  BY ListWalk
<1> DEFINE u == ListPtrs
<1>4. Len(u) \in Nat
  BY <1>3, LenProperties DEF WalkOf, Placed
<1> HIDE DEF u
<1>5. \A m \in 1 .. Len(u) - 1 : Neighbours(list, u[m], u[m + 1])
  BY <1>3, NeighboursInOrder DEF WalkOf, u
<1>6. ASSUME NEW i \in 1 .. Len(u)
      PROVE  /\ i < Len(u) => NextElem(list, u[i]).cursor \in Blocks
             /\ i > 1 => PrevElem(list, u[i]).cursor \in Blocks
  <2>1. i < Len(u) => i \in 1 .. Len(u) - 1
    BY <1>4
  <2>2. i > 1 => i - 1 \in 1 .. Len(u) - 1 /\ (i - 1) + 1 = i
    BY <1>4
  <2>3. i > 1 => Neighbours(list, u[i - 1], u[i])
    BY <1>5, <2>2
  <2> QED  BY <1>5, <2>1, <2>3 DEF Neighbours
<1> QED  BY <1>2, <1>6 DEF u
-----------------------------------------------------------------------------
(* The invariant holds at the start and every step keeps it.                *)
LEMMA ClearData == Clear(ElemQtt) \in Datas
BY DEF Clear, Datas

LEMMA InitListReady ==
  ASSUME NEW m \in Blocks
  PROVE  LET l == InitList(m, 1, 1, ElemQtt)
         IN  ListReady(l) /\ l.arena.block_count = 1 /\ l.arena.live = {m}
<1> DEFINE l == InitList(m, 1, 1, ElemQtt)
           a == InitArena(m, ElemQtt, "middle")
<1>1. l = [arena |-> a, elem_count |-> 0, elem_size |-> 1, elem_padded_size |-> 1]
  <2>1. PaddedSize(1, 1) = 1 /\ ElemQtt * 1 = ElemQtt
    BY ElemQttAssumption DEF PaddedSize
  <2> QED  BY <2>1 DEF InitList
<1>2. ArenaOK(a) /\ a.block_size = ElemQtt /\ a.block_count = 1 /\ a.live = {m}
  <2>1. ElemQtt \in Nat /\ "middle" \in Offsets
    BY ElemQttAssumption DEF Offsets
  <2>2. a.block_size = ElemQtt /\ a.block_count = 1 /\ a.live = {m}
    BY DEF InitArena
  <2> QED  BY <2>1, <2>2, InitArenaOK
<1>3. a \in Arenas
  BY <1>2 DEF ArenaOK
<1> HIDE DEF a
<1>4. l \in Lists /\ l.elem_padded_size = 1 /\ l.arena = a
  BY <1>1, <1>3 DEF Lists
<1> HIDE DEF l
<1> QED  BY <1>2, <1>4 DEF ListReady, l

LEMMA InitAdaptersIInv == Init => AdaptersIInv
<1> SUFFICES ASSUME Init PROVE AdaptersIInv
  OBVIOUS
<1>1. PICK n \in Blocks : stack = InitStack(n, 1, 1, ElemQtt)
  BY DEF Init
<1>2. StackShape(stack) /\ stack.elem_count = 0
  BY <1>1, InitStk
<1>3. DepthsHeld(stack, stackData)
  BY <1>2 DEF DepthsHeld
<1>4. PICK m \in Blocks : list = InitList(m, 1, 1, ElemQtt)
  BY DEF Init
<1>8. list \in Lists /\ ListReady(list)
  BY <1>4, InitListReady DEF ListReady
<1>9. phase = "filling" /\ stackData \in Datas /\ listData \in Datas
  BY ClearData DEF Init
<1> QED  BY <1>2, <1>3, <1>8, <1>9 DEF AdaptersIInv, Converted

LEMMA PushKeepsAdapters ==
  ASSUME AdaptersIInv, Push
  PROVE  AdaptersIInv'
<1>1. /\ StackShape(stack) /\ stackData \in Datas /\ DepthsHeld(stack, stackData)
      /\ list \in Lists /\ listData \in Datas /\ ListReady(list)
  BY DEF AdaptersIInv, Push
<1>2. /\ stack' \in AllocStackElem(stack)
      /\ stackData' = Write(stackData, HeadPtr(stack'.arena), stack'.elem_count)
      /\ list' = list /\ listData' = listData /\ phase' = "filling"
  BY DEF Push
<1>3. StackShape(stack')
  BY <1>1, <1>2, PushStk
<1>4. stackData' \in Datas /\ DepthsHeld(stack', stackData')
  BY <1>1, <1>2, PushKeepsDepths
<1>5. ListReady(list')
  BY <1>1, <1>2
<1> QED  BY <1>1, <1>2, <1>3, <1>4, <1>5 DEF AdaptersIInv, Converted

LEMMA PopKeepsAdapters ==
  ASSUME AdaptersIInv, Pop
  PROVE  AdaptersIInv'
<1>1. /\ StackShape(stack) /\ stackData \in Datas /\ DepthsHeld(stack, stackData)
      /\ list \in Lists /\ listData \in Datas /\ ListReady(list)
  BY DEF AdaptersIInv, Pop
<1>2. /\ stack' = PopFromStack(stack) /\ stackData' = stackData
      /\ list' = list /\ listData' = listData /\ phase' = "filling"
  BY DEF Pop
<1>3. StackShape(stack') /\ DepthsHeld(stack', stackData)
  <2>1. CASE stack.elem_count = 0
    BY <1>1, <1>2, <2>1 DEF PopFromStack, IsStackEmpty
  <2>2. CASE stack.elem_count # 0
    BY <1>1, <1>2, <2>2, PopStk, PopKeepsDepths
  <2> QED  BY <2>1, <2>2
<1>4. ListReady(list')
  BY <1>1, <1>2
<1> QED  BY <1>1, <1>2, <1>3, <1>4 DEF AdaptersIInv, Converted

LEMMA GrowKeepsAdapters ==
  ASSUME AdaptersIInv, GrowList
  PROVE  AdaptersIInv'
<1>1. /\ StackShape(stack) /\ stackData \in Datas /\ DepthsHeld(stack, stackData)
      /\ list \in Lists /\ listData \in Datas /\ ListReady(list)
  BY DEF AdaptersIInv, GrowList
<1>2. /\ stack' = stack /\ stackData' = stackData /\ listData' = listData
      /\ phase' = "filling"
  BY DEF GrowList
<1>3. PICK n \in Fresh(list.arena) : list' = [list EXCEPT !.arena = AllocTailBlock(list.arena, n)]
  BY <1>1 DEF GrowList, Lists
<1> DEFINE g == AllocTailBlock(list.arena, n)
<1>4. ArenaOK(g) /\ g.block_size = ElemQtt
  BY <1>1, AllocTailBlockKeeps DEF ListReady
<1> HIDE DEF g
<1>5. list' = [list EXCEPT !.arena = g]
  BY <1>3 DEF g
<1>6. list' \in Lists /\ list'.arena = g /\ list'.elem_padded_size = 1
  BY <1>1, <1>4, <1>5 DEF Lists, ListReady, ArenaOK
<1>7. ListReady(list')
  BY <1>4, <1>6 DEF ListReady
<1> QED  BY <1>1, <1>2, <1>6, <1>7 DEF AdaptersIInv, Converted

LEMMA ConvertKeepsAdapters ==
  ASSUME AdaptersIInv, Convert
  PROVE  AdaptersIInv'
<1> DEFINE n == stack.arena.block_count
<1>1. /\ StackShape(stack) /\ stackData \in Datas /\ DepthsHeld(stack, stackData)
      /\ list \in Lists /\ listData \in Datas /\ ListReady(list)
  BY DEF AdaptersIInv, Convert
<1>2. /\ stack' = stack /\ stackData' = stackData /\ Missing(stack, list) >= 0
      /\ phase' = IF Missing(stack, list) = 0 THEN "converted" ELSE "grown"
      /\ HeadUsed(stack)
  BY DEF Convert, HeadUsed, IsStackEmpty
<1>3. PICK chain \in ListChains(stack, list), wild \in Wilds(stack, list) :
        /\ list' = ListOfStack(stack, list, chain, wild)
        /\ listData' = DataOfStack(stack, stackData, listData, chain)
  BY DEF Convert
<1>4. ArenaOK(stack.arena) /\ stack.elem_count \in Nat /\ n \in Nat
  BY <1>1, SameArenaOK DEF StackShape, Stk!Shape, Stacks, ArenaOK, Arenas
<1>5. ChainOf(list, chain, n)
  BY <1>1, <1>2, <1>4, ConvertedChain
<1>6. wild \in Blocks \cup {Null} /\ (Missing(stack, list) = 0 => wild = Null)
  BY DEF Wilds
<1>7. /\ list' \in Lists /\ list'.elem_padded_size = 1
      /\ list'.elem_count = stack.elem_count
      /\ list'.arena.block[list'.arena.tail_block].next = wild
  BY <1>1, <1>3, <1>4, <1>5, <1>6, ConvertedListIs
<1>8. listData' \in Datas
  BY <1>1, <1>3, <1>4, <1>5, ConvertedDataIs
<1>9. CarriedOver(list', listData', stack, stackData, chain)
  BY <1>1, <1>3, <1>5, <1>6, ConvertCarriesOver
<1>10. chain \in [1 .. n -> Blocks]
  BY <1>5 DEF ChainOf
<1>11. ListOfTheStack'
  <2>1. \E c \in [1 .. n -> Blocks] : CarriedOver(list', listData', stack, stackData, c)
    BY <1>9, <1>10
  <2>2. phase' = "converted" => wild = Null
    BY <1>2, <1>6
  <2> QED  BY <1>2, <1>7, <2>1, <2>2 DEF ListOfTheStack
<1> QED  BY <1>1, <1>2, <1>7, <1>8, <1>11 DEF AdaptersIInv, Converted

LEMMA TooLongKeepsAdapters ==
  ASSUME AdaptersIInv, ConvertTooLong
  PROVE  AdaptersIInv'
BY DEF AdaptersIInv, ConvertTooLong, Converted

(* A lookup moves the cursor only. *)
LEMMA WalkKeepsAdapters ==
  ASSUME AdaptersIInv, NEW lookup, lookup.cursor \in Blocks, Walk(lookup)
  PROVE  AdaptersIInv'
<1> DEFINE c == lookup.cursor
           g == [list.arena EXCEPT !.cursor_block = c]
<1>1. /\ StackShape(stack) /\ stackData \in Datas /\ DepthsHeld(stack, stackData)
      /\ list \in Lists /\ listData \in Datas /\ ListOfTheStack
      /\ phase \in {"converted", "grown"}
  BY DEF AdaptersIInv, Walk, Converted
<1>2. /\ stack' = stack /\ stackData' = stackData /\ listData' = listData
      /\ phase' = phase
  BY DEF Walk
<1>3. list' = [list EXCEPT !.arena = g]
  BY <1>1 DEF Walk, WithCursor, Lists
<1>4. g \in Arenas
  BY <1>1 DEF Lists, Arenas
<1>5. /\ g.block = list.arena.block /\ g.block_count = list.arena.block_count
      /\ g.head_block = list.arena.head_block /\ g.tail_block = list.arena.tail_block
  BY <1>1 DEF Lists, Arenas
<1> HIDE DEF g
<1>6. /\ list' \in Lists /\ list'.arena = g /\ list'.elem_count = list.elem_count
      /\ list'.elem_padded_size = list.elem_padded_size
  BY <1>1, <1>3, <1>4 DEF Lists
<1>7. PICK chain \in [1 .. stack.arena.block_count -> Blocks] :
        CarriedOver(list, listData, stack, stackData, chain)
  BY <1>1 DEF ListOfTheStack
<1>8. CarriedOver(list', listData, stack, stackData, chain)
  <2>1. \A n : LinkedAlong(list.arena, chain, n) => LinkedAlong(list'.arena, chain, n)
    BY <1>5, <1>6 DEF LinkedAlong
  <2>2. \A i : LET b == Chain(stack.arena)[i]
               IN  SameBytes(list.arena, listData, chain[i], stack.arena, stackData, b)
                     => SameBytes(list'.arena, listData, chain[i], stack.arena, stackData, b)
    BY <1>5, <1>6 DEF SameBytes
  <2> QED  BY <1>7, <2>1, <2>2 DEF CarriedOver
<1>9. ListOfTheStack'
  BY <1>1, <1>2, <1>5, <1>6, <1>8 DEF ListOfTheStack
<1> QED  BY <1>1, <1>2, <1>6, <1>9 DEF AdaptersIInv, Converted

LEMMA NextAdaptersIInv ==
  ASSUME AdaptersIInv, [Next]_vars
  PROVE  AdaptersIInv'
<1>1. CASE Push
  BY <1>1, PushKeepsAdapters
<1>2. CASE Pop
  BY <1>2, PopKeepsAdapters
<1>3. CASE GrowList
  BY <1>3, GrowKeepsAdapters
<1>4. CASE Convert
  BY <1>4, ConvertKeepsAdapters
<1>5. CASE ConvertTooLong
  BY <1>5, TooLongKeepsAdapters
<1>6. CASE WalkFirst
  BY <1>6, CursorsInBlocks, WalkKeepsAdapters DEF WalkFirst, Walk
<1>7. CASE WalkLast
  BY <1>7, CursorsInBlocks, WalkKeepsAdapters DEF WalkLast, Walk
<1>8. ASSUME NEW i \in 1 .. Len(ListPtrs), WalkNext(i) \/ WalkPrev(i)
      PROVE  AdaptersIInv'
  <2>1. Converted
    BY <1>8 DEF WalkNext, WalkPrev, Walk
  <2>2. CASE WalkNext(i)
    <3>1. i < Len(ListPtrs) /\ Walk(NextElem(list, ListPtrs[i]))
      BY <2>2 DEF WalkNext
    <3>2. NextElem(list, ListPtrs[i]).cursor \in Blocks
      BY <2>1, <3>1, CursorsInBlocks
    <3> QED  BY <3>1, <3>2, WalkKeepsAdapters
  <2>3. CASE WalkPrev(i)
    <3>1. i > 1 /\ Walk(PrevElem(list, ListPtrs[i]))
      BY <2>3 DEF WalkPrev
    <3>2. PrevElem(list, ListPtrs[i]).cursor \in Blocks
      BY <2>1, <3>1, CursorsInBlocks
    <3> QED  BY <3>1, <3>2, WalkKeepsAdapters
  <2> QED  BY <1>8, <2>2, <2>3
<1>9. CASE UNCHANGED vars
  BY <1>9 DEF vars, AdaptersIInv, ListOfTheStack, ListReady, Converted
<1> QED  BY <1>1, <1>2, <1>3, <1>4, <1>5, <1>6, <1>7, <1>8, <1>9 DEF Next

LEMMA AdaptersInvariant == Spec => []AdaptersIInv
<1>1. AdaptersIInv /\ [Next]_vars => AdaptersIInv'
  BY NextAdaptersIInv
<1> QED  BY InitAdaptersIInv, <1>1, PTL DEF Spec
-----------------------------------------------------------------------------
(* The stack and the list keep their types through every operation and the  *)
(* conversion (adapters.c:18-85).                                           *)
THEOREM AdaptersTypeCorrect == Spec => []TypeOK
<1>1. AdaptersIInv => TypeOK
  BY DEF AdaptersIInv, TypeOK, StackShape
<1> QED  BY <1>1, AdaptersInvariant, PTL

(* Whatever was pushed and popped before, and whichever of the list's       *)
(* blocks are new, the first element of the list is the stack's top.        *)
THEOREM AdaptersTopIsFirst == Spec => []TopIsFirst
<1>1. AdaptersIInv => TopIsFirst
  <2> SUFFICES ASSUME AdaptersIInv, Converted, stack.elem_count > 0
               PROVE  Read(listData, FirstElem(list).ptr) = stack.elem_count
    BY DEF TopIsFirst
  <2>1. DepthsInOrder
    BY ListWalk
  <2>2. PICK s, n, k : WalkOf(s, n, k)
    BY ListWalk
  <2>3. stack.elem_count \in Nat
    BY DEF AdaptersIInv, StackShape, Stacks
  <2>4. FirstElem(list).ptr = ListPtrs[1] /\ 1 \in 1 .. stack.elem_count
    BY <2>2, <2>3, EndsAlong DEF WalkOf
  <2>5. Read(listData, ListPtrs[1]) = stack.elem_count - 1 + 1
    BY <2>1, <2>4 DEF DepthsInOrder
  <2> QED  BY <2>3, <2>4, <2>5
<1> QED  BY <1>1, AdaptersInvariant, PTL

(* And the last one is its bottom. *)
THEOREM AdaptersBottomIsLast == Spec => []BottomIsLast
<1>1. AdaptersIInv => BottomIsLast
  <2> SUFFICES ASSUME AdaptersIInv, Converted, stack.elem_count > 0
               PROVE  Read(listData, LastElem(list).ptr) = 1
    BY DEF BottomIsLast
  <2>1. DepthsInOrder
    BY ListWalk
  <2>2. PICK s, n, k : WalkOf(s, n, k)
    BY ListWalk
  <2>3. stack.elem_count \in Nat
    BY DEF AdaptersIInv, StackShape, Stacks
  <2> DEFINE c == stack.elem_count
  <2>4. LastElem(list).ptr = ListPtrs[c] /\ c \in 1 .. c
    BY <2>2, <2>3, EndsAlong DEF WalkOf
  <2>5. Read(listData, ListPtrs[c]) = c - c + 1
    BY <2>1, <2>4 DEF DepthsInOrder
  <2> QED  BY <2>3, <2>4, <2>5
<1> QED  BY <1>1, AdaptersInvariant, PTL

(* Stepping through the list with lf_get_next_list_elem, or back with       *)
(* lf_get_prev_list_elem, meets the stacked elements from top to bottom,    *)
(* for any number of blocks on either side and wherever the cursor is.      *)
THEOREM AdaptersWalkTopToBottom == Spec => []WalksTopToBottom
<1>1. AdaptersIInv => WalksTopToBottom
  <2> SUFFICES ASSUME AdaptersIInv, Converted
               PROVE  /\ [i \in DOMAIN ListPtrs |-> Read(listData, ListPtrs[i])] =
                           [i \in 1 .. stack.elem_count |-> stack.elem_count - i + 1]
                      /\ \A i \in 1 .. Len(ListPtrs) - 1 :
                           /\ NextElem(list, ListPtrs[i]).ptr = ListPtrs[i + 1]
                           /\ PrevElem(list, ListPtrs[i + 1]).ptr = ListPtrs[i]
    BY DEF WalksTopToBottom
  <2>1. DepthsInOrder
    BY ListWalk
  <2>2. PICK s, n, k : WalkOf(s, n, k)
    BY ListWalk
  <2>3. DOMAIN ListPtrs = 1 .. stack.elem_count
    BY <2>2, LenProperties DEF WalkOf, Placed
  <2>4. [i \in DOMAIN ListPtrs |-> Read(listData, ListPtrs[i])] =
          [i \in 1 .. stack.elem_count |-> stack.elem_count - i + 1]
    BY <2>1, <2>3 DEF DepthsInOrder
  <2>5. \A i \in 1 .. Len(ListPtrs) - 1 : Neighbours(list, ListPtrs[i], ListPtrs[i + 1])
    BY <2>2, NeighboursInOrder DEF WalkOf
  <2> QED  BY <2>4, <2>5 DEF Neighbours
<1> QED  BY <1>1, AdaptersInvariant, PTL

(* If the conversion needed no new block, the walk stops behind the bottom. *)
THEOREM AdaptersWalkEnds == Spec => []WalkEnds
<1>1. AdaptersIInv => WalkEnds
  <2> SUFFICES ASSUME AdaptersIInv, phase = "converted", stack.elem_count > 0
               PROVE  NextElem(list, LastElem(list).ptr).ptr = Null
    BY DEF WalkEnds
  <2>1. PICK s, n, k : WalkOf(s, n, k)
    BY ListWalk DEF Converted
  <2>2. stack.elem_count \in Nat
    BY DEF AdaptersIInv, StackShape, Stacks
  <2>3. LastElem(list).ptr = ListPtrs[Len(ListPtrs)]
        /\ NextElem(list, ListPtrs[Len(ListPtrs)]).ptr = Null
    BY <2>1, <2>2, EndsAlong DEF WalkOf
  <2> QED  BY <2>3
<1> QED  BY <1>1, AdaptersInvariant, PTL
=============================================================================
