--------------------------- MODULE PipelineProofs ---------------------------
(***************************************************************************)
(* Theorems about Pipeline: any number of passes, pushed before or by      *)
(* others, over blocks of any size.  The list of passes is a list, and     *)
(* what ListProofs shows of one is used for it.                            *)
(***************************************************************************)
EXTENDS Pipeline, ArenaOpsProofs, FiniteSetTheorems

(* The list of passes, one element each. *)
PassList == INSTANCE ListProofs
  WITH list <- passes, elems <- <<>>, ElemSize <- 1, ElemAlignment <- 1,
       ElemQtt <- PassQtt, Batches <- {1}

PassPtrs(l) == ElemsInOrder(l.arena, 1)

(* Memory that holds apply_fns, or was never written. *)
PassDatas == [Blocks -> [0 .. PassQtt - 1 -> ApplyFns \cup {Junk}]]

PassListOK(l) == PassList!ListHolds(l, PassPtrs(l))

(* The passes in the list are those pushed, in that order. *)
PassesHeld(l, data, fns) ==
  /\ PassListOK(l) /\ data \in PassDatas
  /\ fns \in Seq(ApplyFns) /\ Len(fns) = Len(PassPtrs(l))
  /\ \A i \in 1 .. Len(fns) : Read(data, PassPtrs(l)[i]) = fns[i]

(* The pass that is being applied comes after those that were. *)
Begins(s, t) == Len(s) <= Len(t) /\ \A i \in 1 .. Len(s) : s[i] = t[i]

Applies(how, cur, ptrs, done) ==
  /\ how \in {"fresh", "ready"} => cur = Null /\ done = <<>>
  /\ how = "processing" => Len(done) < Len(ptrs) /\ cur = ptrs[Len(done) + 1]
  /\ how = "done" => Len(done) = Len(ptrs) /\ cur = Null
  /\ how = "aborted" => cur \in ToSet(ptrs) \cup {Null}

PassesIInv ==
  /\ status \in {"fresh", "ready", "processing", "done", "aborted"}
  /\ PassesHeld(passes, passData, pushed)
  /\ applied \in Seq(ApplyFns) /\ Begins(applied, pushed)
  /\ Applies(status, cur_pass, PassPtrs(passes), applied)
-----------------------------------------------------------------------------
(* What ListProofs says of its list, said of this one. *)
LEMMA PassAssumptions ==
  /\ PassQtt \in Nat \ {0} /\ PassList!Padded = 1 /\ PassList!BatchesFitHalf
  /\ PassList!BlocksAssumption /\ PassList!NullAssumption /\ PassList!SizeModAssumption
  /\ PassList!ElemAssumption /\ PassList!BatchesAssumption
<1>1. PassQtt \in Nat /\ PassQtt >= 2
  BY QttAssumption
<1>2. PassList!Padded = 1
  BY DEF PassList!Padded, PassList!PaddedSize
<1>3. PassList!BlockBytes = PassQtt
  BY <1>1, <1>2 DEF PassList!BlockBytes
<1>4. 1 <= PassQtt - (PassQtt \div 2)
  BY <1>1
<1>5. PassList!BatchesFitHalf
  BY <1>2, <1>3, <1>4 DEF PassList!BatchesFitHalf
<1>6. PassList!ElemAssumption /\ PassList!BatchesAssumption
  BY <1>1 DEF PassList!ElemAssumption, PassList!BatchesAssumption
<1> QED  BY <1>1, <1>2, <1>5, <1>6, BlocksAssumption, NullAssumption, SizeModAssumption
  DEF PassList!BlocksAssumption, PassList!NullAssumption, PassList!SizeModAssumption

LEMMA SameElems ==
  ASSUME NEW a
  PROVE  ElemsInOrder(a, 1) = PassList!ElemsInOrder(a, 1)
BY DEF ElemsInOrder, PassList!ElemsInOrder, Chain, PassList!Chain, ElemPtrs,
       PassList!ElemPtrs, FlattenSeq, PassList!FlattenSeq

LEMMA SameInit ==
  ASSUME NEW n
  PROVE  InitList(n, 1, 1, PassQtt) = PassList!InitList(n, 1, 1, PassQtt)
BY DEF InitList, PassList!InitList, InitArena, PassList!InitArena, PaddedSize,
       PassList!PaddedSize, StartOffset, PassList!StartOffset, Freed, PassList!Freed

LEMMA SameAlloc ==
  ASSUME NEW l
  PROVE  AllocListElems(l, 1) = PassList!AllocListElems(l, 1)
<1>1. \A a, n : AllocTailBlock(a, n) = PassList!AllocTailBlock(a, n)
  BY DEF AllocTailBlock, PassList!AllocTailBlock
<1>2. \A a : Fresh(a) = PassList!Fresh(a) /\ TailRoom(a) = PassList!TailRoom(a)
  BY DEF Fresh, PassList!Fresh, TailRoom, PassList!TailRoom
<1>3. ASSUME NEW a, NEW size
      PROVE  AllocAtTail(a, size) = PassList!AllocAtTail(a, size)
  BY <1>1, <1>2, Zenon DEF AllocAtTail, PassList!AllocAtTail
<1>4. AllocAtTail(l.arena, 1 * l.elem_padded_size)
        = PassList!AllocAtTail(l.arena, 1 * l.elem_padded_size)
  BY <1>3
<1> QED  BY <1>4, Zenon DEF AllocListElems, PassList!AllocListElems

LEMMA SameFirst ==
  ASSUME NEW l
  PROVE  FirstElem(l) = PassList!FirstElem(l)
BY DEF FirstElem, PassList!FirstElem, HeadFirstOff, PassList!HeadFirstOff, Ptr, PassList!Ptr

LEMMA SameNext ==
  ASSUME NEW l, NEW p
  PROVE  NextElem(l, p) = PassList!NextElem(l, p)
<1>1. BlockOfElem(l, p) = PassList!BlockOfElem(l, p)
  BY DEF BlockOfElem, PassList!BlockOfElem, SpansElem, PassList!SpansElem, LastOff,
         PassList!LastOff, InUsedBytes, PassList!InUsedBytes
<1>2. \A b : /\ AtBlockEnd(l, b, p) <=> PassList!AtBlockEnd(l, b, p)
             /\ IntoNextBlock(l, b) = PassList!IntoNextBlock(l, b)
             /\ Ptr(b, p.off + l.elem_padded_size)
                  = PassList!Ptr(b, p.off + l.elem_padded_size)
  BY DEF AtBlockEnd, PassList!AtBlockEnd, IntoNextBlock, PassList!IntoNextBlock, LastOff,
         PassList!LastOff, Ptr, PassList!Ptr
<1> QED  BY <1>1, <1>2 DEF NextElem, PassList!NextElem

LEMMA SameCursor ==
  ASSUME NEW l, NEW b
  PROVE  WithCursor(l, b) = PassList!WithCursor(l, b)
BY DEF WithCursor, PassList!WithCursor
-----------------------------------------------------------------------------
(* Memory of blocks of n bytes that hold members of V. *)
Mem(n, V) == [Blocks -> [0 .. n - 1 -> V]]

LEMMA ClearMem ==
  ASSUME NEW n \in Nat, NEW V, Junk \in V
  PROVE  Clear(n) \in Mem(n, V)
BY DEF Clear, Mem

Written(data2, data, p, val) ==
  /\ Read(data2, p) = val
  /\ \A q \in ElemPtr : q # p => Read(data2, q) = Read(data, q)

LEMMA WriteMem ==
  ASSUME NEW n \in Nat, NEW V, NEW data \in Mem(n, V),
         NEW p \in ElemPtr, p.off \in 0 .. n - 1, NEW val \in V
  PROVE  Write(data, p, val) \in Mem(n, V) /\ Written(Write(data, p, val), data, p, val)
<1> DEFINE new == [data[p.block] EXCEPT ![p.off] = val]
           m == [data EXCEPT ![p.block] = new]
<1>1. p.block \in Blocks /\ data[p.block] \in [0 .. n - 1 -> V]
  BY DEF ElemPtr, Mem
<1>2. Write(data, p, val) = m
  BY DEF Write
<1>3. /\ new \in [0 .. n - 1 -> V] /\ new[p.off] = val
      /\ \A o \in 0 .. n - 1 : o # p.off => new[o] = data[p.block][o]
  BY <1>1
<1> HIDE DEF new
<1>4. /\ m \in Mem(n, V) /\ m[p.block] = new
      /\ \A b \in Blocks : b # p.block => m[b] = data[b]
  BY <1>1, <1>3 DEF Mem
<1> HIDE DEF m
<1>5. Read(m, p) = val
  BY <1>3, <1>4 DEF Read
<1>6. ASSUME NEW q \in ElemPtr, q # p
      PROVE  Read(m, q) = Read(data, q)
  <2>1. q.block \in Blocks /\ (q.block = p.block => q.off # p.off)
    BY <1>6 DEF ElemPtr
  <2>2. CASE q.block = p.block
    <3>1. DOMAIN new = 0 .. n - 1 /\ DOMAIN data[p.block] = 0 .. n - 1
      BY <1>1, <1>3
    <3> QED  BY <1>3, <1>4, <2>1, <2>2, <3>1 DEF Read
  <2>3. CASE q.block # p.block
    BY <1>4, <2>1, <2>3 DEF Read
  <2> QED  BY <2>2, <2>3
<1> QED  BY <1>2, <1>4, <1>5, <1>6 DEF Written
-----------------------------------------------------------------------------
(* What a list of passes is, in this module's terms. *)
LEMMA SameSets ==
  /\ Arenas = PassList!Arenas /\ Lists = PassList!Lists /\ ElemPtr = PassList!ElemPtr
  /\ \A a : PassList!ArenaOK(a) <=> ArenaOK(a)
<1>1. Arenas = PassList!Arenas
  BY DEF Arenas, PassList!Arenas, MemBlocks, PassList!MemBlocks, Offsets, PassList!Offsets
<1>2. ElemPtr = PassList!ElemPtr
  BY DEF ElemPtr, PassList!ElemPtr
<1>3. ASSUME NEW a
      PROVE  PassList!ArenaOK(a) <=> ArenaOK(a)
  <2>1. \A s : PassList!IsChain(a, s) <=> IsChain(a, s)
    BY DEF IsChain, PassList!IsChain
  <2>2. PassList!Chains(a) = Chains(a)
    BY <2>1 DEF Chains, PassList!Chains
  <2>3. PassList!Chained(a) <=> Chained(a)
    BY <2>2 DEF Chained, PassList!Chained
  <2>4. PassList!InBounds(a) <=> InBounds(a)
    BY DEF InBounds, PassList!InBounds
  <2> QED  BY <1>1, <2>3, <2>4 DEF ArenaOK, PassList!ArenaOK
<1> QED  BY <1>1, <1>2, <1>3 DEF Lists, PassList!Lists

(* A pass's place in it. *)
IsPlace(p, l) ==
  /\ p \in ElemPtr /\ p.block \in l.arena.live /\ p.off \in 0 .. PassQtt - 1
  /\ p.off + 1 <= l.arena.block[p.block].right_offset

LEMMA PassListIs ==
  ASSUME NEW l, PassListOK(l)
  PROVE  /\ l \in Lists /\ ArenaOK(l.arena) /\ l.arena.block_size = PassQtt
         /\ l.elem_padded_size = 1
         /\ PassPtrs(l) \in Seq(ElemPtr)
         /\ \A i \in 1 .. Len(PassPtrs(l)) : IsPlace(PassPtrs(l)[i], l)
<1>1. /\ PassQtt \in Nat \ {0} /\ PassList!Padded = 1
      /\ PassList!BlocksAssumption /\ PassList!NullAssumption
      /\ PassList!SizeModAssumption
      /\ PassList!ElemAssumption /\ PassList!BatchesAssumption
  BY PassAssumptions
<1>2. PassList!ListHolds(l, PassPtrs(l))
  BY DEF PassListOK
<1>3. /\ l \in Lists /\ l.elem_padded_size = 1
      /\ PassPtrs(l) \in Seq(ElemPtr)
      /\ PassList!ListShape(l.arena)
  BY <1>1, <1>2, SameSets DEF PassList!ListHolds
<1>4. ArenaOK(l.arena) /\ l.arena.block_size = PassQtt
  BY <1>1, <1>3, SameSets DEF PassList!ListShape, PassList!BlockBytes
<1>5. ASSUME NEW i \in 1 .. Len(PassPtrs(l))
      PROVE  IsPlace(PassPtrs(l)[i], l)
  <2>1. PassList!IsElem(l.arena, PassPtrs(l)[i])
    BY <1>1, <1>2, PassList!ElemsHeldBy
  <2> DEFINE p == PassPtrs(l)[i]
  <2>2. /\ p \in ElemPtr /\ p.block \in l.arena.live
        /\ l.arena.block[p.block].left_offset <= p.off
        /\ p.off + 1 <= l.arena.block[p.block].right_offset
    BY <1>1, <2>1, SameSets DEF PassList!IsElem
  <2> HIDE DEF p
  <2>3. /\ l.arena.block[p.block].right_offset <= PassQtt
        /\ l.arena.block[p.block].right_offset \in Nat
    BY <1>4, <2>2 DEF ArenaOK, InBounds, Arenas, MemBlocks
  <2>4. p.off \in 0 .. PassQtt - 1
    BY <1>1, <2>2, <2>3 DEF ElemPtr
  <2>5. IsPlace(p, l)
    BY <2>2, <2>4 DEF IsPlace
  <2> QED  BY <2>5 DEF p
<1> QED  BY <1>3, <1>4, <1>5
LEMMA InitPassList ==
  ASSUME NEW n \in Blocks
  PROVE  LET l == InitList(n, 1, 1, PassQtt) IN PassListOK(l) /\ PassPtrs(l) = <<>>
<1> DEFINE l == InitList(n, 1, 1, PassQtt)
<1>1. /\ PassList!Padded = 1 /\ PassList!BlocksAssumption /\ PassList!NullAssumption
      /\ PassList!SizeModAssumption
      /\ PassList!ElemAssumption /\ PassList!BatchesAssumption
  BY PassAssumptions
<1>2. l = PassList!InitList(n, 1, 1, PassQtt)
  BY SameInit
<1> HIDE DEF l
<1>3. PassList!ListHolds(l, <<>>)
  BY <1>1, <1>2, PassList!InitListHolds
<1>4. PassList!ElemsInOrder(l.arena, 1) = <<>>
  BY <1>1, <1>3 DEF PassList!ListHolds
<1>5. PassPtrs(l) = <<>>
  BY <1>4, SameElems DEF PassPtrs
<1>6. PassListOK(l)
  BY <1>3, <1>5 DEF PassListOK
<1> QED  BY <1>5, <1>6 DEF l

LEMMA PassAllocated ==
  ASSUME NEW l, PassListOK(l), NEW g, g \in AllocListElems(l, 1)
  PROVE  /\ PassListOK(g) /\ PassPtrs(g) = Append(PassPtrs(l), TailPtr(g.arena, 1))
         /\ TailPtr(g.arena, 1) \in ElemPtr
         /\ TailPtr(g.arena, 1).off \in 0 .. PassQtt - 1
         /\ \A i \in 1 .. Len(PassPtrs(l)) : PassPtrs(l)[i] # TailPtr(g.arena, 1)
<1> DEFINE p == TailPtr(g.arena, 1)
           s == PassPtrs(l)
<1>1. /\ PassQtt \in Nat \ {0} /\ PassList!Padded = 1
      /\ PassList!BlocksAssumption /\ PassList!NullAssumption
      /\ PassList!SizeModAssumption
      /\ PassList!ElemAssumption /\ PassList!BatchesAssumption
  BY PassAssumptions
<1>2. PassList!ListHolds(l, s) /\ g \in PassList!AllocListElems(l, 1) /\ 1 \in {1}
  BY SameAlloc DEF PassListOK
<1> DEFINE t == PassList!Cat(s, PassList!NewElems(g.arena, 1))
<1>3. PassList!ListHolds(g, t)
  BY <1>1, <1>2, PassList!AllocListHolds
<1>4. PICK h \in AllocAtTail(l.arena, 1) :
        g = [l EXCEPT !.arena = h, !.elem_count = l.elem_count + 1]
  <2>1. 1 * l.elem_padded_size = 1
    BY PassListIs
  <2> QED  BY <2>1, Zenon DEF AllocListElems
<1>5. /\ ArenaOK(l.arena) /\ l \in Lists /\ l.arena.block_size = PassQtt
      /\ s \in Seq(ElemPtr) /\ \A i \in 1 .. Len(s) : IsPlace(s[i], l)
  BY PassListIs
<1>6. g.arena = h
  BY <1>4, <1>5 DEF Lists
<1>7. /\ ArenaOK(h) /\ h.tail_block \in h.live
      /\ h.tail_block \in l.arena.live =>
           h.block[h.tail_block].right_offset
             = l.arena.block[h.tail_block].right_offset + 1
  <2>1. 1 \in 1 .. l.arena.block_size
    BY <1>1, <1>5
  <2> QED  BY <1>4, <1>5, <2>1, AllocAtTailOK
<1>8. p = Ptr(h.tail_block, h.block[h.tail_block].right_offset - 1) /\ p.off \in Int
  BY <1>6, <1>7 DEF TailPtr, Ptr, ArenaOK, Arenas, MemBlocks
<1>9. PassList!NewElems(g.arena, 1) = <<p>>
  <2> DEFINE b == p.block
             o == p.off
  <2>1. PassList!TailPtr(g.arena, 1) = p /\ 1 * PassList!Padded = 1
    BY <1>1 DEF TailPtr, PassList!TailPtr
  <2>2. PassList!NewElems(g.arena, 1) = PassList!PtrsFrom(b, o, 1, 1)
    BY <1>1, <2>1, Zenon DEF PassList!NewElems
  <2>3. p = [block |-> b, off |-> o] /\ o \in Int
    BY <1>8 DEF Ptr
  <2> HIDE DEF b, o, p
  <2>4. PassList!PtrsFrom(b, o, 1, 1) = <<[block |-> b, off |-> o]>>
    BY <2>3 DEF PassList!PtrsFrom
  <2> QED  BY <2>2, <2>3, <2>4
<1>10. t = Append(s, p)
  <2> DEFINE S == ElemPtr \cup {p}
  <2>1. s \in Seq(S) /\ p \in S /\ <<p>> \in Seq(S)
    BY <1>5
  <2> HIDE DEF S, p
  <2>2. s \o <<p>> = Append(s, p)
    BY <2>1
  <2> QED  BY <1>9, <2>2 DEF PassList!Cat
<1>11. PassPtrs(g) = t
  <2>1. PassList!ElemsInOrder(g.arena, 1) = t
    BY <1>1, <1>3 DEF PassList!ListHolds
  <2> QED  BY <2>1, SameElems DEF PassPtrs
<1>12. PassListOK(g)
  BY <1>3, <1>11 DEF PassListOK
<1> HIDE DEF p, s, t
<1>13. PassPtrs(g) = Append(s, p)
  BY <1>10, <1>11
<1>14. IsPlace(p, g)
  <2>1. /\ PassPtrs(g) \in Seq(ElemPtr)
        /\ \A i \in 1 .. Len(PassPtrs(g)) : IsPlace(PassPtrs(g)[i], g)
    BY <1>12, PassListIs
  <2>2. Len(PassPtrs(g)) = Len(s) + 1 /\ PassPtrs(g)[Len(s) + 1] = p /\ Len(s) \in Nat
    BY <1>5, <1>13
  <2> QED  BY <2>1, <2>2
<1>15. ASSUME NEW i \in 1 .. Len(s)
       PROVE  s[i] # p
  <2>1. SUFFICES ASSUME s[i] = p PROVE FALSE
    OBVIOUS
  <2>2. /\ p.block = h.tail_block /\ p.off = h.block[h.tail_block].right_offset - 1
        /\ p.block \in l.arena.live
        /\ p.off + 1 <= l.arena.block[p.block].right_offset
        /\ p.off \in Int
    BY <1>5, <1>8, <2>1 DEF IsPlace, Ptr
  <2>3. l.arena.block[h.tail_block].right_offset \in Nat
    BY <1>5, <2>2 DEF ArenaOK, Arenas, MemBlocks
  <2> QED  BY <1>7, <2>2, <2>3
<1> QED  BY <1>12, <1>13, <1>14, <1>15 DEF p, s, IsPlace
(* The lookups of lf_process_pass_pipeline. *)
LEMMA PassCursorMoved ==
  ASSUME NEW l, PassListOK(l), NEW c \in l.arena.live
  PROVE  PassListOK(WithCursor(l, c)) /\ PassPtrs(WithCursor(l, c)) = PassPtrs(l)
<1> DEFINE h == WithCursor(l, c)
<1>1. /\ PassList!Padded = 1 /\ PassList!BlocksAssumption /\ PassList!NullAssumption
      /\ PassList!SizeModAssumption
      /\ PassList!ElemAssumption /\ PassList!BatchesAssumption
  BY PassAssumptions
<1>2. PassList!ListHolds(l, PassPtrs(l)) /\ h = PassList!WithCursor(l, c)
  BY SameCursor DEF PassListOK
<1> HIDE DEF h
<1>3. PassList!ListHolds(h, PassPtrs(l))
  BY <1>1, <1>2, PassList!MoveListHolds
<1>4. PassPtrs(h) = PassPtrs(l)
  BY <1>1, <1>3, SameElems DEF PassList!ListHolds, PassPtrs
<1> QED  BY <1>3, <1>4 DEF h, PassListOK

LEMMA NextPassIs ==
  ASSUME NEW l, PassListOK(l), NEW i \in 1 .. Len(PassPtrs(l))
  PROVE  /\ NextElem(l, PassPtrs(l)[i]).ptr =
              IF i < Len(PassPtrs(l)) THEN PassPtrs(l)[i + 1] ELSE Null
         /\ NextElem(l, PassPtrs(l)[i]).cursor \in l.arena.live
<1>1. /\ PassList!Padded = 1 /\ PassList!BlocksAssumption /\ PassList!NullAssumption
      /\ PassList!SizeModAssumption
      /\ PassList!ElemAssumption /\ PassList!BatchesAssumption
  BY PassAssumptions
<1>2. PassList!ListHolds(l, PassPtrs(l))
  BY DEF PassListOK
<1>3. NextElem(l, PassPtrs(l)[i]) = PassList!NextElem(l, PassPtrs(l)[i])
  BY SameNext
<1> QED  BY <1>1, <1>2, <1>3, PassList!NextOfHeld

LEMMA FirstPassIs ==
  ASSUME NEW l, PassListOK(l)
  PROVE  /\ FirstElem(l).ptr = IF PassPtrs(l) = <<>> THEN Null ELSE PassPtrs(l)[1]
         /\ FirstElem(l).cursor \in l.arena.live
<1>1. /\ PassList!Padded = 1 /\ PassList!BlocksAssumption /\ PassList!NullAssumption
      /\ PassList!SizeModAssumption /\ PassList!BatchesFitHalf
      /\ PassList!ElemAssumption /\ PassList!BatchesAssumption
  BY PassAssumptions
<1>2. PassList!ListHolds(l, PassPtrs(l))
  BY DEF PassListOK
<1>3. FirstElem(l) = PassList!FirstElem(l)
  BY SameFirst
<1> QED  BY <1>1, <1>2, <1>3, PassList!FirstOfHeld
-----------------------------------------------------------------------------
(* lf_push_pass adds to the passes, and lf_process_pass_pipeline goes from  *)
(* one to the next, in whatever list the one that ran left.                 *)
OnePushed(l, data, fns, g, fn, data2, fns2) ==
  /\ PassesHeld(l, data, fns)
  /\ g \in AllocListElems(l, 1) /\ fn \in ApplyFns
  /\ data2 = Write(data, TailPtr(g.arena, 1), fn) /\ fns2 = Append(fns, fn)

LEMMA PushKeepsPasses ==
  ASSUME NEW l, NEW data, NEW fns, NEW g, NEW fn, NEW data2, NEW fns2,
         OnePushed(l, data, fns, g, fn, data2, fns2)
  PROVE  /\ PassesHeld(g, data2, fns2)
         /\ \A i \in 1 .. Len(PassPtrs(l)) : PassPtrs(g)[i] = PassPtrs(l)[i]
<1> DEFINE p == TailPtr(g.arena, 1)
           s == PassPtrs(l)
           t == PassPtrs(g)
<1>1. /\ PassListOK(l) /\ data \in PassDatas /\ fns \in Seq(ApplyFns) /\ Len(fns) = Len(s)
      /\ \A i \in 1 .. Len(fns) : Read(data, s[i]) = fns[i]
      /\ g \in AllocListElems(l, 1) /\ fn \in ApplyFns
      /\ data2 = Write(data, p, fn) /\ fns2 = Append(fns, fn)
  BY DEF PassesHeld, OnePushed
<1>2. /\ PassListOK(g) /\ t = Append(s, p) /\ p \in ElemPtr /\ p.off \in 0 .. PassQtt - 1
      /\ \A i \in 1 .. Len(s) : s[i] # p
  BY <1>1, PassAllocated
<1>3. s \in Seq(ElemPtr) /\ PassQtt \in Nat
  BY <1>1, PassListIs, PassAssumptions
<1>4. data2 \in PassDatas /\ Written(data2, data, p, fn)
  <2>1. data \in Mem(PassQtt, ApplyFns \cup {Junk}) /\ fn \in ApplyFns \cup {Junk}
    BY <1>1 DEF PassDatas, Mem
  <2>2. data2 = Write(data, p, fn)
    BY <1>1
  <2> HIDE DEF p
  <2>3. data2 \in Mem(PassQtt, ApplyFns \cup {Junk}) /\ Written(data2, data, p, fn)
    BY <1>2, <1>3, <2>1, <2>2, WriteMem
  <2> QED  BY <2>3 DEF PassDatas, Mem
<1> HIDE DEF p, s, t
<1>5. /\ Len(t) = Len(s) + 1 /\ t[Len(s) + 1] = p /\ Len(s) \in Nat
      /\ \A i \in 1 .. Len(s) : t[i] = s[i] /\ s[i] \in ElemPtr
  BY <1>2, <1>3
<1>6. /\ fns2 \in Seq(ApplyFns) /\ Len(fns2) = Len(s) + 1 /\ fns2[Len(s) + 1] = fn
      /\ \A i \in 1 .. Len(s) : fns2[i] = fns[i]
  BY <1>1, <1>5
<1>7. ASSUME NEW i \in 1 .. Len(fns2)
      PROVE  Read(data2, t[i]) = fns2[i]
  <2>1. CASE i = Len(s) + 1
    BY <1>4, <1>5, <1>6, <2>1 DEF Written
  <2>2. CASE i \in 1 .. Len(s)
    BY <1>1, <1>2, <1>4, <1>5, <1>6, <2>2 DEF Written
  <2> QED  BY <1>5, <1>6, <2>1, <2>2
<1> QED  BY <1>2, <1>4, <1>5, <1>6, <1>7 DEF s, t, PassesHeld

NextApplies(l, data, fns, done, at) ==
  /\ PassesHeld(l, data, fns)
  /\ done \in Seq(ApplyFns) /\ Begins(done, fns)
  /\ Applies(StatusAt(at), at, PassPtrs(l), done)

LEMMA NextPassApplies ==
  ASSUME NEW l, NEW data, NEW fns, PassesHeld(l, data, fns),
         NEW done \in Seq(ApplyFns), Begins(done, fns), Len(done) < Len(fns),
         NEW pass, pass = PassPtrs(l)[Len(done) + 1],
         NEW done2, done2 = Append(done, Read(data, pass))
  PROVE  NextApplies(WithCursor(l, NextElem(l, pass).cursor), data, fns, done2,
                     NextElem(l, pass).ptr)
<1> DEFINE s == PassPtrs(l)
           k == Len(done) + 1
           next == NextElem(l, pass)
           h == WithCursor(l, next.cursor)
<1>1. /\ PassListOK(l) /\ data \in PassDatas /\ fns \in Seq(ApplyFns) /\ Len(fns) = Len(s)
      /\ \A i \in 1 .. Len(fns) : Read(data, s[i]) = fns[i]
  BY DEF PassesHeld
<1>2. s \in Seq(ElemPtr)
  BY <1>1, PassListIs
<1>3. k \in 1 .. Len(s) /\ Len(done) \in Nat /\ Len(s) \in Nat
  BY <1>1, <1>2
<1>4. /\ next.ptr = IF k < Len(s) THEN s[k + 1] ELSE Null
      /\ next.cursor \in l.arena.live
  BY <1>1, <1>3, NextPassIs
<1>5. PassListOK(h) /\ PassPtrs(h) = s
  BY <1>1, <1>4, PassCursorMoved
<1> HIDE DEF s, h, next
<1>6. PassesHeld(h, data, fns)
  BY <1>1, <1>5 DEF PassesHeld
<1>7. Read(data, pass) = fns[k] /\ fns[k] \in ApplyFns
  BY <1>1, <1>3 DEF s
<1>8. /\ done2 \in Seq(ApplyFns) /\ Len(done2) = k /\ done2[k] = fns[k]
      /\ \A i \in 1 .. Len(done) : done2[i] = done[i]
  BY <1>7
<1>9. Begins(done2, fns)
  <2>1. ASSUME NEW i \in 1 .. Len(done2)
        PROVE  done2[i] = fns[i]
    <3>1. CASE i = k
      BY <1>8, <3>1
    <3>2. CASE i \in 1 .. Len(done)
      BY <1>8, <3>2 DEF Begins
    <3> QED  BY <1>3, <1>8, <3>1, <3>2
  <2> QED  BY <1>1, <1>3, <1>8, <2>1 DEF Begins
<1>10. Applies(StatusAt(next.ptr), next.ptr, s, done2)
  <2>1. CASE k < Len(s)
    <3>1. next.ptr = s[k + 1] /\ s[k + 1] \in ElemPtr
      BY <1>2, <1>3, <1>4, <2>1
    <3>2. next.ptr # Null
      BY <3>1, NullAssumption DEF ElemPtr
    <3> QED  BY <1>8, <2>1, <3>1, <3>2 DEF Applies, StatusAt
  <2>2. CASE k = Len(s)
    BY <1>3, <1>4, <1>8, <2>2 DEF Applies, StatusAt
  <2> QED  BY <1>3, <2>1, <2>2
<1> QED  BY <1>5, <1>6, <1>8, <1>9, <1>10 DEF NextApplies, h, next
-----------------------------------------------------------------------------
(* The invariant holds at the start and every step keeps it.                *)
LEMMA InitPassesIInv == Init => PassesIInv
<1> SUFFICES ASSUME Init PROVE PassesIInv
  OBVIOUS
<1>1. SomeBlock \in Blocks
  BY DEF Init, SomeBlock, Some
<1>2. PassListOK(passes) /\ PassPtrs(passes) = <<>>
  BY <1>1, InitPassList DEF Init
<1>3. passData \in PassDatas
  <2>1. PassQtt \in Nat
    BY QttAssumption
  <2>2. Clear(PassQtt) \in Mem(PassQtt, ApplyFns \cup {Junk})
    BY <2>1, ClearMem
  <2> QED  BY <2>2 DEF Init, Mem, PassDatas
<1>4. PassesHeld(passes, passData, pushed)
  BY <1>2, <1>3 DEF PassesHeld, Init
<1>5. Begins(applied, pushed) /\ applied \in Seq(ApplyFns)
  BY DEF Init, Begins
<1>6. Applies(status, cur_pass, PassPtrs(passes), applied)
  BY DEF Init, Applies
<1> QED  BY <1>4, <1>5, <1>6 DEF PassesIInv, Init

(* A step that applied the current pass, or one that stopped in it. *)
PassDone ==
  /\ status = "processing" /\ UNCHANGED <<passData, pushed>>
  /\ \/ ToNextPass(passes) /\ Applied
     \/ Stop /\ UNCHANGED applied

LEMMA PassesEnd ==
  /\ BuildValSchedule => PassDone
  /\ PartitionFlows => PassDone
  /\ ClientLogs => PassDone
<1>1. BuildValSchedule => PassDone
  BY DEF BuildValSchedule, PassDone, Applying
<1>2. PartitionFlows => PassDone
  BY DEF PartitionFlows, PassDone, Applying
<1>3. ClientLogs => PassDone
  BY DEF ClientLogs, PassDone, Applying
<1> QED  BY <1>1, <1>2, <1>3

(* What the invariant says while a pass runs. *)
LEMMA AtPass ==
  ASSUME PassesIInv, status = "processing"
  PROVE  /\ PassesHeld(passes, passData, pushed)
         /\ applied \in Seq(ApplyFns) /\ Begins(applied, pushed)
         /\ Len(applied) < Len(pushed) /\ Len(applied) + 1 \in 1 .. Len(PassPtrs(passes))
         /\ cur_pass = PassPtrs(passes)[Len(applied) + 1]
         /\ cur_pass \in ToSet(PassPtrs(passes))
<1>1. /\ PassesHeld(passes, passData, pushed) /\ Len(pushed) = Len(PassPtrs(passes))
      /\ applied \in Seq(ApplyFns) /\ Begins(applied, pushed)
      /\ Len(applied) < Len(PassPtrs(passes))
      /\ cur_pass = PassPtrs(passes)[Len(applied) + 1]
      /\ PassPtrs(passes) \in Seq(ElemPtr)
  BY PassListIs DEF PassesIInv, Applies, PassesHeld
<1>2. Len(applied) + 1 \in 1 .. Len(PassPtrs(passes))
  BY <1>1
<1>3. cur_pass \in ToSet(PassPtrs(passes))
  BY <1>1, <1>2, LenProperties DEF ToSet
<1> QED  BY <1>1, <1>2, <1>3

LEMMA StatusAtType ==
  ASSUME NEW p
  PROVE  StatusAt(p) \in {"processing", "done"}
BY DEF StatusAt

LEMMA DoneKeepsPasses ==
  ASSUME PassesIInv, PassDone
  PROVE  PassesIInv'
<1>1. /\ PassesHeld(passes, passData, pushed)
      /\ applied \in Seq(ApplyFns) /\ Begins(applied, pushed)
      /\ Len(applied) < Len(pushed)
      /\ cur_pass = PassPtrs(passes)[Len(applied) + 1]
      /\ cur_pass \in ToSet(PassPtrs(passes))
      /\ passData' = passData /\ pushed' = pushed
  BY AtPass DEF PassDone
<1>2. CASE ToNextPass(passes) /\ Applied
  <2> DEFINE next == NextElem(passes, cur_pass)
  <2>1. /\ cur_pass' = next.ptr /\ passes' = WithCursor(passes, next.cursor)
        /\ status' = StatusAt(next.ptr) /\ applied' = Append(applied, Read(passData, cur_pass))
    BY <1>2 DEF ToNextPass, NextPass, Applied
  <2>2. NextApplies(WithCursor(passes, next.cursor), passData, pushed, applied', next.ptr)
    BY <1>1, <2>1, NextPassApplies
  <2> HIDE DEF next
  <2> QED  BY <1>1, <2>1, <2>2, StatusAtType DEF PassesIInv, NextApplies
<1>3. CASE Stop /\ UNCHANGED applied
  BY <1>1, <1>3 DEF Stop, PassesIInv, Applies
<1> QED  BY <1>2, <1>3 DEF PassDone

LEMMA ClientPushesKeepsPasses ==
  ASSUME PassesIInv, ClientPushes
  PROVE  PassesIInv'
<1>1. PICK list \in OneOf(AllocListElems(passes, 1)), fn \in ApplyFns :
        PushPass(list, fn) /\ passes' = list
  BY DEF ClientPushes
<1>2. list \in AllocListElems(passes, 1)
  BY <1>1 DEF OneOf, Some
<1>3. /\ passData' = Write(passData, TailPtr(list.arena, 1), fn)
      /\ pushed' = Append(pushed, fn)
      /\ status = "ready" /\ status' \in {"aborted", "ready"}
      /\ cur_pass' = cur_pass /\ applied' = applied
  BY <1>1 DEF PushPass, ClientPushes, UninitString
<1>4. PassesHeld(passes, passData, pushed) /\ cur_pass = Null /\ applied = <<>>
  BY <1>3 DEF PassesIInv, Applies
<1>5. PassesHeld(passes', passData', pushed')
  <2>1. OnePushed(passes, passData, pushed, list, fn, passData', pushed')
    BY <1>2, <1>3, <1>4 DEF OnePushed
  <2> QED  BY <1>1, <2>1, PushKeepsPasses
<1>6. pushed' \in Seq(ApplyFns)
  BY <1>5 DEF PassesHeld
<1>7. Begins(applied', pushed') /\ applied' \in Seq(ApplyFns)
  BY <1>3, <1>4, <1>6 DEF Begins
<1>8. Applies(status', cur_pass', PassPtrs(passes'), applied')
  BY <1>3, <1>4 DEF Applies
<1> QED  BY <1>3, <1>5, <1>7, <1>8 DEF PassesIInv

LEMMA ClientPushesMoreKeepsPasses ==
  ASSUME PassesIInv, ClientPushesMore
  PROVE  PassesIInv'
<1>1. PICK list \in OneOf(AllocListElems(passes, 1)), fn \in ApplyFns :
        /\ PushPass(list, fn)
        /\ \/ ToNextPass(list) /\ Applied
           \/ status' = "aborted" /\ passes' = list /\ UNCHANGED <<cur_pass, applied>>
  BY DEF ClientPushesMore
<1>2. list \in AllocListElems(passes, 1)
  BY <1>1 DEF OneOf, Some
<1>3. /\ passData' = Write(passData, TailPtr(list.arena, 1), fn)
      /\ pushed' = Append(pushed, fn)
      /\ status = "processing"
  BY <1>1 DEF PushPass, ClientPushesMore, Applying
<1>4. /\ PassesHeld(passes, passData, pushed)
      /\ applied \in Seq(ApplyFns) /\ Begins(applied, pushed)
      /\ Len(applied) < Len(pushed) /\ Len(applied) + 1 \in 1 .. Len(PassPtrs(passes))
      /\ cur_pass = PassPtrs(passes)[Len(applied) + 1]
  BY <1>3, AtPass
<1>5. /\ PassesHeld(list, passData', pushed')
      /\ \A i \in 1 .. Len(PassPtrs(passes)) : PassPtrs(list)[i] = PassPtrs(passes)[i]
  <2>1. OnePushed(passes, passData, pushed, list, fn, passData', pushed')
    BY <1>2, <1>3, <1>4 DEF OnePushed
  <2> QED  BY <2>1, PushKeepsPasses
<1> DEFINE k == Len(applied) + 1
<1>6. cur_pass = PassPtrs(list)[k]
  BY <1>4, <1>5
<1>7. /\ pushed \in Seq(ApplyFns) /\ pushed' \in Seq(ApplyFns)
      /\ Len(pushed') = Len(pushed) + 1
      /\ \A i \in 1 .. Len(pushed) : pushed'[i] = pushed[i]
  <2>1. pushed \in Seq(ApplyFns) /\ pushed' \in Seq(ApplyFns)
    BY <1>4, <1>5 DEF PassesHeld
  <2> QED  BY <1>1, <1>3, <2>1, AppendProperties
<1>8. Begins(applied, pushed') /\ Len(applied) < Len(pushed')
  <2>1. Len(pushed) \in Nat /\ Len(applied) \in Nat /\ Len(applied) <= Len(pushed)
    BY <1>4, <1>7
  <2>2. \A i \in 1 .. Len(applied) : i \in 1 .. Len(pushed)
    BY <2>1
  <2> QED  BY <1>4, <1>7, <2>1, <2>2 DEF Begins
<1>9. Read(passData', cur_pass) = Read(passData, cur_pass)
  <2>1. k \in 1 .. Len(pushed) /\ k \in 1 .. Len(pushed')
    BY <1>4, <1>7
  <2>2. Read(passData, cur_pass) = pushed[k]
    BY <1>4, <2>1 DEF PassesHeld
  <2>3. Read(passData', cur_pass) = pushed'[k]
    BY <1>5, <1>6, <2>1 DEF PassesHeld
  <2> QED  BY <1>7, <2>1, <2>2, <2>3
<1>10. CASE ToNextPass(list) /\ Applied
  <2> DEFINE next == NextElem(list, cur_pass)
  <2>1. /\ cur_pass' = next.ptr /\ passes' = WithCursor(list, next.cursor)
        /\ status' = StatusAt(next.ptr) /\ applied' = Append(applied, Read(passData', cur_pass))
    BY <1>9, <1>10 DEF ToNextPass, NextPass, Applied
  <2>2. NextApplies(WithCursor(list, next.cursor), passData', pushed', applied', next.ptr)
    BY <1>4, <1>5, <1>6, <1>8, <2>1, NextPassApplies
  <2> HIDE DEF next
  <2> QED  BY <2>1, <2>2, StatusAtType DEF PassesIInv, NextApplies
<1>11. CASE status' = "aborted" /\ passes' = list /\ UNCHANGED <<cur_pass, applied>>
  <2>1. k \in 1 .. Len(PassPtrs(list)) /\ PassPtrs(list) \in Seq(ElemPtr)
    BY <1>4, <1>5, <1>7, PassListIs DEF PassesHeld
  <2>2. cur_pass \in ToSet(PassPtrs(list))
    BY <1>6, <2>1, LenProperties DEF ToSet
  <2>3. Applies(status', cur_pass', PassPtrs(passes'), applied')
    BY <1>11, <2>2 DEF Applies
  <2> QED  BY <1>4, <1>5, <1>8, <1>11, <2>3 DEF PassesIInv
<1> QED  BY <1>1, <1>10, <1>11

LEMMA ProcessKeepsPasses ==
  ASSUME PassesIInv, Process
  PROVE  PassesIInv'
<1> DEFINE s == PassPtrs(passes)
           first == FirstElem(passes)
           h == WithCursor(passes, first.cursor)
<1>1. /\ cur_pass' = first.ptr /\ passes' = h /\ status' = StatusAt(first.ptr)
      /\ passData' = passData /\ pushed' = pushed /\ applied' = applied
      /\ status = "ready"
  BY DEF Process
<1>2. /\ PassesHeld(passes, passData, pushed) /\ PassListOK(passes)
      /\ applied \in Seq(ApplyFns) /\ Begins(applied, pushed) /\ applied = <<>>
  BY <1>1 DEF PassesIInv, Applies, PassesHeld
<1>3. /\ first.ptr = IF s = <<>> THEN Null ELSE s[1]
      /\ first.cursor \in passes.arena.live
  BY <1>2, FirstPassIs
<1>4. PassListOK(h) /\ PassPtrs(h) = s
  BY <1>2, <1>3, PassCursorMoved
<1>5. s \in Seq(ElemPtr)
  BY <1>2, PassListIs
<1> HIDE DEF s, h, first
<1>6. PassesHeld(passes', passData', pushed')
  BY <1>1, <1>2, <1>4 DEF PassesHeld, s
<1>7. Applies(StatusAt(first.ptr), first.ptr, s, <<>>)
  <2>1. CASE s = <<>>
    BY <1>3, <2>1 DEF StatusAt, Applies
  <2>2. CASE s # <<>>
    <3>1. Len(s) \in Nat \ {0} /\ s[1] \in ElemPtr /\ first.ptr = s[1]
      BY <1>3, <1>5, <2>2
    <3>2. first.ptr # Null
      BY <3>1, NullAssumption DEF ElemPtr
    <3> QED  BY <3>1, <3>2 DEF StatusAt, Applies
  <2> QED  BY <2>1, <2>2
<1>8. Applies(status', cur_pass', PassPtrs(passes'), applied')
  BY <1>1, <1>2, <1>4, <1>7
<1> QED  BY <1>1, <1>2, <1>6, <1>8, StatusAtType DEF PassesIInv

LEMMA NextPassesIInv ==
  ASSUME PassesIInv, [Next]_vars
  PROVE  PassesIInv'
<1>1. CASE InitPassPipeline
  <2>1. /\ status = "fresh" /\ status' \in {"ready", "aborted"}
        /\ UNCHANGED <<passes, passData, pushed, cur_pass, applied>>
    BY <1>1 DEF InitPassPipeline, pass_list
  <2> QED  BY <2>1 DEF PassesIInv, Applies
<1>2. CASE ClientPushes
  BY <1>2, ClientPushesKeepsPasses
<1>3. CASE Process
  BY <1>3, ProcessKeepsPasses
<1>4. CASE BuildValSchedule \/ PartitionFlows \/ ClientLogs
  BY <1>4, PassesEnd, DoneKeepsPasses
<1>5. CASE ClientPushesMore
  BY <1>5, ClientPushesMoreKeepsPasses
<1>6. CASE UNCHANGED vars
  BY <1>6 DEF vars, pass_list, PassesIInv
<1> QED  BY <1>1, <1>2, <1>3, <1>4, <1>5, <1>6 DEF Next

LEMMA PassesInvariant == Spec => []PassesIInv
<1>1. Init => PassesIInv
  BY InitPassesIInv
<1>2. PassesIInv /\ [Next]_vars => PassesIInv'
  BY NextPassesIInv
<1> QED  BY <1>1, <1>2, PTL DEF Spec

(* Passes are applied in the order they were pushed, each of them once, and *)
(* none is left out (passes.c:51-73): for any number of passes, whichever   *)
(* of them push others while the pipeline runs, over any blocks.            *)
THEOREM PipelinePassesInOrder == Spec => []PassesInOrder
<1>1. ASSUME PassesIInv
      PROVE  PassesInOrder
  <2>1. /\ applied \in Seq(ApplyFns) /\ pushed \in Seq(ApplyFns)
        /\ Len(pushed) = Len(PassPtrs(passes))
        /\ Len(applied) <= Len(pushed)
        /\ \A i \in 1 .. Len(applied) : applied[i] = pushed[i]
    BY <1>1 DEF PassesIInv, PassesHeld, Begins
  <2>2. Len(applied) \in Nat /\ Len(pushed) \in Nat
    BY <2>1
  <2>3. SubSeq(pushed, 1, Len(applied)) = applied
    BY <2>1, <2>2
  <2>4. IsPrefix(applied, pushed)
    BY <2>1, <2>3 DEF IsPrefix
  <2>5. status = "done" => applied = pushed
    <3>1. status = "done" => Len(applied) = Len(pushed)
      BY <1>1, <2>1 DEF PassesIInv, Applies
    <3> QED  BY <2>1, <2>2, <3>1
  <2> QED  BY <2>4, <2>5 DEF PassesInOrder
<1> QED  BY <1>1, PassesInvariant, PTL
-----------------------------------------------------------------------------
(* The logger: its buffer is one block for ever, and its last line is what  *)
(* it was told last.                                                        *)
OneBlock(a) ==
  ArenaOK(a) /\ a.block_count = 1 /\ a.block_size = LogQtt /\ a.block_offset = "left"

Printables == Chars \cup {Nul, Junk}
LogMem == Mem(LogQtt, Printables)

LineOf(lg, told) ==
  TimeStr(lg) \o <<Blank>> \o LevelStr(lg, told.level) \o <<Blank>> \o told.msg \o <<Newline>>

Loggers ==
  [min_level: {settings.min_level}, is_colored: {settings.is_colored},
   time: {settings.time}, buf: Arenas, data: LogMem, line: Seq(Chars)]

LoggerOK(lg, told) ==
  /\ lg \in Loggers /\ OneBlock(lg.buf)
  /\ lg.line = <<>> \/ lg.line = LineOf(lg, told)

LoggerIInv ==
  settings \in LoggerSettings /\ (logger = Null \/ LoggerOK(logger, logged))
-----------------------------------------------------------------------------
(* The block of a one-block arena. *)
LEMMA OnlyBlock ==
  ASSUME NEW a, OneBlock(a)
  PROVE  /\ a \in Arenas /\ a.head_block \in Blocks /\ a.tail_block = a.head_block
         /\ a.live = {a.head_block} /\ a.block[a.head_block].size = LogQtt
         /\ a.block[a.head_block].right_offset \in 0 .. LogQtt
<1>1. a \in Arenas /\ Chained(a) /\ InBounds(a) /\ a.block_count = 1
  BY DEF OneBlock, ArenaOK
<1>2. PICK s \in [1 .. a.block_count -> a.live] : IsChain(a, s)
  BY <1>1 DEF Chained, Chains
<1>3. s[1] = a.head_block /\ s[1] = a.tail_block /\ s[1] \in a.live
  BY <1>1, <1>2 DEF IsChain
<1>4. \A b \in a.live : b = s[1]
  <2> SUFFICES ASSUME NEW b \in a.live PROVE b = s[1]
    OBVIOUS
  <2>1. PICK i \in 1 .. a.block_count : s[i] = b
    BY <1>2 DEF IsChain
  <2>2. i = 1
    BY <1>1, <2>1
  <2> QED  BY <2>1, <2>2
<1>5. /\ a.block[a.head_block].size = LogQtt
      /\ a.block[a.head_block].right_offset <= LogQtt
  BY <1>1, <1>3 DEF InBounds, OneBlock
<1>6. a.head_block \in Blocks /\ a.block[a.head_block].right_offset \in Nat
  BY <1>1 DEF Arenas, MemBlocks
<1>7. a.live = {a.head_block}
  BY <1>3, <1>4
<1> QED  BY <1>1, <1>3, <1>5, <1>6, <1>7, QttAssumption

LEMMA InitOneBlock ==
  ASSUME NEW n \in Blocks
  PROVE  OneBlock(InitArena(n, LogQtt, "left"))
<1>1. ArenaOK(InitArena(n, LogQtt, "left"))
  BY InitArenaOK, QttAssumption DEF Offsets
<1> QED  BY <1>1 DEF OneBlock, InitArena

(* What a buffer is after it is reset, and after an allocation that fits.   *)
BufAt(a, b, off) ==
  /\ OneBlock(a) /\ a.head_block = b
  /\ off \in Nat /\ a.block[b].right_offset = off

LEMMA ResetBuf ==
  ASSUME NEW a, OneBlock(a)
  PROVE  BufAt(ResetArena(a), a.head_block, 0)
<1> DEFINE r == ResetArena(a)
<1>1. ArenaOK(a) /\ a \in Arenas /\ a.head_block \in Blocks /\ a.live = {a.head_block}
  BY OnlyBlock DEF OneBlock
<1>2. Walked(a) = {a.head_block}
  BY <1>1, WalkedIsLive
<1>3. ArenaOK(r) /\ r.block_size = a.block_size /\ r.block_offset = a.block_offset
  BY <1>1, ResetArenaOK
<1>4. r.block_count = a.block_count /\ r.head_block = a.head_block
  BY <1>1 DEF ResetArena, Arenas
<1>5. r.block[a.head_block] = Restarted(a, a.head_block)
  BY <1>1, <1>2 DEF ResetArena, Arenas
<1>6. Restarted(a, a.head_block).right_offset = StartOffset(a.block_size, a.block_offset)
  BY <1>1 DEF Restarted, Arenas, MemBlocks
<1>7. StartOffset(a.block_size, a.block_offset) = 0
  BY DEF OneBlock, StartOffset
<1> HIDE DEF r
<1>8. OneBlock(r)
  BY <1>3, <1>4 DEF OneBlock
<1> QED  BY <1>4, <1>5, <1>6, <1>7, <1>8 DEF r, BufAt

LEMMA AllocedBuf ==
  ASSUME NEW a, NEW b, NEW off, BufAt(a, b, off), NEW n \in Nat, off + n <= LogQtt
  PROVE  BufAt(Alloced(a, n), b, off + n)
<1>1. /\ a \in Arenas /\ a.head_block = b /\ a.tail_block = b /\ ArenaOK(a)
      /\ a.block[b].size = LogQtt /\ a.block[b].right_offset = off
      /\ off \in Nat /\ OneBlock(a)
  BY OnlyBlock DEF OneBlock, BufAt
<1>2. TailRoom(a) = LogQtt - off
  BY <1>1 DEF TailRoom
<1>3. ~(TailRoom(a) < n)
  BY <1>1, <1>2, QttAssumption
<1>4. AllocAtTail(a, n) = {TailTaken(a, n)}
  BY <1>3 DEF AllocAtTail, TailTaken
<1>5. AllocString(a, Null, n) = {[arena |-> TailTaken(a, n), slice |-> Null]}
  BY <1>4 DEF AllocString
<1>6. Some({[arena |-> TailTaken(a, n), slice |-> Null]})
        = [arena |-> TailTaken(a, n), slice |-> Null]
  BY DEF Some
<1>7. Alloced(a, n) = TailTaken(a, n)
  BY <1>5, <1>6 DEF Alloced
<1>8. n <= a.block[a.tail_block].size - a.block[a.tail_block].right_offset
  BY <1>1, QttAssumption
<1>9. LET h == TailTaken(a, n)
      IN  /\ ArenaOK(h) /\ h.head_block = a.head_block
          /\ h.block_size = a.block_size /\ h.block_offset = a.block_offset
          /\ h.block_count = a.block_count
          /\ h.block[a.tail_block].right_offset = a.block[a.tail_block].right_offset + n
  BY <1>1, <1>8, TailBytesTaken
<1> QED  BY <1>1, <1>7, <1>9 DEF OneBlock, BufAt

(* What a copy leaves in memory. *)
At(b, off) == [block |-> b, off |-> off]

CharIn(off, text, old, o) ==
  IF o - off + 1 \in 1 .. Len(text) THEN text[o - off + 1] ELSE old

LEMMA CopiedMem ==
  ASSUME NEW data \in LogMem, NEW b \in Blocks, NEW off \in Nat,
         NEW text \in Seq(Printables)
  PROVE  /\ CopiedTo(data, At(b, off), text) \in LogMem
         /\ \A o \in 0 .. LogQtt - 1 :
              CopiedTo(data, At(b, off), text)[b][o] = CharIn(off, text, data[b][o], o)
<1> DEFINE new == [o \in 0 .. LogQtt - 1 |-> CharIn(off, text, data[b][o], o)]
<1>1. /\ DOMAIN text = 1 .. Len(text) /\ Len(text) \in Nat
      /\ \A i \in 1 .. Len(text) : text[i] \in Printables
  OBVIOUS
<1>2. data[b] \in [0 .. LogQtt - 1 -> Printables]
  BY DEF LogMem, Mem
<1>3. CopiedTo(data, At(b, off), text) = [data EXCEPT ![b] = new]
  BY <1>1, <1>2 DEF CopiedTo, CharIn, At
<1>4. \A o \in 0 .. LogQtt - 1 : CharIn(off, text, data[b][o], o) \in Printables
  BY <1>1, <1>2 DEF CharIn
<1>5. new \in [0 .. LogQtt - 1 -> Printables]
  BY <1>4
<1>6. \A o \in 0 .. LogQtt - 1 : new[o] = CharIn(off, text, data[b][o], o)
  OBVIOUS
<1> HIDE DEF new
<1>7. [data EXCEPT ![b] = new] \in LogMem /\ [data EXCEPT ![b] = new][b] = new
  BY <1>5 DEF LogMem, Mem
<1> QED  BY <1>3, <1>6, <1>7

(* What is printed of a block: the text before the first NUL. *)
LEMMA PrintedIs ==
  ASSUME NEW chars \in [0 .. LogQtt - 1 -> Printables], NEW text \in Seq(Chars),
         Len(text) < LogQtt, chars[Len(text)] = Nul,
         \A o \in 0 .. Len(text) - 1 : chars[o] = text[o + 1]
  PROVE  Printed(chars) = text
<1> DEFINE n == Len(text)
           ends == {o \in DOMAIN chars : chars[o] = Nul}
<1>1. n \in Nat /\ n \in 0 .. LogQtt - 1 /\ LogQtt \in Nat
  BY QttAssumption
<1>2. n \in ends
  BY <1>1
<1>3. \A o \in ends : o \in Nat /\ n <= o
  <2> SUFFICES ASSUME NEW o \in ends, o < n PROVE FALSE
    BY <1>1
  <2>1. o \in 0 .. LogQtt - 1 /\ chars[o] = Nul
    OBVIOUS
  <2>2. chars[o] = text[o + 1] /\ o + 1 \in 1 .. n
    BY <1>1, <2>1
  <2>3. text[o + 1] \in Chars
    BY <2>2
  <2> QED  BY <2>1, <2>2, <2>3, TextAssumption
<1>4. \A x \in ends : (\A y \in ends : x <= y) => x = n
  BY <1>1, <1>2, <1>3
<1> HIDE DEF ends
<1>5. Min(ends) = n
  BY <1>2, <1>3, <1>4 DEF Min
<1>6. Printed(chars) = [i \in 1 .. n |-> chars[i - 1]]
  <2>1. ends # {}
    BY <1>2
  <2> QED  BY <1>5, <2>1 DEF Printed, ends
<1>7. \A i \in 1 .. n : chars[i - 1] = text[i]
  BY <1>1
<1>8. text = [i \in 1 .. n |-> text[i]]
  OBVIOUS
<1> QED  BY <1>6, <1>7, <1>8

(* The parts of a line. *)
LevelText(lg, level) == <<Blank>> \o LevelStr(lg, level) \o <<Blank>>

LEMMA Letters == {Blank, "0", Newline} \subseteq Chars /\ Nul \notin Chars
BY TextAssumption

LEMMA LevelTextIs ==
  ASSUME NEW lg, NEW level \in {LF_DEBUG, LF_FATAL}
  PROVE  /\ LevelStr(lg, level) \in Seq(Chars) /\ LevelText(lg, level) \in Seq(Chars)
         /\ Len(LevelText(lg, level)) <= ColoredLevelStrSize + 2
<1> DEFINE n == IF lg.is_colored THEN ColoredLevelStrSize ELSE LevelStrSize
           str == level_strs[level + 1]
<1>1. n \in Nat /\ n <= ColoredLevelStrSize
  BY DEF ColoredLevelStrSize, LevelStrSize
<1>2. str \in Chars
  <2>1. level + 1 \in DOMAIN level_strs
    BY DEF LF_DEBUG, LF_FATAL, level_strs
  <2>2. str \in ToSet(level_strs)
    BY <2>1 DEF ToSet
  <2> QED  BY <2>2, TextAssumption
<1>3. LevelStr(lg, level) = [i \in 1 .. n |-> str]
  BY DEF LevelStr
<1> HIDE DEF n, str
<1>4. LevelStr(lg, level) \in Seq(Chars) /\ Len(LevelStr(lg, level)) = n
  BY <1>1, <1>2, <1>3
<1>5. <<Blank>> \in Seq(Chars) /\ Len(<<Blank>>) = 1
  BY Letters
<1>6. LevelText(lg, level) \in Seq(Chars) /\ Len(LevelText(lg, level)) = 1 + n + 1
  BY <1>1, <1>4, <1>5 DEF LevelText
<1> QED  BY <1>1, <1>4, <1>6 DEF ColoredLevelStrSize

LEMMA TimeTextIs ==
  ASSUME NEW lg, NEW told, LoggerOK(lg, told), settings \in LoggerSettings
  PROVE  /\ TimeStr(lg) \in Seq(Chars)
         /\ Len(TimeStr(lg)) + ColoredLevelStrSize + 2 <= LogQtt
<1>1. lg.time = settings.time
  BY DEF LoggerOK, Loggers
<1>2. lg.buf.block_size = LogQtt
  BY DEF LoggerOK, OneBlock
<1>3. TimeStr(lg) = TimeText(settings.time, LogQtt)
  BY <1>1, <1>2 DEF TimeStr
<1>4. NoTime \in Seq(Chars) /\ settings.time \in Seq(Chars)
  BY Letters, TextAssumption DEF NoTime
<1> QED  BY <1>3, <1>4, PrefixAssumption DEF TimeText

(* Time, level and message, written one behind the other, are the line.     *)
LineMem(data, b, time, lvl, msg) ==
  CopiedTo(CopiedTo(CopiedTo(data, At(b, 0), time), At(b, Len(time)), lvl),
           At(b, Len(time) + Len(lvl)), msg \o <<Newline, Nul>>)

LEMMA TextsPrintable ==
  ASSUME NEW text \in Seq(Chars)
  PROVE  text \in Seq(Printables)
BY DEF Printables

LEMMA LinePrinted ==
  ASSUME NEW data \in LogMem, NEW b \in Blocks, NEW time \in Seq(Chars),
         NEW lvl \in Seq(Chars), NEW msg \in Seq(Chars),
         Len(time) + Len(lvl) + Len(msg) + 1 < LogQtt
  PROVE  /\ LineMem(data, b, time, lvl, msg) \in LogMem
         /\ Printed(LineMem(data, b, time, lvl, msg)[b]) \in Seq(Chars)
         /\ Printed(LineMem(data, b, time, lvl, msg)[b])
              = (time \o lvl) \o (msg \o <<Newline>>)
<1> DEFINE t == Len(time)
           v == Len(lvl)
           m == Len(msg)
           end == msg \o <<Newline, Nul>>
           d1 == CopiedTo(data, At(b, 0), time)
           d2 == CopiedTo(d1, At(b, t), lvl)
           d3 == CopiedTo(d2, At(b, t + v), end)
           line == (time \o lvl) \o (msg \o <<Newline>>)
<1>1. t \in Nat /\ v \in Nat /\ m \in Nat /\ LogQtt \in Nat /\ t + v + m + 1 < LogQtt
  BY QttAssumption
<1>2. time \in Seq(Printables) /\ lvl \in Seq(Printables) /\ t + v \in Nat
  BY <1>1, TextsPrintable
<1>3. /\ end \in Seq(Printables) /\ Len(end) = m + 2
      /\ \A i \in 1 .. m : end[i] = msg[i]
      /\ end[m + 1] = Newline /\ end[m + 2] = Nul
  <2>1. <<Newline, Nul>> \in Seq(Printables) /\ Len(<<Newline, Nul>>) = 2
        /\ <<Newline, Nul>>[1] = Newline /\ <<Newline, Nul>>[2] = Nul
    BY Letters DEF Printables
  <2> DEFINE two == <<Newline, Nul>>
  <2> HIDE DEF two
  <2>2. msg \in Seq(Printables) /\ two \in Seq(Printables) /\ Len(two) = 2
        /\ two[1] = Newline /\ two[2] = Nul
    BY <2>1, TextsPrintable DEF two
  <2>3. /\ msg \o two \in Seq(Printables) /\ Len(msg \o two) = m + 2
        /\ \A i \in 1 .. m : (msg \o two)[i] = msg[i]
        /\ (msg \o two)[m + 1] = two[1] /\ (msg \o two)[m + 2] = two[2]
    <3>1. IsCat(msg \o two, msg, two, m, 2, Printables)
      BY <2>2 DEF IsCat, Cat
    <3>2. Appended(msg \o two, msg, two, m, 2, Printables)
      BY <3>1, CatIs
    <3> QED  BY <3>2 DEF Appended
  <2> QED  BY <2>2, <2>3 DEF two
<1>4. /\ line \in Seq(Chars) /\ Len(line) = t + v + m + 1
      /\ \A i \in 1 .. t : line[i] = time[i]
      /\ \A i \in 1 .. v : line[t + i] = lvl[i]
      /\ \A i \in 1 .. m : line[t + v + i] = msg[i]
      /\ line[t + v + m + 1] = Newline
  <2> DEFINE one == <<Newline>>
             front == time \o lvl
             back == msg \o one
  <2>1. one \in Seq(Chars) /\ Len(one) = 1 /\ one[1] = Newline
    BY Letters
  <2> HIDE DEF one
  <2>2. /\ back \in Seq(Chars) /\ Len(back) = m + 1 /\ back[m + 1] = Newline
        /\ \A i \in 1 .. m : back[i] = msg[i]
    <3>1. IsCat(back, msg, one, m, 1, Chars)
      BY <2>1 DEF IsCat, Cat
    <3>2. Appended(back, msg, one, m, 1, Chars)
      BY <3>1, CatIs
    <3> HIDE DEF back
    <3> QED  BY <2>1, <3>2 DEF Appended
  <2>3. /\ front \in Seq(Chars) /\ Len(front) = t + v
        /\ \A i \in 1 .. t : front[i] = time[i]
        /\ \A i \in 1 .. v : front[t + i] = lvl[i]
    <3>1. IsCat(front, time, lvl, t, v, Chars)
      BY DEF IsCat, Cat
    <3>2. Appended(front, time, lvl, t, v, Chars)
      BY <3>1, CatIs
    <3> HIDE DEF front
    <3> QED  BY <3>2 DEF Appended
  <2> HIDE DEF front, back
  <2>4. /\ front \o back \in Seq(Chars) /\ Len(front \o back) = (t + v) + (m + 1)
        /\ \A i \in 1 .. t + v : (front \o back)[i] = front[i]
        /\ \A i \in 1 .. m + 1 : (front \o back)[t + v + i] = back[i]
    <3>1. IsCat(front \o back, front, back, t + v, m + 1, Chars)
      BY <2>2, <2>3 DEF IsCat, Cat
    <3>2. Appended(front \o back, front, back, t + v, m + 1, Chars)
      BY <3>1, CatIs
    <3> QED  BY <3>2 DEF Appended
  <2>5. line = front \o back
    BY DEF one, front, back
  <2> HIDE DEF line
  <2>6. \A i \in 1 .. t : i \in 1 .. t + v
    BY <1>1
  <2>7. \A i \in 1 .. v : t + i \in 1 .. t + v
    BY <1>1
  <2>8. \A i \in 1 .. m : i \in 1 .. m + 1
    BY <1>1
  <2> QED  BY <1>1, <2>2, <2>3, <2>4, <2>5, <2>6, <2>7, <2>8
<1> HIDE DEF end, line
<1>5. d1 \in LogMem
      /\ \A o \in 0 .. LogQtt - 1 : d1[b][o] = CharIn(0, time, data[b][o], o)
  BY <1>2, CopiedMem
<1> HIDE DEF d1
<1>6. d2 \in LogMem
      /\ \A o \in 0 .. LogQtt - 1 : d2[b][o] = CharIn(t, lvl, d1[b][o], o)
  BY <1>1, <1>2, <1>5, CopiedMem
<1> HIDE DEF d2
<1>7. d3 \in LogMem
      /\ \A o \in 0 .. LogQtt - 1 : d3[b][o] = CharIn(t + v, end, d2[b][o], o)
  BY <1>2, <1>3, <1>6, CopiedMem
<1> HIDE DEF d3
<1>8. \A o \in 0 .. t - 1 : d3[b][o] = line[o + 1]
  <2> SUFFICES ASSUME NEW o \in 0 .. t - 1 PROVE d3[b][o] = line[o + 1]
    OBVIOUS
  <2>1. o \in 0 .. LogQtt - 1 /\ o - 0 + 1 \in 1 .. t /\ o - 0 + 1 = o + 1
        /\ o - t + 1 \notin 1 .. v /\ o - (t + v) + 1 \notin 1 .. m + 2
    BY <1>1
  <2>2. d1[b][o] = time[o + 1]
    BY <1>5, <2>1 DEF CharIn
  <2>3. d2[b][o] = d1[b][o]
    BY <1>6, <2>1 DEF CharIn
  <2>4. d3[b][o] = d2[b][o]
    BY <1>3, <1>7, <2>1 DEF CharIn
  <2> QED  BY <1>4, <2>1, <2>2, <2>3, <2>4
<1>9. \A o \in t .. t + v - 1 : d3[b][o] = line[o + 1]
  <2> SUFFICES ASSUME NEW o \in t .. t + v - 1 PROVE d3[b][o] = line[o + 1]
    OBVIOUS
  <2>1. o \in 0 .. LogQtt - 1 /\ o - t + 1 \in 1 .. v
        /\ o - (t + v) + 1 \notin 1 .. m + 2 /\ o + 1 = t + (o - t + 1)
    BY <1>1
  <2>2. d2[b][o] = lvl[o - t + 1]
    BY <1>6, <2>1 DEF CharIn
  <2>3. d3[b][o] = d2[b][o]
    BY <1>3, <1>7, <2>1 DEF CharIn
  <2>4. line[t + (o - t + 1)] = lvl[o - t + 1]
    BY <1>4, <2>1
  <2> QED  BY <2>1, <2>2, <2>3, <2>4
<1>10. \A o \in t + v .. t + v + m + 1 : d3[b][o] = end[o - (t + v) + 1]
  <2> SUFFICES ASSUME NEW o \in t + v .. t + v + m + 1
               PROVE  d3[b][o] = end[o - (t + v) + 1]
    OBVIOUS
  <2>1. o \in 0 .. LogQtt - 1 /\ o - (t + v) + 1 \in 1 .. m + 2
    BY <1>1
  <2> QED  BY <1>3, <1>7, <2>1 DEF CharIn
<1>11. \A o \in t + v .. t + v + m : d3[b][o] = line[o + 1]
  <2> SUFFICES ASSUME NEW o \in t + v .. t + v + m PROVE d3[b][o] = line[o + 1]
    OBVIOUS
  <2>1. d3[b][o] = end[o - (t + v) + 1] /\ o + 1 = t + v + (o - (t + v) + 1)
    BY <1>1, <1>10
  <2>2. CASE o = t + v + m
    BY <1>1, <1>3, <1>4, <2>1, <2>2
  <2>3. CASE o # t + v + m
    <3>1. o - (t + v) + 1 \in 1 .. m
      BY <1>1, <2>3
    <3> QED  BY <1>3, <1>4, <2>1, <3>1
  <2> QED  BY <2>2, <2>3
<1>12. d3[b][t + v + m + 1] = Nul
  <2>1. t + v + m + 1 \in t + v .. t + v + m + 1 /\ t + v + m + 1 - (t + v) + 1 = m + 2
    BY <1>1
  <2> QED  BY <1>3, <1>10, <2>1
<1>13. \A o \in 0 .. Len(line) - 1 : d3[b][o] = line[o + 1]
  <2> SUFFICES ASSUME NEW o \in 0 .. Len(line) - 1 PROVE d3[b][o] = line[o + 1]
    OBVIOUS
  <2>1. o \in 0 .. t - 1 \/ o \in t .. t + v - 1 \/ o \in t + v .. t + v + m
    BY <1>1, <1>4
  <2> QED  BY <1>8, <1>9, <1>11, <2>1
<1>14. d3[b] \in [0 .. LogQtt - 1 -> Printables]
  BY <1>7 DEF LogMem, Mem
<1>15. Len(line) < LogQtt /\ d3[b][Len(line)] = Nul
  BY <1>1, <1>4, <1>12
<1>16. Printed(d3[b]) = line
  BY <1>4, <1>13, <1>14, <1>15, PrintedIs
<1>17. LineMem(data, b, time, lvl, msg) = d3
  BY DEF LineMem, d1, d2, d3, end
<1> QED  BY <1>4, <1>7, <1>16, <1>17 DEF line

(* The line as LinesWhole states it. *)
LEMMA LineRegrouped ==
  ASSUME NEW time \in Seq(Chars), NEW sp \in Seq(Chars), NEW str \in Seq(Chars),
         NEW msg \in Seq(Chars), NEW nl \in Seq(Chars)
  PROVE  Cat(Cat(time, Cat(Cat(sp, str), sp)), Cat(msg, nl))
           = Cat(Cat(Cat(Cat(Cat(time, sp), str), sp), msg), nl)
<1> DEFINE front == Cat(Cat(Cat(time, sp), str), sp)
<1>1. \A s, t \in Seq(Chars) : Cat(s, t) \in Seq(Chars)
  BY DEF Cat
<1>2. \A s, t, u \in Seq(Chars) : Cat(Cat(s, t), u) = Cat(s, Cat(t, u))
  BY CatAssociative
<1>3. Cat(time, Cat(Cat(sp, str), sp)) = front
  BY <1>1, <1>2
<1>4. front \in Seq(Chars)
  BY <1>1
<1>5. Cat(front, Cat(msg, nl)) = Cat(Cat(front, msg), nl)
  BY <1>2, <1>4
<1> QED  BY <1>3, <1>5

LEMMA LineIs ==
  ASSUME NEW lg, NEW level \in {LF_DEBUG, LF_FATAL}, NEW msg \in Seq(Chars),
         TimeStr(lg) \in Seq(Chars)
  PROVE  LineOf(lg, [level |-> level, msg |-> msg])
           = (TimeStr(lg) \o LevelText(lg, level)) \o (msg \o <<Newline>>)
<1> DEFINE time == TimeStr(lg)
           str == LevelStr(lg, level)
           sp == <<Blank>>
           nl == <<Newline>>
<1>1. sp \in Seq(Chars) /\ nl \in Seq(Chars) /\ str \in Seq(Chars)
  BY Letters, LevelTextIs
<1>2. LevelText(lg, level) = Cat(Cat(sp, str), sp)
  BY DEF LevelText, Cat
<1>3. LineOf(lg, [level |-> level, msg |-> msg])
        = Cat(Cat(Cat(Cat(Cat(time, sp), str), sp), msg), nl)
  BY DEF LineOf, Cat
<1>4. time \in Seq(Chars)
  OBVIOUS
<1> HIDE DEF time, str, sp, nl
<1>5. Cat(Cat(time, Cat(Cat(sp, str), sp)), Cat(msg, nl))
        = Cat(Cat(Cat(Cat(Cat(time, sp), str), sp), msg), nl)
  BY <1>1, <1>4, LineRegrouped
<1>6. LineOf(lg, [level |-> level, msg |-> msg])
        = Cat(Cat(time, LevelText(lg, level)), Cat(msg, nl))
  BY <1>2, <1>3, <1>5
<1> QED  BY <1>6 DEF time, nl, Cat

(* lf_log of a message that is printed. *)
LEMMA LogLineKeeps ==
  ASSUME settings \in LoggerSettings, NEW lg, NEW told, LoggerOK(lg, told),
         NEW level \in {LF_DEBUG, LF_FATAL}, NEW msg \in Seq(Chars),
         LogLine(lg, level, msg) # Null
  PROVE  LoggerOK(LogLine(lg, level, msg), [level |-> level, msg |-> msg])
<1> DEFINE time    == TimeStr(lg)
           lvl     == LevelText(lg, level)
           timed   == Alloced(ResetString(lg.buf), Len(time))
           leveled == Alloced(timed, Len(lvl))
           full    == Alloced(leveled, Len(msg) + 1)
           b       == lg.buf.head_block
           data    == LineMem(lg.data, b, time, lvl, msg)
           new     == [lg EXCEPT !.buf = full, !.data = data, !.line = Printed(data[b])]
<1>1. OneBlock(lg.buf) /\ lg.data \in LogMem /\ lg \in Loggers
  BY DEF LoggerOK, Loggers
<1>2. /\ time \in Seq(Chars) /\ lvl \in Seq(Chars)
      /\ Len(time) + Len(lvl) <= LogQtt /\ Len(time) <= LogQtt
      /\ Len(time) \in Nat /\ Len(lvl) \in Nat /\ Len(msg) \in Nat
  <2>1. lg.time = settings.time /\ lg.buf.block_size = LogQtt
    BY DEF LoggerOK, OneBlock, Loggers
  <2>2. time \in Seq(Chars) /\ Len(time) + ColoredLevelStrSize + 2 <= LogQtt
    BY <2>1, TimeTextIs
  <2>3. lvl \in Seq(Chars) /\ Len(lvl) <= ColoredLevelStrSize + 2
    BY LevelTextIs
  <2>4. ColoredLevelStrSize \in Nat
    BY DEF ColoredLevelStrSize
  <2> HIDE DEF time, lvl
  <2>5. Len(time) \in Nat /\ Len(lvl) \in Nat /\ Len(msg) \in Nat
    BY <2>2, <2>3
  <2> QED  BY <2>2, <2>3, <2>4, <2>5, QttAssumption
<1> HIDE DEF time, lvl
<1>3. BufAt(ResetString(lg.buf), b, 0)
  BY <1>1, ResetBuf DEF ResetString
<1>4. BufAt(timed, b, Len(time))
  BY <1>2, <1>3, AllocedBuf
<1> HIDE DEF timed
<1>5. BufAt(leveled, b, Len(time) + Len(lvl))
  BY <1>2, <1>4, AllocedBuf
<1> HIDE DEF leveled
<1>6. /\ b \in Blocks /\ leveled.head_block = b /\ leveled.tail_block = b
      /\ leveled.block[b].size = LogQtt
      /\ leveled.block[b].right_offset = Len(time) + Len(lvl)
  BY <1>5, OnlyBlock DEF BufAt
<1>7. TailPtr(leveled, Len(lvl)) = At(b, Len(time))
  BY <1>2, <1>6 DEF TailPtr, At
<1>8. /\ At(b, 0) = [block |-> b, off |-> 0]
      /\ At(b, Len(time) + Len(lvl)) = [block |-> b, off |-> Len(time) + Len(lvl)]
  BY DEF At
<1>9. LogLine(lg, level, msg) =
        IF ~Fits(Len(msg), LogQtt - (Len(time) + Len(lvl))) THEN Null ELSE new
  BY <1>6, <1>7, <1>8
  DEF LogLine, LineMem, LevelText, time, lvl, timed, leveled
<1>10. LogLine(lg, level, msg) = new /\ Fits(Len(msg), LogQtt - (Len(time) + Len(lvl)))
  BY <1>9
<1>11. Len(time) + Len(lvl) + Len(msg) + 1 < LogQtt
       /\ (Len(time) + Len(lvl)) + (Len(msg) + 1) <= LogQtt /\ Len(msg) + 1 \in Nat
  BY <1>2, <1>10, QttAssumption DEF Fits
<1>12. BufAt(full, b, (Len(time) + Len(lvl)) + (Len(msg) + 1))
  BY <1>5, <1>11, AllocedBuf
<1>13. /\ data \in LogMem /\ Printed(data[b]) \in Seq(Chars)
       /\ Printed(data[b]) = (time \o lvl) \o (msg \o <<Newline>>)
  BY <1>1, <1>2, <1>6, <1>11, LinePrinted
<1> DEFINE line == Printed(data[b])
<1> HIDE DEF full, data, line
<1>14. OneBlock(full) /\ full \in Arenas
  BY <1>12 DEF BufAt, OneBlock, ArenaOK
<1>15. /\ new \in Loggers /\ new.buf = full /\ new.line = line
       /\ new.time = lg.time /\ new.is_colored = lg.is_colored
  BY <1>1, <1>13, <1>14 DEF Loggers, line
<1> HIDE DEF new
<1>16. TimeStr(new) = time /\ LevelText(new, level) = lvl
  BY <1>1, <1>14, <1>15 DEF TimeStr, OneBlock, LevelText, LevelStr, time, lvl
<1>17. LineOf(new, [level |-> level, msg |-> msg]) = (time \o lvl) \o (msg \o <<Newline>>)
  BY <1>2, <1>16, LineIs
<1>18. new.line = LineOf(new, [level |-> level, msg |-> msg])
  BY <1>13, <1>15, <1>17 DEF line
<1>19. LoggerOK(new, [level |-> level, msg |-> msg])
  BY <1>14, <1>15, <1>18 DEF LoggerOK
<1> QED  BY <1>10, <1>19

ToldNext(told, level, msg) ==
  IF level < settings.min_level THEN told ELSE [level |-> level, msg |-> msg]

LEMMA LogKeeps ==
  ASSUME settings \in LoggerSettings, NEW lg, NEW told, LoggerOK(lg, told),
         NEW level \in {LF_DEBUG, LF_FATAL}, NEW msg \in Seq(Chars),
         Log(lg, level, msg) # Null
  PROVE  LoggerOK(Log(lg, level, msg), ToldNext(told, level, msg))
<1>1. lg.min_level = settings.min_level
  BY DEF LoggerOK, Loggers
<1>2. CASE lg = Null
  BY <1>2 DEF Log
<1>3. CASE lg # Null /\ level < settings.min_level
  BY <1>1, <1>3 DEF Log, ToldNext
<1>4. CASE lg # Null /\ ~(level < settings.min_level)
  <2>1. Log(lg, level, msg) = LogLine(lg, level, msg)
    BY <1>1, <1>4 DEF Log
  <2>2. LoggerOK(Log(lg, level, msg), [level |-> level, msg |-> msg])
    BY <2>1, LogLineKeeps
  <2> QED  BY <1>4, <2>2 DEF ToldNext
<1> QED  BY <1>2, <1>3, <1>4

(* The invariant holds at the start and every step keeps it. *)
LEMMA InitLogs == Init => LoggerIInv
BY DEF Init, LoggerIInv

LEMMA LogBothKeeps ==
  ASSUME LoggerIInv, LogBoth, UNCHANGED settings
  PROVE  LoggerIInv'
<1> DEFINE one == Log(logger, LF_DEBUG, PassMsg)
           told == ToldNext(logged, LF_DEBUG, PassMsg)
<1>1. /\ logger' = Log(one, LF_DEBUG, PassMsg) /\ logged' = told
      /\ settings' = settings /\ settings \in LoggerSettings
      /\ PassMsg \in Seq(Chars)
  BY TextAssumption DEF LogBoth, ToldToLog, ToldNext, LoggerIInv
<1>2. ToldNext(told, LF_DEBUG, PassMsg) = told
  BY DEF ToldNext
<1>3. CASE logger' = Null
  BY <1>1, <1>3 DEF LoggerIInv
<1>4. CASE logger' # Null
  <2> HIDE DEF one, told
  <2>1. one # Null
    BY <1>1, <1>4 DEF Log
  <2>2. logger # Null
    BY <2>1 DEF Log, one
  <2>3. LoggerOK(logger, logged)
    BY <2>2 DEF LoggerIInv
  <2>4. LoggerOK(one, told)
    BY <1>1, <2>1, <2>3, LogKeeps DEF one, told
  <2>5. LoggerOK(Log(one, LF_DEBUG, PassMsg), told)
    BY <1>1, <1>2, <1>4, <2>4, LogKeeps
  <2>6. LoggerOK(logger, logged)'
    BY <1>1, <2>5 DEF LoggerOK, Loggers, LineOf, TimeStr, LevelStr
  <2> QED  BY <1>1, <2>6 DEF LoggerIInv
<1> QED  BY <1>3, <1>4

LEMMA ClientLogsKeeps ==
  ASSUME LoggerIInv, ClientLogs
  PROVE  LoggerIInv'
<1>1. PICK msg \in ClientMsgs, level \in {LF_DEBUG, LF_FATAL} :
        logger' = Log(logger, level, msg) /\ ToldToLog(level, msg)
  BY DEF ClientLogs
<1>2. /\ logged' = ToldNext(logged, level, msg) /\ msg \in Seq(Chars)
      /\ settings' = settings /\ settings \in LoggerSettings
  BY <1>1, TextAssumption DEF ClientLogs, given, ToldToLog, ToldNext, LoggerIInv
<1>3. CASE logger' = Null
  BY <1>2, <1>3 DEF LoggerIInv
<1>4. CASE logger' # Null
  <2>1. logger # Null
    BY <1>1, <1>4 DEF Log
  <2>2. LoggerOK(logger, logged)
    BY <2>1 DEF LoggerIInv
  <2>3. LoggerOK(Log(logger, level, msg), ToldNext(logged, level, msg))
    BY <1>1, <1>2, <1>4, <2>2, LogKeeps
  <2>4. LoggerOK(logger, logged)'
    BY <1>1, <1>2, <2>3 DEF LoggerOK, Loggers, LineOf, TimeStr, LevelStr
  <2> QED  BY <1>2, <2>4 DEF LoggerIInv
<1> QED  BY <1>3, <1>4

LEMMA InitPipelineLogs ==
  ASSUME LoggerIInv, Blocks # {}, InitPassPipeline
  PROVE  LoggerIInv'
<1>1. settings' = settings /\ logged' = logged /\ settings \in LoggerSettings
  BY DEF InitPassPipeline, given, LoggerIInv
<1>2. CASE logger' = logger
  BY <1>1, <1>2 DEF LoggerIInv, LoggerOK, Loggers, LineOf, TimeStr, LevelStr
<1>3. CASE logger' = InitLogger(settings, SomeBlock, LogQtt)
  <2> DEFINE a == InitArena(SomeBlock, LogQtt, "left")
             lg == InitLogger(settings, SomeBlock, LogQtt)
  <2>1. SomeBlock \in Blocks
    BY DEF SomeBlock, Some
  <2>2. OneBlock(a) /\ a \in Arenas
    BY <2>1, InitOneBlock DEF OneBlock, ArenaOK
  <2>3. Clear(LogQtt) \in LogMem
    BY ClearMem, QttAssumption DEF LogMem, Printables
  <2>4. <<>> \in Seq(Chars)
    OBVIOUS
  <2> HIDE DEF a
  <2>5. lg \in Loggers /\ lg.buf = a /\ lg.line = <<>>
    BY <2>2, <2>3, <2>4 DEF InitLogger, InitString, Loggers, a
  <2> HIDE DEF lg
  <2>6. LoggerOK(lg, logged)
    BY <2>2, <2>5 DEF LoggerOK
  <2>7. LoggerOK(logger, logged)'
    BY <1>1, <1>3, <2>6 DEF LoggerOK, Loggers, LineOf, TimeStr, LevelStr, lg
  <2> QED  BY <1>1, <2>7 DEF LoggerIInv
<1> QED  BY <1>2, <1>3 DEF InitPassPipeline

LEMMA NextLogs ==
  ASSUME LoggerIInv, Blocks # {}, [Next]_vars
  PROVE  LoggerIInv'
<1>1. ASSUME UNCHANGED <<settings, logger, logged>>
      PROVE  LoggerIInv'
  BY <1>1 DEF LoggerIInv, LoggerOK, Loggers, LineOf, TimeStr, LevelStr
<1>2. CASE InitPassPipeline
  BY <1>2, InitPipelineLogs
<1>3. CASE ClientPushes \/ Process \/ ClientPushesMore
  BY <1>1, <1>3 DEF ClientPushes, Process, ClientPushesMore, given, logs
<1>4. CASE ClientLogs
  BY <1>4, ClientLogsKeeps
<1>5. CASE BuildValSchedule
  <2>1. CASE entrypoint = Null
    BY <1>1, <1>5, <2>1 DEF BuildValSchedule, given, logs
  <2>2. CASE entrypoint # Null
    <3>1. LogBoth /\ UNCHANGED settings
      BY <1>5, <2>2 DEF BuildValSchedule, given
    <3> QED  BY <3>1, LogBothKeeps
  <2> QED  BY <2>1, <2>2
<1>6. CASE PartitionFlows
  <2>1. LogBoth /\ UNCHANGED settings
    BY <1>6 DEF PartitionFlows, given
  <2> QED  BY <2>1, LogBothKeeps
<1>7. CASE UNCHANGED vars
  BY <1>1, <1>7 DEF vars, given, logs
<1> QED  BY <1>2, <1>3, <1>4, <1>5, <1>6, <1>7 DEF Next

LEMMA LoggerInvariant == Spec => [](Blocks # {} /\ LoggerIInv)
<1>1. Init => Blocks # {} /\ LoggerIInv
  BY InitLogs DEF Init
<1>2. Blocks # {} /\ LoggerIInv /\ [Next]_vars => (Blocks # {} /\ LoggerIInv)'
  BY NextLogs
<1> QED  BY <1>1, <1>2, PTL DEF Spec

(* Every line the logger prints is the time, the level and the message it   *)
(* was told last, with nothing of an earlier line, and its buffer never     *)
(* takes a second block (logger.c:43-97): for any settings whose prefix     *)
(* fits a block, any messages, and any order of passes and levels.          *)
THEOREM PipelineLinesWhole == Spec => []LinesWhole
<1>1. LoggerIInv => LinesWhole
  BY DEF LoggerIInv, LinesWhole, LoggerOK, LineOf, OneBlock
<1> QED  BY <1>1, LoggerInvariant, PTL
-----------------------------------------------------------------------------
(* How often a pass was applied, and before the last partition. *)
Built(fns) == Count("build_val_schedule", fns)

UpToPartition(fns) ==
  SubSeq(fns, 1, SelectLastInSeq(fns, LAMBDA fn : fn = "partition_flows"))

LEMMA BuiltMore ==
  ASSUME NEW fns \in Seq(ApplyFns), NEW fn \in ApplyFns
  PROVE  /\ Built(fns) \in Nat
         /\ Built(Append(fns, fn)) =
              IF fn = "build_val_schedule" THEN Built(fns) + 1 ELSE Built(fns)
<1> DEFINE more == Append(fns, fn)
           n == Len(fns)
           S == {i \in DOMAIN fns : fns[i] = "build_val_schedule"}
           M == {i \in DOMAIN more : more[i] = "build_val_schedule"}
<1>1. /\ n \in Nat /\ DOMAIN fns = 1 .. n /\ DOMAIN more = 1 .. n + 1
      /\ more[n + 1] = fn /\ \A i \in 1 .. n : more[i] = fns[i]
  BY AppendProperties, LenProperties
<1>2. IsFiniteSet(S)
  <2>1. IsFiniteSet(1 .. n)
    BY <1>1, FS_Interval
  <2>2. S \in SUBSET (1 .. n)
    BY <1>1
  <2> HIDE DEF S, n
  <2> QED  BY <2>1, <2>2, FS_Subset
<1>3. n + 1 \notin S
  BY <1>1
<1>4. M = IF fn = "build_val_schedule" THEN S \cup {n + 1} ELSE S
  <2> HIDE DEF more, n
  <2>1. \A i : i \in 1 .. n + 1 <=> i \in 1 .. n \/ i = n + 1
    BY <1>1
  <2>2. ~(n + 1 \in 1 .. n)
    BY <1>1
  <2> QED  BY <1>1, <2>1, <2>2
<1>5. Built(fns) = Cardinality(S) /\ Built(more) = Cardinality(M)
  BY DEF Built, Count
<1> HIDE DEF S, M, more, n
<1>6. Cardinality(S) \in Nat
  BY <1>2, FS_CardinalityType
<1>7. Cardinality(S \cup {n + 1}) = Cardinality(S) + 1
  BY <1>2, <1>3, FS_AddElement
<1>8. Built(more) = IF fn = "build_val_schedule" THEN Built(fns) + 1 ELSE Built(fns)
  BY <1>4, <1>5, <1>7
<1> QED  BY <1>5, <1>6, <1>8 DEF more

LEMMA GreatestNumber ==
  ASSUME NEW n \in Nat, NEW S \in SUBSET (1 .. n), S # {}
  PROVE  \E x \in S : \A i \in S : x >= i
<1> DEFINE R == {r \in 0 .. n : n - r \in S}
<1>0. R \in SUBSET Nat
  OBVIOUS
<1>1. R # {}
  <2>1. PICK i \in S : TRUE
    OBVIOUS
  <2>2. n - i \in 0 .. n /\ n - (n - i) = i
    BY <2>1
  <2>3. n - i \in R
    BY <2>2
  <2> HIDE DEF R
  <2> QED  BY <2>3
<1>2. PICK r \in R : \A q \in R : r <= q
  <2> HIDE DEF R
  <2> QED  BY <1>0, <1>1, LeastNumber
<1>3. \A i \in S : n - i \in R
  OBVIOUS
<1>4. \A i \in S : n - r >= i
  BY <1>2, <1>3
<1> QED  BY <1>2, <1>4

LEMMA UpToPartitionMore ==
  ASSUME NEW fns \in Seq(ApplyFns), NEW fn \in ApplyFns
  PROVE  UpToPartition(Append(fns, fn)) =
           IF fn = "partition_flows" THEN Append(fns, fn) ELSE UpToPartition(fns)
<1> DEFINE more == Append(fns, fn)
           n == Len(fns)
           S == {i \in 1 .. n : fns[i] = "partition_flows"}
           M == {i \in 1 .. n + 1 : more[i] = "partition_flows"}
           last(I) == IF I # {} THEN Max(I) ELSE 0
<1>1. /\ n \in Nat /\ more \in Seq(ApplyFns) /\ Len(more) = n + 1
      /\ more[n + 1] = fn /\ \A i \in 1 .. n : more[i] = fns[i]
  BY AppendProperties
<1>2. /\ UpToPartition(fns) = SubSeq(fns, 1, last(S))
      /\ UpToPartition(more) = SubSeq(more, 1, last(M))
  BY <1>1 DEF UpToPartition, SelectLastInSeq
<1> HIDE DEF more, n
<1>3. CASE fn = "partition_flows"
  <2>1. n + 1 \in M /\ \A i \in M : i <= n + 1
    BY <1>1, <1>3
  <2>2. Max(M) \in M /\ \A i \in M : Max(M) >= i
    BY <2>1 DEF Max
  <2>3. Max(M) = n + 1
    <3> DEFINE x == Max(M)
    <3>1. x \in M /\ x >= n + 1 /\ x <= n + 1
      BY <2>1, <2>2
    <3>2. M \in SUBSET Nat
      BY <1>1
    <3>3. x \in Nat
      BY <3>1, <3>2
    <3> HIDE DEF x, M
    <3>4. x = n + 1
      BY <1>1, <3>1, <3>3
    <3> QED  BY <3>4 DEF x
  <2>4. SubSeq(more, 1, n + 1) = more
    BY <1>1
  <2>5. last(M) = n + 1
    <3> HIDE DEF M
    <3> QED  BY <2>1, <2>3
  <2> HIDE DEF last, M
  <2> QED  BY <1>2, <1>3, <2>4, <2>5 DEF more
<1>4. CASE fn # "partition_flows"
  <2>1. M = S
    BY <1>1, <1>4
  <2>2. last(S) \in 0 .. n
    <3>1. CASE S = {}
      BY <1>1, <3>1
    <3>2. CASE S # {}
      <4>1. \E x \in S : \A i \in S : x >= i
        BY <1>1, <3>2, GreatestNumber
      <4>2. Max(S) \in S
        BY <3>2, <4>1 DEF Max
      <4> QED  BY <1>1, <3>2, <4>2
    <3> QED  BY <3>1, <3>2
  <2> DEFINE k == last(S)
  <2>3. SubSeq(more, 1, k) = SubSeq(fns, 1, k)
    <3> HIDE DEF k
    <3>1. k \in 0 .. n
      BY <2>2 DEF k
    <3> QED  BY <1>1, <3>1 DEF n
  <2> HIDE DEF S, M
  <2> QED  BY <1>2, <1>4, <2>1, <2>3 DEF more
<1> QED  BY <1>3, <1>4

(* The recursive function of PushedAll. *)
PushedAt(f, vals, i) ==
  IF i = 0 THEN {[stack |-> val_schedule, data |-> scheduleData]}
  ELSE UNION {PushedOne(before, vals[i]) : before \in f[i - 1]}

ArePushed(f, vals, n) == f = [i \in 0 .. n |-> PushedAt(f, vals, i)]

LEMMA PushedExists ==
  ASSUME NEW n \in Nat, NEW vals
  PROVE  \E f : ArePushed(f, vals, n)
<1> DEFINE T == {k \in 0 .. n : \E f : ArePushed(f, vals, k)}
<1>1. 0 \in T
  <2> DEFINE f == [i \in 0 .. 0 |-> {[stack |-> val_schedule, data |-> scheduleData]}]
  <2>1. f = [i \in 0 .. 0 |-> PushedAt(f, vals, i)]
    BY DEF PushedAt
  <2> HIDE DEF f
  <2>2. ArePushed(f, vals, 0)
    BY <2>1 DEF ArePushed
  <2> QED  BY <2>2
<1>2. ASSUME NEW k \in 0 .. n - 1, k \in T
      PROVE  k + 1 \in T
  <2>1. PICK f : ArePushed(f, vals, k)
    BY <1>2
  <2> DEFINE g == [i \in 0 .. k + 1 |-> PushedAt(f, vals, i)]
  <2>2. ASSUME NEW i \in 0 .. k + 1
        PROVE  g[i] = PushedAt(g, vals, i)
    <3>1. g[i] = PushedAt(f, vals, i)
      OBVIOUS
    <3>2. CASE i = 0
      BY <3>1, <3>2 DEF PushedAt
    <3>3. CASE i # 0
      <4>1. i - 1 \in 0 .. k /\ i - 1 \in 0 .. k + 1
        BY <3>3
      <4>2. f[i - 1] = PushedAt(f, vals, i - 1)
        BY <2>1, <4>1 DEF ArePushed
      <4>3. g[i - 1] = PushedAt(f, vals, i - 1)
        BY <4>1
      <4> HIDE DEF g
      <4> QED  BY <3>1, <4>2, <4>3 DEF PushedAt
    <3> QED  BY <3>2, <3>3
  <2>3. g = [i \in 0 .. k + 1 |-> PushedAt(g, vals, i)]
    <3>1. g = [i \in 0 .. k + 1 |-> g[i]]
      OBVIOUS
    <3> HIDE DEF g
    <3> QED  BY <2>2, <3>1
  <2> HIDE DEF g
  <2>4. ArePushed(g, vals, k + 1)
    BY <2>3 DEF ArePushed
  <2> QED  BY <2>4
<1>3. \A k \in 0 .. n : k \in T
  <2> HIDE DEF T
  <2> QED  BY <1>1, <1>2, IntervalInduction
<1>4. n \in T
  <2> HIDE DEF T
  <2> QED  BY <1>3
<1> QED  BY <1>4

(* After i pushes the stack holds the i values, the last first, and below   *)
(* them what it held before.                                                *)
PushedTop(vals, old, i) ==
  [j \in 1 .. i + Len(old) |-> IF j <= i THEN vals[(i - j) + 1] ELSE old[j - i]]

LEMMA PushedTopMore ==
  ASSUME NEW vals \in Seq(Nodes), NEW old \in Seq(Nodes), NEW i \in 0 .. Len(vals)
  PROVE  LET more == PushedTop(vals, old, i)
         IN  /\ more \in Seq(Nodes) /\ Len(more) = i + Len(old)
             /\ i # 0 => /\ more[1] = vals[i]
                         /\ \A j \in 1 .. i - 1 + Len(old) :
                              more[j + 1] = PushedTop(vals, old, i - 1)[j]
<1> DEFINE more == PushedTop(vals, old, i)
<1>1. Len(old) \in Nat /\ i \in Nat /\ Len(vals) \in Nat
  OBVIOUS
<1>2. ASSUME NEW j \in 1 .. i + Len(old)
      PROVE  (IF j <= i THEN vals[(i - j) + 1] ELSE old[j - i]) \in Nodes
  <2>1. CASE j <= i
    <3>1. (i - j) + 1 \in 1 .. Len(vals)
      BY <1>1, <2>1
    <3> QED  BY <2>1, <3>1
  <2>2. CASE ~(j <= i)
    <3>1. j - i \in 1 .. Len(old)
      BY <1>1, <2>2
    <3> QED  BY <2>2, <3>1
  <2> QED  BY <2>1, <2>2
<1>3. more \in [1 .. i + Len(old) -> Nodes]
  BY <1>2 DEF PushedTop
<1>4. more \in Seq(Nodes) /\ Len(more) = i + Len(old)
  <2> HIDE DEF more
  <2> QED  BY <1>1, <1>3
<1>5. ASSUME i # 0
      PROVE  more[1] = vals[i]
  <2>1. 1 \in 1 .. i + Len(old) /\ 1 <= i /\ (i - 1) + 1 = i
    BY <1>1, <1>5
  <2> QED  BY <2>1 DEF PushedTop
<1>6. ASSUME i # 0, NEW j \in 1 .. i - 1 + Len(old)
      PROVE  more[j + 1] = PushedTop(vals, old, i - 1)[j]
  <2>1. /\ j + 1 \in 1 .. i + Len(old) /\ (j + 1 <= i <=> j <= i - 1)
        /\ (i - (j + 1)) + 1 = ((i - 1) - j) + 1 /\ (j + 1) - i = j - (i - 1)
    BY <1>1, <1>6
  <2>2. more[j + 1] = IF j + 1 <= i THEN vals[(i - (j + 1)) + 1] ELSE old[(j + 1) - i]
    BY <2>1 DEF PushedTop
  <2>3. PushedTop(vals, old, i - 1)[j]
          = IF j <= i - 1 THEN vals[((i - 1) - j) + 1] ELSE old[j - (i - 1)]
    BY <1>6 DEF PushedTop
  <2> HIDE DEF more
  <2> QED  BY <2>1, <2>2, <2>3
<1> QED  BY <1>4, <1>5, <1>6

LEMMA PushedTopReversed ==
  ASSUME NEW post \in Seq(Nodes), NEW old \in Seq(Nodes),
         NEW vals, vals = Reverse(post)
  PROVE  PushedTop(vals, old, Len(vals)) = Cat(post, old)
<1> DEFINE n == Len(post)
           k == Len(old)
           u == Cat(post, old)
           w == PushedTop(vals, old, n)
<1>1. /\ vals \in Seq(Nodes) /\ Len(vals) = n
      /\ \A i \in 1 .. n : vals[i] = post[(n - i) + 1]
  BY ReverseType
<1>2. Appended(u, post, old, n, k, Nodes)
  <2>1. IsCat(u, post, old, n, k, Nodes)
    BY DEF IsCat
  <2> QED  BY <2>1, CatIs
<1>3. n \in Nat /\ k \in Nat
  OBVIOUS
<1>4. w \in Seq(Nodes) /\ Len(w) = n + k
  <2>1. n \in 0 .. Len(vals)
    BY <1>1, <1>3
  <2> QED  BY <1>1, <2>1, PushedTopMore
<1>5. ASSUME NEW j \in 1 .. n + k
      PROVE  w[j] = u[j]
  <2>1. w[j] = IF j <= n THEN vals[(n - j) + 1] ELSE old[j - n]
    BY DEF PushedTop
  <2> HIDE DEF w, u, n, k
  <2>2. CASE j <= n
    <3>1. j \in 1 .. n /\ (n - j) + 1 \in 1 .. n /\ (n - ((n - j) + 1)) + 1 = j
      BY <1>3, <2>2
    <3> DEFINE i == (n - j) + 1
    <3>2. i \in 1 .. n /\ (n - i) + 1 = j
      BY <3>1
    <3>3. w[j] = vals[i]
      BY <2>1, <2>2
    <3> HIDE DEF i
    <3>4. vals[i] = post[j]
      BY <1>1, <3>2
    <3> QED  BY <1>2, <3>1, <3>3, <3>4 DEF Appended
  <2>3. CASE ~(j <= n)
    <3>1. j - n \in 1 .. k /\ n + (j - n) = j
      BY <1>3, <2>3
    <3> DEFINE i == j - n
    <3>2. i \in 1 .. k /\ n + i = j /\ w[j] = old[i]
      BY <2>1, <2>3, <3>1
    <3> HIDE DEF i
    <3> QED  BY <1>2, <3>2 DEF Appended
  <2> QED  BY <2>2, <2>3
<1>6. w = u
  <2>1. u \in Seq(Nodes) /\ Len(u) = n + k
    BY <1>2 DEF Appended
  <2> HIDE DEF w, u, n, k
  <2> QED  BY <1>3, <1>4, <1>5, <2>1, SeqEqual
<1> QED  BY <1>1, <1>6

(* The program in bottom-up order, n times. *)
BuiltTimes(p, n) == FlattenSeq([t \in 1 .. n |-> PostorderOf(p)[Root]])

LEMMA BuiltTimesMore ==
  ASSUME NEW p, PostorderOf(p)[Root] \in Seq(Nodes), NEW n \in Nat
  PROVE  /\ BuiltTimes(p, n) \in Seq(Nodes) /\ (n = 0 => BuiltTimes(p, n) = <<>>)
         /\ BuiltTimes(p, n + 1) = Cat(PostorderOf(p)[Root], BuiltTimes(p, n))
<1> DEFINE post == PostorderOf(p)[Root]
           seqs == [t \in 1 .. n |-> post]
           more == [t \in 1 .. n + 1 |-> post]
<1>1. seqs \in Seq(Seq(Nodes)) /\ Len(seqs) = n
  OBVIOUS
<1>2. /\ more \in Seq(Seq(Nodes)) /\ Len(more) = n + 1 /\ more[1] = post
      /\ \A i \in 1 .. n : more[i + 1] = seqs[i]
  OBVIOUS
<1>3. BuiltTimes(p, n) = FlattenSeq(seqs) /\ BuiltTimes(p, n + 1) = FlattenSeq(more)
  BY DEF BuiltTimes
<1> HIDE DEF seqs, more
<1>4. FlattenSeq(seqs) \in Seq(Nodes) /\ FlattenSeq(more) = post \o FlattenSeq(seqs)
  BY <1>1, <1>2, FlattenIsSeq, FlattenCons
<1>5. n = 0 => FlattenSeq(seqs) = <<>>
  BY <1>1, FlattenEmpty
<1> QED  BY <1>3, <1>4, <1>5 DEF Cat

-----------------------------------------------------------------------------
(* The schedule and the flow made of it: a stack and a list, of which       *)
(* AdaptersProofs says what the conversion keeps.                           *)
Ad == INSTANCE AdaptersProofs
  WITH ElemQtt <- ValScheduleQtt, stack <- val_schedule, stackData <- scheduleData,
       list <- passes, listData <- flowData, phase <- status

(* The walk of the program, of which EvalProofs says what it pushes. *)
Sch == INSTANCE EvalProofs
  WITH vals_to_visit <- <<>>, pos <- 1, frame_vals <- val_schedule,
       frameData <- scheduleData, FrameQtt <- 1, AnyShape <- FALSE

Ptrs(s) == ElemsInOrder(s.arena, 1)

(* What a stack holds, the top first. *)
StackHolds(s, data, vals) ==
  /\ Ad!StackShape(s) /\ Ad!HeadUsed(s) /\ data \in Ad!Datas
  /\ vals \in Seq(Nodes) /\ Len(vals) = s.elem_count
  /\ \A i \in 1 .. Len(vals) : Read(data, Ptrs(s)[i]) = vals[i]

(* What a list holds, and that its lookups meet it in order. *)
WalkHolds(l, data, vals) ==
  /\ l \in Lists /\ Ptrs(l) \in Seq(ElemPtr) /\ Len(Ptrs(l)) = Len(vals)
  /\ vals \in Seq(Nodes)
  /\ \A i \in 1 .. Len(vals) : Read(data, Ptrs(l)[i]) = vals[i]
  /\ vals # <<>> => FirstElem(l).ptr = Ptrs(l)[1]
  /\ \A i \in 1 .. Len(Ptrs(l)) - 1 : NextElem(l, Ptrs(l)[i]).ptr = Ptrs(l)[i + 1]

(* The schedule was built once for every such pass; the flow holds what it  *)
(* held when the flow was made.                                             *)
ScheduleIInv ==
  /\ Blocks # {} /\ program \in AllPrograms /\ entrypoint \in {Root, Null}
  /\ entrypoint = Null => Built(applied) = 0 /\ Built(BeforeFlow) = 0
  /\ StackHolds(val_schedule, scheduleData, BuiltTimes(program, Built(applied)))
  /\ Built(BeforeFlow) \in Nat
  /\ parent_flow # Null =>
       WalkHolds(parent_flow, flowData, BuiltTimes(program, Built(BeforeFlow)))
-----------------------------------------------------------------------------
(* What AdaptersProofs says of its stack, said of this one. *)
LEMMA ScheduleAssumptions ==
  /\ ValScheduleQtt \in Nat \ {0}
  /\ Ad!BlocksAssumption /\ Ad!NullAssumption /\ Ad!SizeModAssumption
  /\ Ad!UninitAssumption /\ Ad!ElemQttAssumption
<1>1. ValScheduleQtt \in Nat \ {0}
  BY QttAssumption
<1> QED  BY <1>1, BlocksAssumption, NullAssumption, SizeModAssumption, UninitAssumption
  DEF Ad!BlocksAssumption, Ad!NullAssumption, Ad!SizeModAssumption,
      Ad!UninitAssumption, Ad!ElemQttAssumption

LEMMA SameScheduleElems ==
  ASSUME NEW s
  PROVE  Ptrs(s) = Ad!Elems(s)
BY DEF Ptrs, Ad!Elems, ElemsInOrder, Ad!ElemsInOrder, Chain, Ad!Chain, ElemPtrs,
       Ad!ElemPtrs, FlattenSeq, Ad!FlattenSeq

LEMMA SameScheduleInit ==
  ASSUME NEW n
  PROVE  /\ InitStack(n, 1, 1, ValScheduleQtt) = Ad!InitStack(n, 1, 1, ValScheduleQtt)
         /\ InitList(n, 1, 1, ValScheduleQtt) = Ad!InitList(n, 1, 1, ValScheduleQtt)
BY DEF InitList, Ad!InitList, InitStack, Ad!InitStack, InitArena, Ad!InitArena, PaddedSize,
       Ad!PaddedSize, StartOffset, Ad!StartOffset, Freed, Ad!Freed

LEMMA SameScheduleAlloc ==
  ASSUME NEW s
  PROVE  /\ AllocStackElem(s) = Ad!AllocStackElem(s)
         /\ HeadPtr(s.arena) = Ad!HeadPtr(s.arena)
<1>1. \A a, n : AllocHeadBlock(a, n) = Ad!AllocHeadBlock(a, n)
  BY DEF AllocHeadBlock, Ad!AllocHeadBlock
<1>2. \A a : Fresh(a) = Ad!Fresh(a) /\ HeadRoom(a) = Ad!HeadRoom(a)
  BY DEF Fresh, Ad!Fresh, HeadRoom, Ad!HeadRoom
<1>3. ASSUME NEW a, NEW size
      PROVE  AllocAtHead(a, size) = Ad!AllocAtHead(a, size)
  BY <1>1, <1>2, Zenon DEF AllocAtHead, Ad!AllocAtHead
<1>4. AllocAtHead(s.arena, s.elem_size) = Ad!AllocAtHead(s.arena, s.elem_size)
  BY <1>3
<1>5. AllocStackElem(s) = Ad!AllocStackElem(s)
  BY <1>4, Zenon DEF AllocStackElem, Ad!AllocStackElem
<1> QED  BY <1>5 DEF HeadPtr, Ad!HeadPtr

LEMMA SameScheduleSets ==
  /\ Lists = Ad!Lists /\ Stacks = Ad!Stacks /\ ElemPtr = Ad!ElemPtr
  /\ Ad!Datas = Mem(ValScheduleQtt, Nat \cup {Junk})
<1>1. Arenas = Ad!Arenas
  BY DEF Arenas, Ad!Arenas, MemBlocks, Ad!MemBlocks, Offsets, Ad!Offsets
<1>2. Lists = Ad!Lists /\ Stacks = Ad!Stacks
  BY <1>1 DEF Lists, Ad!Lists, Stacks, Ad!Stacks
<1> QED  BY <1>2 DEF ElemPtr, Ad!ElemPtr, Ad!Datas, Mem

LEMMA SameConversion ==
  ASSUME NEW s, NEW l
  PROVE  /\ Missing(s, l) = Ad!Missing(s, l) /\ ListChains(s, l) = Ad!ListChains(s, l)
         /\ Wilds(s, l) \subseteq Blocks \cup {Null}
         /\ \A chain, wild : ListOfStack(s, l, chain, wild) = Ad!ListOfStack(s, l, chain, wild)
         /\ \A fromData, data, chain :
              DataOfStack(s, fromData, data, chain) = Ad!DataOfStack(s, fromData, data, chain)
<1>1. Missing(s, l) = Ad!Missing(s, l)
  BY DEF Missing, Ad!Missing
<1>2. \A a : Chain(a) = Ad!Chain(a) /\ Fresh(a) = Ad!Fresh(a)
  BY DEF Chain, Ad!Chain, Fresh, Ad!Fresh
<1>3. ListChains(s, l) = Ad!ListChains(s, l)
  BY <1>1, <1>2, Zenon DEF ListChains, Ad!ListChains
<1>4. Wilds(s, l) \subseteq Blocks \cup {Null}
  BY DEF Wilds
<1>5. ASSUME NEW chain, NEW wild
      PROVE  ListOfStack(s, l, chain, wild) = Ad!ListOfStack(s, l, chain, wild)
  BY DEF ListOfStack, Ad!ListOfStack, ConvertedBlock, Ad!ConvertedBlock, Linked,
         Ad!Linked, NewTail, Ad!NewTail, ToSet, Ad!ToSet, Chain, Ad!Chain
<1>6. ASSUME NEW fromData, NEW data, NEW chain
      PROVE  DataOfStack(s, fromData, data, chain) = Ad!DataOfStack(s, fromData, data, chain)
  BY DEF DataOfStack, Ad!DataOfStack, Copied, Ad!Copied, ToSet, Ad!ToSet, Chain, Ad!Chain
<1> QED  BY <1>1, <1>3, <1>4, <1>5, <1>6

LEMMA SameScheduleLookups ==
  ASSUME NEW l
  PROVE  /\ FirstElem(l) = Ad!FirstElem(l)
         /\ \A p : NextElem(l, p) = Ad!NextElem(l, p)
         /\ \A data, p : Read(data, p) = Ad!Read(data, p)
<1>1. FirstElem(l) = Ad!FirstElem(l)
  BY DEF FirstElem, Ad!FirstElem, HeadFirstOff, Ad!HeadFirstOff, Ptr, Ad!Ptr
<1>2. ASSUME NEW p
      PROVE  NextElem(l, p) = Ad!NextElem(l, p)
  <2>1. BlockOfElem(l, p) = Ad!BlockOfElem(l, p)
    BY DEF BlockOfElem, Ad!BlockOfElem, SpansElem, Ad!SpansElem, LastOff, Ad!LastOff,
           InUsedBytes, Ad!InUsedBytes
  <2>2. \A b : /\ AtBlockEnd(l, b, p) <=> Ad!AtBlockEnd(l, b, p)
               /\ IntoNextBlock(l, b) = Ad!IntoNextBlock(l, b)
               /\ Ptr(b, p.off + l.elem_padded_size) = Ad!Ptr(b, p.off + l.elem_padded_size)
    BY DEF AtBlockEnd, Ad!AtBlockEnd, IntoNextBlock, Ad!IntoNextBlock, LastOff,
           Ad!LastOff, Ptr, Ad!Ptr
  <2> QED  BY <2>1, <2>2 DEF NextElem, Ad!NextElem
<1>3. \A data, p : Read(data, p) = Ad!Read(data, p)
  BY DEF Read, Ad!Read
<1> QED  BY <1>1, <1>2, <1>3

LEMMA SamePrograms ==
  /\ AllPrograms = Sch!AllPrograms /\ Nodes = Sch!Nodes /\ Root = Sch!Root
  /\ Sch!NodeCountAssumption /\ Sch!KindsAssumption /\ Sch!EvalAssumption
  /\ Sch!BlocksAssumption /\ Sch!NullAssumption /\ Sch!SizeModAssumption
  /\ \A s : Reverse(s) = Sch!Reverse(s)
  /\ \A p : PostorderOf(p) = Sch!PostorderOf(p)
<1>1. Nodes = Sch!Nodes /\ Root = Sch!Root
  BY DEF Nodes, Sch!Nodes, Root, Sch!Root
<1>2. AllPrograms = Sch!AllPrograms
  BY DEF AllPrograms, Sch!AllPrograms, ProgramsUpTo, Sch!ProgramsUpTo, NodesAbove,
         Sch!NodesAbove, Calls, Sch!Calls
<1>3. /\ Sch!NodeCountAssumption /\ Sch!KindsAssumption /\ Sch!EvalAssumption
      /\ Sch!BlocksAssumption /\ Sch!NullAssumption /\ Sch!SizeModAssumption
  BY NodeCountAssumption, KindsAssumption, BlocksAssumption, NullAssumption, SizeModAssumption,
     QttAssumption
  DEF Sch!NodeCountAssumption, Sch!KindsAssumption, Sch!EvalAssumption,
      Sch!BlocksAssumption, Sch!NullAssumption, Sch!SizeModAssumption
<1>4. \A s : Reverse(s) = Sch!Reverse(s)
  BY DEF Reverse, Sch!Reverse
<1>5. \A p : PostorderOf(p) = Sch!PostorderOf(p)
  BY DEF PostorderOf, Sch!PostorderOf, FlattenSeq, Sch!FlattenSeq, Nodes, Sch!Nodes
<1> QED  BY <1>1, <1>2, <1>3, <1>4, <1>5

LEMMA RootPostorder ==
  ASSUME NEW p \in AllPrograms
  PROVE  PostorderOf(p)[Root] \in Seq(Nodes) /\ PostorderOf(p)[Root] # <<>>
<1>1. /\ p \in Sch!AllPrograms /\ Sch!NodeCountAssumption /\ Sch!KindsAssumption
      /\ Sch!EvalAssumption
      /\ Sch!BlocksAssumption /\ Sch!NullAssumption /\ Sch!SizeModAssumption
  BY SamePrograms
<1>2. /\ Sch!PostorderOf(p)[Sch!Root] \in Seq(Sch!Nodes)
      /\ Sch!PostorderOf(p)[Sch!Root] # <<>>
  BY <1>1, Sch!PushedFromRoot
<1> QED  BY <1>2, SamePrograms

(* The walk pushes the postorder, backwards. *)
LEMMA PushesAre ==
  ASSUME program \in AllPrograms, entrypoint = Root
  PROVE  /\ PostorderOf(program)[Root] \in Seq(Nodes)
         /\ Pushes = Reverse(PostorderOf(program)[Root])
<1> DEFINE f == CHOOSE g : Sch!IsPushOrder(g, program)
           post == PostorderOf(program)[Root]
<1>1. Pushes = f[<<entrypoint>>]
  BY DEF Pushes, Sch!IsPushOrder, Sch!PushedFrom, IsLeaf, Sch!IsLeaf, Calls, Sch!Calls,
         Nodes, Sch!Nodes, Reverse, Sch!Reverse
<1>2. /\ program \in Sch!AllPrograms /\ Sch!NodeCountAssumption /\ Sch!KindsAssumption
      /\ Sch!EvalAssumption
      /\ Sch!BlocksAssumption /\ Sch!NullAssumption /\ Sch!SizeModAssumption
      /\ post = Sch!PostorderOf(program)[Sch!Root] /\ Nodes = Sch!Nodes
      /\ Root = Sch!Root /\ Reverse(post) = Sch!Reverse(post)
  BY SamePrograms
<1>3. /\ post \in Seq(Nodes)
      /\ \A g : Sch!IsPushOrder(g, program) => g[<<Root>>] = Reverse(post)
  BY <1>2, Sch!PushedFromRoot
<1>4. Sch!IsPushOrder(f, program)
  <2>1. \E g : Sch!IsPushOrder(g, program)
    BY <1>2, Sch!PushOrderIs
  <2> HIDE DEF post
  <2> QED  BY <2>1
<1> HIDE DEF f, post
<1>5. Pushes = f[<<Root>>]
  BY <1>1, entrypoint = Root
<1> QED  BY <1>3, <1>4, <1>5 DEF post

-----------------------------------------------------------------------------
(* A push onto a stack leaves what it held below the new value. *)
LEMMA PushHolds ==
  ASSUME NEW s, NEW data, NEW vals, StackHolds(s, data, vals),
         NEW t \in AllocStackElem(s), NEW n \in Nodes,
         NEW more \in Seq(Nodes), Len(more) = Len(vals) + 1, more[1] = n,
         \A i \in 1 .. Len(vals) : more[i + 1] = vals[i]
  PROVE  StackHolds(t, Write(data, HeadPtr(t.arena), n), more)
<1> DEFINE p == HeadPtr(t.arena)
           u == Ptrs(s)
           v == Ptrs(t)
           data2 == Write(data, p, n)
<1>1. /\ ValScheduleQtt \in Nat \ {0}
      /\ Ad!BlocksAssumption /\ Ad!NullAssumption /\ Ad!SizeModAssumption
      /\ Ad!UninitAssumption /\ Ad!ElemQttAssumption
  BY ScheduleAssumptions
<1>2. /\ Ad!StackShape(s) /\ data \in Mem(ValScheduleQtt, Nat \cup {Junk})
      /\ t \in Ad!AllocStackElem(s) /\ Len(vals) = s.elem_count /\ vals \in Seq(Nodes)
      /\ \A i \in 1 .. Len(vals) : Read(data, u[i]) = vals[i]
  BY SameScheduleAlloc, SameScheduleSets DEF StackHolds
<1>3. /\ Ad!StackShape(t) /\ t.elem_count = s.elem_count + 1 /\ Ad!HeadUsed(t)
      /\ v = <<p>> \o u /\ p \notin Ad!Range(u)
      /\ p \in ElemPtr /\ p.off \in 0 .. ValScheduleQtt - 1
  <2>1. Ad!HeadUsed(t)
    BY <1>1, <1>2, Ad!PushUsesHead
  <2>2. /\ Ad!StackShape(t) /\ t.elem_count = s.elem_count + 1
        /\ Ad!Elems(t) = <<Ad!HeadPtr(t.arena)>> \o Ad!Elems(s)
        /\ Ad!HeadPtr(t.arena) \notin Ad!Range(Ad!Elems(s))
        /\ Ad!HeadPtr(t.arena) \in Ad!ElemPtr
        /\ Ad!HeadPtr(t.arena).off \in 0 .. ValScheduleQtt - 1
    BY <1>1, <1>2, Ad!PushStk
  <2> QED  BY <2>1, <2>2, SameScheduleAlloc, SameScheduleElems, SameScheduleSets
<1>4. u \in Seq(ElemPtr) /\ Len(u) = s.elem_count
  <2>1. Ad!Elems(s) \in Seq(Ad!ElemPtr) /\ Len(Ad!Elems(s)) = s.elem_count
    BY <1>1, <1>2, Ad!StkElems
  <2> QED  BY <2>1, SameScheduleElems, SameScheduleSets
<1>5. \A i \in 1 .. Len(u) : u[i] # p /\ u[i] \in ElemPtr
  BY <1>3, <1>4 DEF Ad!Range
<1>6. data2 \in Mem(ValScheduleQtt, Nat \cup {Junk}) /\ Written(data2, data, p, n)
  <2>1. n \in Nat \cup {Junk} /\ ValScheduleQtt \in Nat
    BY <1>1 DEF Nodes
  <2> HIDE DEF p
  <2> QED  BY <1>2, <1>3, <2>1, WriteMem
<1> HIDE DEF p, u, v, data2
<1>7. Len(v) = Len(u) + 1 /\ v[1] = p /\ \A i \in 1 .. Len(u) : v[i + 1] = u[i]
  BY <1>3, <1>4
<1>8. ASSUME NEW i \in 1 .. Len(more)
      PROVE  Read(data2, v[i]) = more[i]
  <2>1. CASE i = 1
    BY <1>6, <1>7, <2>1 DEF Written
  <2>2. CASE i # 1
    <3>1. i - 1 \in 1 .. Len(u) /\ i - 1 \in 1 .. Len(vals) /\ (i - 1) + 1 = i
      BY <1>2, <1>4, <2>2
    <3> DEFINE j == i - 1
    <3> HIDE DEF j
    <3>2. j \in 1 .. Len(u) /\ j \in 1 .. Len(vals) /\ j + 1 = i
      BY <3>1 DEF j
    <3>3. Read(data2, u[j]) = Read(data, u[j])
      BY <1>5, <1>6, <3>2 DEF Written
    <3> QED  BY <1>2, <1>7, <3>2, <3>3
  <2> QED  BY <2>1, <2>2
<1>9. Len(more) = t.elem_count
  BY <1>2, <1>3
<1>10. data2 \in Ad!Datas
  BY <1>6, SameScheduleSets
<1>11. StackHolds(t, data2, more)
  BY <1>3, <1>8, <1>9, <1>10 DEF StackHolds, v
<1> QED  BY <1>11 DEF data2, p

LEMMA PushedAllHolds ==
  ASSUME NEW old, StackHolds(val_schedule, scheduleData, old),
         NEW vals \in Seq(Nodes), NEW built \in PushedAll(vals)
  PROVE  StackHolds(built.stack, built.data, PushedTop(vals, old, Len(vals)))
<1> DEFINE f == CHOOSE g : ArePushed(g, vals, Len(vals))
           Held(i) == \A b \in f[i] : StackHolds(b.stack, b.data, PushedTop(vals, old, i))
           T == {i \in 0 .. Len(vals) : Held(i)}
<1>1. PushedAll(vals) = f[Len(vals)]
  BY DEF PushedAll, ArePushed, PushedAt
<1>2. Len(vals) \in Nat /\ old \in Seq(Nodes)
  BY DEF StackHolds
<1>3. ArePushed(f, vals, Len(vals))
  <2>1. \E g : ArePushed(g, vals, Len(vals))
    BY <1>2, PushedExists
  <2> QED  BY <2>1
<1> HIDE DEF f
<1>4. \A i \in 0 .. Len(vals) : f[i] = PushedAt(f, vals, i)
  BY <1>3 DEF ArePushed
<1>5. 0 \in T
  <2>1. f[0] = {[stack |-> val_schedule, data |-> scheduleData]}
    <3>1. f[0] = PushedAt(f, vals, 0)
      BY <1>2, <1>4
    <3> QED  BY <3>1, Zenon DEF PushedAt
  <2>2. PushedTop(vals, old, 0) = old
    <3> DEFINE u == PushedTop(vals, old, 0)
    <3>1. u \in Seq(Nodes) /\ Len(u) = Len(old)
      <4>1. 0 \in 0 .. Len(vals)
        BY <1>2
      <4> QED  BY <1>2, <4>1, PushedTopMore
    <3>2. \A j \in 1 .. Len(old) : u[j] = old[j]
      BY <1>2 DEF PushedTop
    <3> HIDE DEF u
    <3> QED  BY <1>2, <3>1, <3>2, SeqEqual DEF u
  <2>3. Held(0)
    BY <2>1, <2>2
  <2> HIDE DEF Held
  <2> QED  BY <1>2, <2>3
<1>6. ASSUME NEW i \in 0 .. Len(vals) - 1, i \in T
      PROVE  i + 1 \in T
  <2>1. /\ i + 1 \in 0 .. Len(vals) /\ i + 1 # 0 /\ (i + 1) - 1 = i
        /\ i + 1 \in 1 .. Len(vals) /\ i \in 0 .. Len(vals)
    BY <1>2
  <2>2. f[i + 1] = UNION {PushedOne(before, vals[i + 1]) : before \in f[i]}
    BY <1>4, <2>1 DEF PushedAt
  <2> DEFINE now == PushedTop(vals, old, i)
             more == PushedTop(vals, old, i + 1)
  <2>3. /\ now \in Seq(Nodes) /\ Len(now) = i + Len(old)
        /\ more \in Seq(Nodes) /\ Len(more) = i + 1 + Len(old)
        /\ more[1] = vals[i + 1]
        /\ \A j \in 1 .. i + Len(old) : more[j + 1] = now[j]
    BY <1>2, <2>1, PushedTopMore
  <2> HIDE DEF now, more
  <2>4. ASSUME NEW b \in f[i + 1]
        PROVE  StackHolds(b.stack, b.data, more)
    <3>1. PICK before \in f[i] : b \in PushedOne(before, vals[i + 1])
      BY <2>2
    <3>2. StackHolds(before.stack, before.data, now)
      BY <1>6, <3>1 DEF now
    <3>3. PICK t \in OneOf(AllocStackElem(before.stack)) :
            b = [stack |-> t, data |-> Write(before.data, HeadPtr(t.arena), vals[i + 1])]
      BY <3>1 DEF PushedOne
    <3>4. t \in AllocStackElem(before.stack)
      BY <3>3 DEF OneOf, Some
    <3> DEFINE n == vals[i + 1]
    <3>5. n \in Nodes
      BY <2>1
    <3>6. Len(more) = Len(now) + 1 /\ more[1] = n
          /\ \A j \in 1 .. Len(now) : more[j + 1] = now[j]
      BY <1>2, <2>3
    <3> HIDE DEF n
    <3>7. StackHolds(t, Write(before.data, HeadPtr(t.arena), n), more)
      BY <2>3, <3>2, <3>4, <3>5, <3>6, PushHolds
    <3> QED  BY <3>3, <3>7 DEF n
  <2> QED  BY <2>1, <2>4 DEF more
<1>7. Len(vals) \in T
  <2> HIDE DEF T
  <2>1. \A i \in 0 .. Len(vals) : i \in T
    BY <1>2, <1>5, <1>6, IntervalInduction
  <2> QED  BY <1>2, <2>1
<1> QED  BY <1>1, <1>7
-----------------------------------------------------------------------------
(* What a conversion makes of the stack: a list that is walked in its order. *)
LEMMA ConvertedWalk ==
  ASSUME NEW m \in Blocks, NEW s, NEW fromData, NEW vals, StackHolds(s, fromData, vals),
         NEW l, l = InitList(m, 1, 1, ValScheduleQtt),
         NEW chain, chain = Some(ListChains(s, l)), NEW wild \in Wilds(s, l),
         NEW h, h = ListOfStack(s, l, chain, wild),
         NEW data, data = DataOfStack(s, fromData, Clear(ValScheduleQtt), chain)
  PROVE  WalkHolds(h, data, vals)
<1>1. /\ ValScheduleQtt \in Nat \ {0}
      /\ Ad!BlocksAssumption /\ Ad!NullAssumption /\ Ad!SizeModAssumption
      /\ Ad!UninitAssumption /\ Ad!ElemQttAssumption
  BY ScheduleAssumptions
<1>2. /\ Ad!StackShape(s) /\ Ad!HeadUsed(s) /\ fromData \in Ad!Datas
      /\ vals \in Seq(Nodes) /\ Len(vals) = s.elem_count
      /\ \A i \in 1 .. Len(vals) : Read(fromData, Ptrs(s)[i]) = vals[i]
  BY DEF StackHolds
<1>3. Ad!ListReady(l) /\ l.arena.block_count = 1 /\ l.arena.live = {m}
  <2>1. l = Ad!InitList(m, 1, 1, ValScheduleQtt)
    BY SameScheduleInit
  <2> QED  BY <1>1, <2>1, Ad!InitListReady
<1>4. Ad!Missing(s, l) >= 0 /\ Ad!ListChains(s, l) # {}
  BY <1>1, <1>2, <1>3, Ad!BlocksToConvert
<1>5. chain \in Ad!ListChains(s, l)
  <2> DEFINE X == Ad!ListChains(s, l)
  <2>1. chain = Some(X) /\ X # {}
    BY <1>4, SameConversion
  <2> HIDE DEF X
  <2>2. Some(X) \in X
    BY <2>1 DEF Some
  <2>3. chain \in X
    BY <2>1, <2>2, Zenon
  <2> QED  BY <2>3 DEF X
<1>6. wild \in Blocks \cup {Null} /\ h = Ad!ListOfStack(s, l, chain, wild)
  BY SameConversion
<1> DEFINE empty == Clear(ValScheduleQtt)
<1>7. empty \in Ad!Datas
  <2>1. ValScheduleQtt \in Nat
    BY <1>1
  <2>2. empty \in Mem(ValScheduleQtt, Nat \cup {Junk})
    BY <2>1, ClearMem
  <2> QED  BY <2>2, SameScheduleSets
<1> HIDE DEF empty
<1>8. data = Ad!DataOfStack(s, fromData, empty, chain)
  BY SameConversion DEF empty
<1>9. Ad!HoldsSame(h, data, s, fromData)
  BY <1>1, <1>2, <1>3, <1>4, <1>5, <1>6, <1>7, <1>8, Ad!ConvertHoldsSame
<1>10. /\ h \in Ad!Lists /\ Ad!Elems(h) \in Seq(Ad!ElemPtr) /\ Len(Ad!Elems(h)) = s.elem_count
       /\ \A i \in 1 .. s.elem_count :
            Ad!Read(data, Ad!Elems(h)[i]) = Ad!Read(fromData, Ad!Elems(s)[i])
       /\ s.elem_count # 0 => Ad!FirstElem(h).ptr = Ad!Elems(h)[1]
       /\ \A i \in 1 .. Len(Ad!Elems(h)) - 1 :
            Ad!NextElem(h, Ad!Elems(h)[i]).ptr = Ad!Elems(h)[i + 1]
  BY <1>9 DEF Ad!HoldsSame, Ad!ReadsSame
<1>11. /\ h \in Lists /\ Ptrs(h) \in Seq(ElemPtr) /\ Len(Ptrs(h)) = s.elem_count
       /\ \A i \in 1 .. s.elem_count : Read(data, Ptrs(h)[i]) = Read(fromData, Ptrs(s)[i])
       /\ s.elem_count # 0 => FirstElem(h).ptr = Ptrs(h)[1]
       /\ \A i \in 1 .. Len(Ptrs(h)) - 1 : NextElem(h, Ptrs(h)[i]).ptr = Ptrs(h)[i + 1]
  <2>1. Ptrs(h) = Ad!Elems(h) /\ Ptrs(s) = Ad!Elems(s)
    BY SameScheduleElems
  <2>2. /\ FirstElem(h) = Ad!FirstElem(h) /\ \A p : NextElem(h, p) = Ad!NextElem(h, p)
        /\ \A d, p : Read(d, p) = Ad!Read(d, p)
    BY SameScheduleLookups
  <2> QED  BY <1>10, <2>1, <2>2, SameScheduleSets
<1>12. vals # <<>> => s.elem_count # 0
  BY <1>2
<1> QED  BY <1>2, <1>11, <1>12 DEF WalkHolds
-----------------------------------------------------------------------------
LEMMA InitSchedule == Init => ScheduleIInv
<1> SUFFICES ASSUME Init PROVE ScheduleIInv
  OBVIOUS
<1>1. /\ ValScheduleQtt \in Nat \ {0}
      /\ Ad!BlocksAssumption /\ Ad!NullAssumption /\ Ad!SizeModAssumption
      /\ Ad!UninitAssumption /\ Ad!ElemQttAssumption
  BY ScheduleAssumptions
<1>2. /\ SomeBlock \in Blocks /\ Blocks # {}
      /\ val_schedule = InitStack(SomeBlock, 1, 1, ValScheduleQtt)
      /\ scheduleData = Clear(ValScheduleQtt) /\ applied = <<>> /\ parent_flow = Null
      /\ program \in AllPrograms /\ entrypoint \in {Root, Null}
  BY DEF Init, SomeBlock, Some
<1>3. Ad!StackShape(val_schedule) /\ val_schedule.elem_count = 0
  <2>1. val_schedule = Ad!InitStack(SomeBlock, 1, 1, ValScheduleQtt)
    BY <1>2, SameScheduleInit
  <2> QED  BY <1>1, <1>2, <2>1, Ad!InitStk
<1>4. scheduleData \in Ad!Datas
  <2>1. ValScheduleQtt \in Nat
    BY <1>1
  <2>2. Clear(ValScheduleQtt) \in Mem(ValScheduleQtt, Nat \cup {Junk})
    BY <2>1, ClearMem
  <2> QED  BY <1>2, <2>2, SameScheduleSets
<1>5. Built(applied) = 0 /\ Built(BeforeFlow) = 0
  <2>1. \A fns : fns = <<>> => Built(fns) = 0
    <3>1. \A fns : fns = <<>> => {i \in DOMAIN fns : fns[i] = "build_val_schedule"} = {}
      OBVIOUS
    <3> QED  BY <3>1, FS_EmptySet DEF Built, Count
  <2>2. BeforeFlow = <<>>
    BY <1>2 DEF BeforeFlow
  <2> QED  BY <1>2, <2>1, <2>2
<1>6. BuiltTimes(program, Built(applied)) = <<>>
  <2>1. FlattenSeq(<<>>) = <<>>
    BY DEF FlattenSeq
  <2> QED  BY <1>5, <2>1 DEF BuiltTimes
<1>7. StackHolds(val_schedule, scheduleData, BuiltTimes(program, Built(applied)))
  BY <1>3, <1>4, <1>6 DEF StackHolds, Ad!HeadUsed
<1> QED  BY <1>2, <1>5, <1>7 DEF ScheduleIInv

(* How a step changes what is counted. *)
LEMMA BeforeFlowIs ==
  BeforeFlow = UpToPartition(applied) /\ BeforeFlow' = UpToPartition(applied')
BY DEF BeforeFlow, UpToPartition, SelectLastInSeq

LEMMA AppliedMore ==
  ASSUME applied \in Seq(ApplyFns), NEW fn \in ApplyFns, Applied,
         Read(passData, cur_pass) = fn
  PROVE  /\ Built(applied) \in Nat
         /\ Built(applied)' = IF fn = "build_val_schedule" THEN Built(applied) + 1
                              ELSE Built(applied)
         /\ Built(BeforeFlow)' = IF fn = "partition_flows" THEN Built(applied)
                                 ELSE Built(BeforeFlow)
<1>1. applied' = Append(applied, fn)
  BY DEF Applied
<1>2. /\ Built(applied) \in Nat
      /\ Built(applied') = IF fn = "build_val_schedule" THEN Built(applied) + 1
                           ELSE Built(applied)
  BY <1>1, BuiltMore
<1>3. UpToPartition(applied') = IF fn = "partition_flows" THEN applied'
                                ELSE UpToPartition(applied)
  BY <1>1, UpToPartitionMore
<1>4. BeforeFlow = UpToPartition(applied) /\ BeforeFlow' = UpToPartition(applied')
  BY BeforeFlowIs
<1>5. Built(BeforeFlow') = IF fn = "partition_flows" THEN Built(applied) ELSE Built(BeforeFlow)
  BY <1>2, <1>3, <1>4
<1>6. Built(applied)' = Built(applied') /\ Built(BeforeFlow)' = Built(BeforeFlow')
  BY DEF Built, Count
<1> QED  BY <1>2, <1>5, <1>6

(* A step that is neither of the two passes. *)
LEMMA OtherKeepsSchedule ==
  ASSUME ScheduleIInv, applied \in Seq(ApplyFns), UNCHANGED <<given, schedule, flow>>,
         \/ UNCHANGED applied
         \/ Applied /\ Read(passData, cur_pass) = "client"
  PROVE  ScheduleIInv'
<1>1. /\ program' = program /\ entrypoint' = entrypoint /\ val_schedule' = val_schedule
      /\ scheduleData' = scheduleData /\ parent_flow' = parent_flow /\ flowData' = flowData
  BY DEF given, schedule, flow
<1>2. Built(applied)' = Built(applied) /\ Built(BeforeFlow)' = Built(BeforeFlow)
  <2>1. CASE UNCHANGED applied
    BY <2>1, BeforeFlowIs DEF Built, Count
  <2>2. CASE Applied /\ Read(passData, cur_pass) = "client"
    <3>1. "client" \in ApplyFns
      BY DEF ApplyFns
    <3> QED  BY <2>2, <3>1, AppliedMore
  <2> QED  BY <2>1, <2>2
<1> QED  BY <1>1, <1>2 DEF ScheduleIInv

LEMMA BuildKeepsSchedule ==
  ASSUME ScheduleIInv, applied \in Seq(ApplyFns), BuildValSchedule
  PROVE  ScheduleIInv'
<1>1. Read(passData, cur_pass) = "build_val_schedule" /\ "build_val_schedule" \in ApplyFns
  BY DEF BuildValSchedule, Applying, ApplyFns
<1>2. CASE UNCHANGED <<schedule, applied>>
  BY <1>2, OtherKeepsSchedule DEF BuildValSchedule
<1>3. CASE /\ entrypoint # Null /\ Applied
           /\ \E built \in PushedAll(Pushes) :
                val_schedule' = built.stack /\ scheduleData' = built.data
  <2>1. PICK built \in PushedAll(Pushes) :
          val_schedule' = built.stack /\ scheduleData' = built.data
    BY <1>3
  <2>2. /\ program' = program /\ entrypoint' = entrypoint
        /\ parent_flow' = parent_flow /\ flowData' = flowData
        /\ program \in AllPrograms /\ entrypoint = Root /\ Blocks # {}
    BY <1>3 DEF BuildValSchedule, given, flow, ScheduleIInv
  <2> DEFINE post == PostorderOf(program)[Root]
             n == Built(applied)
             old == BuiltTimes(program, n)
             vals == Reverse(post)
  <2>3. post \in Seq(Nodes) /\ Pushes = vals
    BY <2>2, PushesAre
  <2>4. n \in Nat /\ Built(applied)' = n + 1 /\ Built(BeforeFlow)' = Built(BeforeFlow)
    BY <1>1, <1>3, AppliedMore
  <2>5. /\ old \in Seq(Nodes) /\ BuiltTimes(program, n + 1) = Cat(post, old)
        /\ StackHolds(val_schedule, scheduleData, old)
    BY <2>3, <2>4, BuiltTimesMore DEF ScheduleIInv
  <2>6. vals \in Seq(Nodes)
    BY <2>3, ReverseType
  <2>7. PushedTop(vals, old, Len(vals)) = Cat(post, old)
    <3> HIDE DEF post, old
    <3> QED  BY <2>3, <2>5, PushedTopReversed
  <2>8. StackHolds(val_schedule', scheduleData', PushedTop(vals, old, Len(vals)))
    <3> HIDE DEF vals, old
    <3> QED  BY <2>1, <2>3, <2>5, <2>6, PushedAllHolds
  <2>9. StackHolds(val_schedule', scheduleData', BuiltTimes(program', Built(applied)'))
    <3> HIDE DEF n
    <3> QED  BY <2>2, <2>4, <2>5, <2>7, <2>8
  <2> HIDE DEF n, post, old, vals
  <2> QED  BY <1>3, <2>2, <2>4, <2>9 DEF ScheduleIInv
<1> QED  BY <1>2, <1>3 DEF BuildValSchedule

LEMMA PartitionKeepsSchedule ==
  ASSUME ScheduleIInv, applied \in Seq(ApplyFns), PartitionFlows
  PROVE  ScheduleIInv'
<1>1. Read(passData, cur_pass) = "partition_flows" /\ "partition_flows" \in ApplyFns
  BY DEF PartitionFlows, Applying, ApplyFns
<1>2. CASE UNCHANGED <<flow, applied>>
  BY <1>2, OtherKeepsSchedule DEF PartitionFlows
<1> DEFINE list == InitList(SomeBlock, 1, 1, ValScheduleQtt)
           chain == Some(ListChains(val_schedule, list))
<1>3. CASE /\ Applied
           /\ \E wild \in Wilds(val_schedule, list) :
                /\ parent_flow' = ListOfStack(val_schedule, list, chain, wild)
                /\ flowData' = DataOfStack(val_schedule, scheduleData,
                                           Clear(ValScheduleQtt), chain)
  <2>1. /\ program' = program /\ entrypoint' = entrypoint
        /\ val_schedule' = val_schedule /\ scheduleData' = scheduleData
        /\ program \in AllPrograms /\ entrypoint \in {Root, Null} /\ SomeBlock \in Blocks
        /\ entrypoint = Null => Built(applied) = 0
        /\ StackHolds(val_schedule, scheduleData, BuiltTimes(program, Built(applied)))
    BY DEF PartitionFlows, given, schedule, ScheduleIInv, SomeBlock, Some
  <2>2. /\ Built(applied)' = Built(applied) /\ Built(BeforeFlow)' = Built(applied)
        /\ Built(applied) \in Nat
    BY <1>1, <1>3, AppliedMore
  <2>3. PICK wild \in Wilds(val_schedule, list) :
          /\ parent_flow' = ListOfStack(val_schedule, list, chain, wild)
          /\ flowData' = DataOfStack(val_schedule, scheduleData, Clear(ValScheduleQtt), chain)
    BY <1>3
  <2> DEFINE vals == BuiltTimes(program, Built(applied))
  <2>4. StackHolds(val_schedule, scheduleData, vals)
    BY <2>1
  <2> HIDE DEF list, chain, vals
  <2>5. WalkHolds(parent_flow', flowData', vals)
    BY <2>1, <2>3, <2>4, ConvertedWalk DEF list, chain
  <2>6. WalkHolds(parent_flow', flowData', BuiltTimes(program', Built(BeforeFlow)'))
    BY <2>1, <2>2, <2>5 DEF vals
  <2> QED  BY <2>1, <2>2, <2>6 DEF ScheduleIInv
<1> QED  BY <1>2, <1>3 DEF PartitionFlows

LEMMA NextSchedule ==
  ASSUME PassesIInv, ScheduleIInv, [Next]_vars
  PROVE  ScheduleIInv'
<1>1. applied \in Seq(ApplyFns)
  BY DEF PassesIInv
<1>2. CASE InitPassPipeline \/ ClientPushes \/ Process \/ UNCHANGED vars
  <2>1. UNCHANGED <<given, schedule, flow>> /\ UNCHANGED applied
    BY <1>2 DEF InitPassPipeline, ClientPushes, Process, vars
  <2> QED  BY <1>1, <2>1, OtherKeepsSchedule
<1>3. CASE BuildValSchedule
  BY <1>1, <1>3, BuildKeepsSchedule
<1>4. CASE PartitionFlows
  BY <1>1, <1>4, PartitionKeepsSchedule
<1>5. CASE ClientLogs \/ ClientPushesMore
  <2>1. /\ UNCHANGED <<given, schedule, flow>> /\ Read(passData, cur_pass) = "client"
        /\ Applied \/ UNCHANGED applied
    BY <1>5 DEF ClientLogs, ClientPushesMore, Applying
  <2> QED  BY <1>1, <2>1, OtherKeepsSchedule
<1> QED  BY <1>2, <1>3, <1>4, <1>5 DEF Next

LEMMA ScheduleInvariant == Spec => [](PassesIInv /\ ScheduleIInv)
<1>1. Init => PassesIInv /\ ScheduleIInv
  BY InitPassesIInv, InitSchedule
<1>2. PassesIInv /\ ScheduleIInv /\ [Next]_vars => (PassesIInv /\ ScheduleIInv)'
  BY NextPassesIInv, NextSchedule
<1> QED  BY <1>1, <1>2, PTL DEF Spec

(* Read from its first element, the parent flow's schedule is the program   *)
(* in bottom-up order, once for every time it was built before the flow was *)
(* made (val_schedule.c:14-44, flow_partition.c:45): for every program, any *)
(* order and number of passes, and blocks of any size.                      *)
THEOREM PipelineFlowIsSchedule == Spec => []FlowIsSchedule
<1>1. ASSUME ScheduleIInv
      PROVE  FlowIsSchedule
  <2> DEFINE ptrs == ElemsInOrder(parent_flow.arena, 1)
             times == Built(BeforeFlow)
             vals == BuiltTimes(program, times)
  <2>1. SUFFICES ASSUME parent_flow # Null
                 PROVE  /\ [i \in DOMAIN ptrs |-> Read(flowData, ptrs[i])] =
                             FlattenSeq([t \in 1 .. times |-> PostorderOf(program)[entrypoint]])
                        /\ times > 0 => FirstElem(parent_flow).ptr = ptrs[1]
                        /\ \A i \in 1 .. Len(ptrs) - 1 :
                             NextElem(parent_flow, ptrs[i]).ptr = ptrs[i + 1]
    BY DEF FlowIsSchedule, Built
  <2>2. /\ ptrs \in Seq(ElemPtr) /\ Len(ptrs) = Len(vals) /\ vals \in Seq(Nodes)
        /\ \A i \in 1 .. Len(vals) : Read(flowData, ptrs[i]) = vals[i]
        /\ vals # <<>> => FirstElem(parent_flow).ptr = ptrs[1]
        /\ \A i \in 1 .. Len(ptrs) - 1 : NextElem(parent_flow, ptrs[i]).ptr = ptrs[i + 1]
    BY <1>1, <2>1 DEF ScheduleIInv, WalkHolds, Ptrs
  <2>3. [i \in DOMAIN ptrs |-> Read(flowData, ptrs[i])] = vals
    <3> HIDE DEF ptrs, vals
    <3>1. vals = [i \in DOMAIN vals |-> vals[i]]
      BY <2>2
    <3>2. DOMAIN ptrs = 1 .. Len(vals) /\ DOMAIN vals = 1 .. Len(vals)
      BY <2>2
    <3> QED  BY <2>2, <3>1, <3>2
  <2>4. /\ Built(BeforeFlow) \in Nat /\ program \in AllPrograms
        /\ entrypoint # Root => times = 0
    BY <1>1 DEF ScheduleIInv
  <2>5. vals = FlattenSeq([t \in 1 .. times |-> PostorderOf(program)[entrypoint]])
    <3>1. CASE entrypoint = Root
      BY <3>1 DEF BuiltTimes
    <3>2. CASE times = 0
      <4>1. \A x : [t \in 1 .. times |-> x] = <<>>
        BY <3>2
      <4> QED  BY <4>1 DEF BuiltTimes
    <3> QED  BY <2>4, <3>1, <3>2
  <2>6. times > 0 => vals # <<>>
    <3>1. SUFFICES ASSUME times > 0 PROVE vals # <<>>
      OBVIOUS
    <3> DEFINE n == times - 1
               post == PostorderOf(program)[Root]
    <3>2. n \in Nat /\ times = n + 1
      BY <2>4, <3>1
    <3>3. post \in Seq(Nodes) /\ post # <<>>
      BY <2>4, RootPostorder
    <3> HIDE DEF n, times
    <3>4. BuiltTimes(program, n) \in Seq(Nodes) /\ vals = Cat(post, BuiltTimes(program, n))
      BY <3>2, <3>3, BuiltTimesMore
    <3> HIDE DEF post, vals
    <3> QED  BY <3>3, <3>4 DEF Cat
  <2> QED  BY <2>2, <2>3, <2>5, <2>6
<1> QED  BY <1>1, ScheduleInvariant, PTL

PushedBounded == Len(pushed) <= MaxPasses

(* The pipeline's lists and stack keep their types, and the current pass is *)
(* an element of the list of passes, through every push and every pass      *)
(* (passes.c:15-73), whatever the passes are.                               *)
THEOREM PipelineTypeCorrect == Spec => []TypeOK
<1>1. Init => PushedBounded
  BY MaxPassesAssumption DEF Init, PushedBounded
<1>2. ASSUME PassesIInv, PushedBounded, [Next]_vars
      PROVE  PushedBounded'
  <2>1. pushed \in Seq(ApplyFns)
    BY <1>2 DEF PassesIInv, PassesHeld
  <2>2. CASE UNCHANGED pushed
    BY <1>2, <2>2 DEF PushedBounded
  <2>3. CASE \E list, fn : PushPass(list, fn)
    <3>1. Len(pushed) < MaxPasses /\ \E fn : pushed' = Append(pushed, fn)
      BY <2>3 DEF PushPass
    <3>2. Len(pushed') = Len(pushed) + 1 /\ Len(pushed) \in Nat
      BY <2>1, <3>1
    <3> QED  BY <3>1, <3>2, MaxPassesAssumption DEF PushedBounded
  <2>4. UNCHANGED pushed \/ \E list, fn : PushPass(list, fn)
    BY <1>2 DEF Next, InitPassPipeline, ClientPushes, Process, BuildValSchedule,
                PartitionFlows, ClientLogs, ClientPushesMore, vars, pass_list
  <2> QED  BY <2>2, <2>3, <2>4
<1>3. ASSUME PassesIInv, ScheduleIInv, PushedBounded
      PROVE  TypeOK
  <2>1. /\ passes \in Lists /\ PassPtrs(passes) \in Seq(ElemPtr)
        /\ Applies(status, cur_pass, PassPtrs(passes), applied)
        /\ status \in {"fresh", "ready", "processing", "done", "aborted"}
        /\ applied \in Seq(ApplyFns)
    BY <1>3, PassListIs DEF PassesIInv, PassesHeld
  <2>2. cur_pass \in ToSet(ElemsInOrder(passes.arena, 1)) \cup {Null}
    <3>1. CASE status = "processing"
      BY <1>3, <3>1, AtPass DEF PassPtrs
    <3>2. CASE status # "processing"
      BY <2>1, <3>2 DEF Applies, PassPtrs
    <3> QED  BY <3>1, <3>2
  <2>3. val_schedule \in Stacks
    BY <1>3, SameScheduleSets DEF ScheduleIInv, StackHolds, Ad!StackShape
  <2>4. parent_flow = Null \/ parent_flow \in Lists
    BY <1>3 DEF ScheduleIInv, WalkHolds
  <2> QED  BY <1>3, <2>1, <2>2, <2>3, <2>4 DEF TypeOK, PushedBounded
<1> QED  BY <1>1, <1>2, <1>3, ScheduleInvariant, PTL DEF Spec
=============================================================================
