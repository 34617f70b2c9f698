---------------------------- MODULE ArenaProofs -----------------------------
(***************************************************************************)
(* The arena's invariants for every number of blocks, every block size,    *)
(* every set of request sizes and every width of size_t.                   *)
(***************************************************************************)
EXTENDS Arena, ArenaOpsProofs

(* What a client may rely on for its regions. *)
RegionsInUse ==
  \A r \in regions : /\ r.block \in arena.live
                     /\ arena.block[r.block].left_offset <= r.lo
                     /\ r.lo < r.hi
                     /\ r.hi <= arena.block[r.block].right_offset

RegionsApart ==
  \A r, q \in regions :
    r # q /\ r.block = q.block => r.hi <= q.lo \/ q.hi <= r.lo

(* The inductive invariant.  The chain alone is not inductive: the chain    *)
(* operations need the arena's types and bounds, and the regions need the   *)
(* bounds of the blocks they lie in.                                        *)
IInv ==
  /\ TypeOK
  /\ open => ArenaOK(arena) /\ arena.block_size = BlockSize
  /\ ~open => regions = {} /\ arena.live = {}
  /\ RegionsInUse
  /\ RegionsApart

LEMMA InitIInv ==
  ASSUME Init
  PROVE  IInv
<1>1. PICK n \in Blocks, o \in Offsets : arena = InitArena(n, BlockSize, o)
  BY DEF Init
<1>2. ArenaOK(arena) /\ arena.block_size = BlockSize
  BY <1>1, InitArenaOK, BlockSizeAssumption DEF InitArena
<1>3. TypeOK
  BY <1>2 DEF Init, TypeOK, ArenaOK
<1> QED  BY <1>2, <1>3 DEF Init, IInv, RegionsInUse, RegionsApart

(* lf_arena_alloc_at_head: the new region ends where the old ones begin. *)
LEMMA AllocHeadIInv ==
  ASSUME IInv, NEW size \in Sizes, AllocHead(size)
  PROVE  IInv'
<1>1. /\ open /\ open' /\ ArenaOK(arena) /\ arena.block_size = BlockSize
      /\ size \in 1 .. arena.block_size /\ size \in Nat \ {0}
      /\ arena' \in AllocAtHead(arena, size)
  BY SizesAssumption, BlockSizeAssumption DEF IInv, AllocHead
<1>2. /\ ArenaOK(arena') /\ arena'.block_size = arena.block_size
      /\ arena.live \subseteq arena'.live /\ arena'.head_block \in arena'.live
      /\ \A b \in arena.live :
           /\ arena'.block[b].right_offset = arena.block[b].right_offset
           /\ arena'.block[b].left_offset =
                IF b = arena'.head_block THEN arena.block[b].left_offset - size
                                         ELSE arena.block[b].left_offset
      /\ arena'.head_block \notin arena.live =>
           arena'.block[arena'.head_block].left_offset + size
             = arena'.block[arena'.head_block].right_offset
  BY <1>1, AllocAtHeadOK
<1> DEFINE new == Region(HeadPtr(arena'), size)
<1>3. /\ new.block = arena'.head_block
      /\ new.lo = arena'.block[arena'.head_block].left_offset
      /\ new.hi = arena'.block[arena'.head_block].left_offset + size
      /\ new = [block |-> new.block, lo |-> new.lo, hi |-> new.hi]
  BY DEF Region, HeadPtr
<1>4. /\ regions' = regions \cup {new}
      /\ regions \subseteq [block: Blocks, lo: Nat, hi: Nat]
  BY DEF AllocHead, IInv, TypeOK
<1> HIDE DEF new
<1>5. /\ arena' \in Arenas /\ InBounds(arena') /\ InBounds(arena)
      /\ arena'.head_block \in Blocks /\ arena \in Arenas
      /\ arena'.live \subseteq Blocks /\ arena.live \subseteq Blocks
  BY <1>1, <1>2 DEF ArenaOK, Arenas
<1>6. /\ \A b \in arena.live : arena.block[b] \in MemBlocks
      /\ \A b \in arena'.live : arena'.block[b] \in MemBlocks
  BY <1>5 DEF Arenas
<1>7. /\ new.lo \in Nat /\ new.hi \in Nat /\ new.lo < new.hi
      /\ new.hi <= arena'.block[arena'.head_block].right_offset
  <2>1. arena'.head_block \in arena.live =>
          /\ arena'.block[arena'.head_block].left_offset + size
               = arena.block[arena'.head_block].left_offset
          /\ arena.block[arena'.head_block].left_offset
               <= arena.block[arena'.head_block].right_offset
    BY <1>1, <1>2, <1>5, <1>6 DEF InBounds, MemBlocks
  <2> QED  BY <1>1, <1>2, <1>3, <1>6, <2>1 DEF MemBlocks
<1>8. TypeOK'
  BY <1>1, <1>3, <1>4, <1>5, <1>7 DEF TypeOK
<1>9. ASSUME NEW r \in regions
      PROVE  /\ r.block \in arena'.live
             /\ arena'.block[r.block].left_offset <= r.lo
             /\ r.lo < r.hi
             /\ r.hi <= arena'.block[r.block].right_offset
             /\ r.block = new.block => new.hi <= r.lo
  <2>1. /\ r.block \in arena.live /\ r.lo \in Nat /\ r.hi \in Nat
        /\ arena.block[r.block].left_offset <= r.lo
        /\ r.lo < r.hi
        /\ r.hi <= arena.block[r.block].right_offset
    BY <1>4 DEF IInv, RegionsInUse
  <2> QED  BY <1>1, <1>2, <1>3, <1>6, <2>1 DEF MemBlocks
<1>10. RegionsInUse'
  BY <1>2, <1>3, <1>4, <1>6, <1>7, <1>9 DEF RegionsInUse, MemBlocks
<1>11. RegionsApart'
  BY <1>4, <1>9 DEF IInv, RegionsApart
<1> QED  BY <1>1, <1>2, <1>8, <1>10, <1>11 DEF IInv

(* lf_arena_alloc_at_tail: the new region begins where the old ones end. *)
LEMMA AllocTailIInv ==
  ASSUME IInv, NEW size \in Sizes, AllocTail(size)
  PROVE  IInv'
<1>1. /\ open /\ open' /\ ArenaOK(arena) /\ arena.block_size = BlockSize
      /\ size \in 1 .. arena.block_size /\ size \in Nat \ {0}
      /\ arena' \in AllocAtTail(arena, size)
  BY SizesAssumption, BlockSizeAssumption DEF IInv, AllocTail
<1>2. /\ ArenaOK(arena') /\ arena'.block_size = arena.block_size
      /\ arena.live \subseteq arena'.live /\ arena'.tail_block \in arena'.live
      /\ \A b \in arena.live :
           /\ arena'.block[b].left_offset = arena.block[b].left_offset
           /\ arena'.block[b].right_offset =
                IF b = arena'.tail_block THEN arena.block[b].right_offset + size
                                         ELSE arena.block[b].right_offset
      /\ arena'.tail_block \notin arena.live =>
           arena'.block[arena'.tail_block].left_offset + size
             = arena'.block[arena'.tail_block].right_offset
  BY <1>1, AllocAtTailOK
<1> DEFINE new == Region(TailPtr(arena', size), size)
<1>3. /\ new.block = arena'.tail_block
      /\ new.lo = arena'.block[arena'.tail_block].right_offset - size
      /\ new.hi = arena'.block[arena'.tail_block].right_offset - size + size
      /\ new = [block |-> new.block, lo |-> new.lo, hi |-> new.hi]
  BY DEF Region, TailPtr
<1>4. /\ regions' = regions \cup {new}
      /\ regions \subseteq [block: Blocks, lo: Nat, hi: Nat]
  BY DEF AllocTail, IInv, TypeOK
<1> HIDE DEF new
<1>5. /\ arena' \in Arenas /\ InBounds(arena') /\ InBounds(arena)
      /\ arena'.tail_block \in Blocks /\ arena \in Arenas
      /\ arena'.live \subseteq Blocks /\ arena.live \subseteq Blocks
  BY <1>1, <1>2 DEF ArenaOK, Arenas
<1>6. /\ \A b \in arena.live : arena.block[b] \in MemBlocks
      /\ \A b \in arena'.live : arena'.block[b] \in MemBlocks
  BY <1>5 DEF Arenas
<1>7. /\ new.lo \in Nat /\ new.hi \in Nat /\ new.lo < new.hi
      /\ arena'.block[arena'.tail_block].left_offset <= new.lo
      /\ new.hi = arena'.block[arena'.tail_block].right_offset
  <2>1. arena'.tail_block \in arena.live =>
          /\ arena'.block[arena'.tail_block].right_offset - size
               = arena.block[arena'.tail_block].right_offset
          /\ arena.block[arena'.tail_block].left_offset
               <= arena.block[arena'.tail_block].right_offset
    BY <1>1, <1>2, <1>5, <1>6 DEF InBounds, MemBlocks
  <2> QED  BY <1>1, <1>2, <1>3, <1>6, <2>1 DEF MemBlocks
<1>8. TypeOK'
  BY <1>1, <1>3, <1>4, <1>5, <1>7 DEF TypeOK
<1>9. ASSUME NEW r \in regions
      PROVE  /\ r.block \in arena'.live
             /\ arena'.block[r.block].left_offset <= r.lo
             /\ r.lo < r.hi
             /\ r.hi <= arena'.block[r.block].right_offset
             /\ r.block = new.block => r.hi <= new.lo
  <2>1. /\ r.block \in arena.live /\ r.lo \in Nat /\ r.hi \in Nat
        /\ arena.block[r.block].left_offset <= r.lo
        /\ r.lo < r.hi
        /\ r.hi <= arena.block[r.block].right_offset
    BY <1>4 DEF IInv, RegionsInUse
  <2> QED  BY <1>1, <1>2, <1>3, <1>6, <2>1 DEF MemBlocks
<1>10. RegionsInUse'
  BY <1>2, <1>3, <1>4, <1>6, <1>7, <1>9 DEF RegionsInUse, MemBlocks
<1>11. RegionsApart'
  BY <1>4, <1>9 DEF IInv, RegionsApart
<1> QED  BY <1>1, <1>2, <1>8, <1>10, <1>11 DEF IInv

(* Regions that stay where they are in blocks that stay as they are. *)
LEMMA KeptRegionsIInv ==
  ASSUME IInv, open, open',
         ArenaOK(arena'), arena'.block_size = arena.block_size,
         regions' \subseteq {r \in regions : r.block \in arena'.live},
         \A r \in regions' :
           /\ arena'.block[r.block].left_offset = arena.block[r.block].left_offset
           /\ arena'.block[r.block].right_offset = arena.block[r.block].right_offset
  PROVE  IInv'
<1>1. TypeOK'
  BY DEF IInv, TypeOK, ArenaOK
<1>2. RegionsInUse'
  BY DEF IInv, RegionsInUse
<1>3. RegionsApart'
  BY DEF IInv, RegionsApart
<1> QED  BY <1>1, <1>2, <1>3 DEF IInv

LEMMA NextIInv ==
  ASSUME IInv, [Next]_vars
  PROVE  IInv'
<1>1. CASE AddHeadBlock
  <2>1. open /\ open' /\ ArenaOK(arena) /\ regions' = regions
    BY <1>1 DEF AddHeadBlock, IInv
  <2>2. PICK n \in Fresh(arena) : arena' = AllocHeadBlock(arena, n)
    BY <1>1 DEF AddHeadBlock
  <2>3. ArenaOK(arena') /\ arena'.block_size = arena.block_size
        /\ arena.live \subseteq arena'.live
        /\ \A b \in arena.live :
             /\ arena'.block[b].left_offset = arena.block[b].left_offset
             /\ arena'.block[b].right_offset = arena.block[b].right_offset
    BY <2>1, <2>2, AllocHeadBlockKeeps
  <2> QED  BY <2>1, <2>3, KeptRegionsIInv DEF IInv, RegionsInUse
<1>2. CASE AddTailBlock
  <2>1. open /\ open' /\ ArenaOK(arena) /\ regions' = regions
    BY <1>2 DEF AddTailBlock, IInv
  <2>2. PICK n \in Fresh(arena) : arena' = AllocTailBlock(arena, n)
    BY <1>2 DEF AddTailBlock
  <2>3. ArenaOK(arena') /\ arena'.block_size = arena.block_size
        /\ arena.live \subseteq arena'.live
        /\ \A b \in arena.live :
             /\ arena'.block[b].left_offset = arena.block[b].left_offset
             /\ arena'.block[b].right_offset = arena.block[b].right_offset
    BY <2>1, <2>2, AllocTailBlockKeeps
  <2> QED  BY <2>1, <2>3, KeptRegionsIInv DEF IInv, RegionsInUse
<1>3. ASSUME NEW size \in Sizes, AllocHead(size)
      PROVE  IInv'
  BY <1>3, AllocHeadIInv
<1>4. ASSUME NEW size \in Sizes, AllocTail(size)
      PROVE  IInv'
  BY <1>4, AllocTailIInv
<1>5. CASE DropHeadBlock
  <2>1. open /\ open' /\ ArenaOK(arena) /\ arena' = DeallocHeadBlock(arena)
        /\ regions' = {r \in regions : r.block \in arena'.live}
    BY <1>5 DEF DropHeadBlock, IInv
  <2>2. /\ ArenaOK(arena') /\ arena'.block_size = arena.block_size
        /\ \A b \in arena'.live :
             /\ arena'.block[b].left_offset = arena.block[b].left_offset
             /\ arena'.block[b].right_offset = arena.block[b].right_offset
    BY <2>1, DeallocHeadBlockOK
  <2> QED  BY <2>1, <2>2, KeptRegionsIInv
<1>6. CASE DropTailBlock
  <2>1. open /\ open' /\ ArenaOK(arena) /\ arena' = DeallocTailBlock(arena)
        /\ regions' = {r \in regions : r.block \in arena'.live}
    BY <1>6 DEF DropTailBlock, IInv
  <2>2. /\ ArenaOK(arena') /\ arena'.block_size = arena.block_size
        /\ \A b \in arena'.live :
             /\ arena'.block[b].left_offset = arena.block[b].left_offset
             /\ arena'.block[b].right_offset = arena.block[b].right_offset
    BY <2>1, DeallocTailBlockOK
  <2> QED  BY <2>1, <2>2, KeptRegionsIInv
<1>7. CASE Reset
  <2>1. open /\ open' /\ ArenaOK(arena) /\ arena' = ResetArena(arena)
        /\ regions' = {}
    BY <1>7 DEF Reset, IInv
  <2>2. ArenaOK(arena') /\ arena'.block_size = arena.block_size
    BY <2>1, ResetArenaOK
  <2> QED  BY <2>1, <2>2, KeptRegionsIInv
<1>8. CASE Dealloc
  <2>1. open /\ ~open' /\ ArenaOK(arena) /\ arena' = DeallocArena(arena)
        /\ regions' = {} /\ arena \in Arenas
    BY <1>8 DEF Dealloc, IInv, ArenaOK
  <2>2. arena' = [arena EXCEPT !.live = {}]
    BY <2>1, WalkedIsLive DEF DeallocArena, Arenas
  <2>3. arena' \in Arenas /\ arena'.live = {}
    BY <2>1, <2>2 DEF Arenas
  <2>4. TypeOK'
    BY <1>8, <2>1, <2>3 DEF Dealloc, TypeOK
  <2>5. RegionsInUse' /\ RegionsApart'
    BY <2>1 DEF RegionsInUse, RegionsApart
  <2> QED  BY <2>1, <2>3, <2>4, <2>5 DEF IInv
<1>9. CASE Reopen
  <2>1. open' /\ regions' = {}
    BY <1>9 DEF Reopen, IInv
  <2>2. PICK n \in Fresh(arena), o \in Offsets :
          arena' = InitArena(n, BlockSize, o)
    BY <1>9 DEF Reopen
  <2>3. n \in Blocks
    BY DEF Fresh
  <2>4. ArenaOK(arena') /\ arena'.block_size = BlockSize
    BY <2>2, <2>3, InitArenaOK, BlockSizeAssumption DEF InitArena
  <2>5. TypeOK'
    BY <2>1, <2>4 DEF TypeOK, ArenaOK
  <2>6. RegionsInUse' /\ RegionsApart'
    BY <2>1 DEF RegionsInUse, RegionsApart
  <2> QED  BY <2>1, <2>4, <2>5, <2>6 DEF IInv
<1>10. CASE UNCHANGED vars
  BY <1>10 DEF vars, IInv, TypeOK, RegionsInUse, RegionsApart
<1> QED
  BY <1>1, <1>2, <1>3, <1>4, <1>5, <1>6, <1>7, <1>8, <1>9, <1>10 DEF Next

LEMMA SpecIInv == Spec => []IInv
  BY InitIInv, NextIInv, PTL DEF Spec

(* Types hold in every state: offsets and counts never leave Nat, so no     *)
(* offset subtraction in arena.c wraps.                                     *)
THEOREM ArenaTypeOK == Spec => []TypeOK
<1>1. IInv => TypeOK
  BY DEF IInv
<1> QED  BY <1>1, SpecIInv, PTL

(* The pointer surgery of arena.c keeps one doubly linked chain through     *)
(* exactly the live blocks.                                                 *)
THEOREM ArenaChainOK == Spec => []ChainOK
<1>1. IInv => ChainOK
  BY DEF IInv, ChainOK, ArenaOK
<1> QED  BY <1>1, SpecIInv, PTL

(* Memory handed out lies in used bytes of live blocks and never overlaps.  *)
THEOREM ArenaRegionsSound == Spec => []RegionsSound
<1>1. IInv => RegionsSound
  BY DEF IInv, RegionsSound, ArenaOK, RegionsInUse, RegionsApart
<1> QED  BY <1>1, SpecIInv, PTL

(* Nothing leaks: what a step adds to the used bytes is what it hands out.  *)
Covered(a, rs, b) ==
  \A o \in a.block[b].left_offset .. a.block[b].right_offset - 1 :
    \E r \in rs : r.block = b /\ r.lo <= o /\ o < r.hi

LEMMA EmptyCovered ==
  ASSUME NEW a, NEW rs, NEW b, a.block[b].left_offset \in Nat,
         a.block[b].right_offset = a.block[b].left_offset
  PROVE  Covered(a, rs, b)
BY DEF Covered

LEMMA KeptCovered ==
  ASSUME NEW a, NEW rs, NEW h, NEW qs, NEW b, Covered(a, rs, b),
         {r \in rs : r.block = b} \subseteq qs,
         h.block[b].left_offset = a.block[b].left_offset,
         h.block[b].right_offset = a.block[b].right_offset
  PROVE  Covered(h, qs, b)
BY DEF Covered

(* The bytes between the old ones and the new offset are the new region.    *)
LEMMA GrownCovered ==
  ASSUME NEW a, NEW rs, NEW h, NEW b, NEW new, Covered(a, rs, b), new.block = b,
         a.block[b].left_offset \in Nat, a.block[b].right_offset \in Nat,
         h.block[b].left_offset \in Nat, h.block[b].right_offset \in Nat,
         new.lo \in Nat, new.hi \in Nat,
         \/ /\ new.lo = h.block[b].left_offset /\ new.hi = a.block[b].left_offset
            /\ h.block[b].right_offset = a.block[b].right_offset
         \/ /\ new.hi = h.block[b].right_offset /\ new.lo = a.block[b].right_offset
            /\ h.block[b].left_offset = a.block[b].left_offset
  PROVE  Covered(h, rs \cup {new}, b)
<1> SUFFICES ASSUME NEW o \in h.block[b].left_offset .. h.block[b].right_offset - 1
             PROVE  \E r \in rs \cup {new} : r.block = b /\ r.lo <= o /\ o < r.hi
  BY DEF Covered
<1>1. CASE new.lo <= o /\ o < new.hi
  BY <1>1
<1>2. CASE ~(new.lo <= o /\ o < new.hi)
  <2>1. o \in a.block[b].left_offset .. a.block[b].right_offset - 1
    BY <1>2
  <2> QED  BY <2>1 DEF Covered
<1> QED  BY <1>1, <1>2

LEMMA NewCovered ==
  ASSUME NEW rs, NEW h, NEW b, NEW new, new.block = b,
         h.block[b].left_offset \in Nat, h.block[b].right_offset \in Nat,
         new.lo = h.block[b].left_offset, new.hi = h.block[b].right_offset
  PROVE  Covered(h, rs \cup {new}, b)
BY DEF Covered

LEMMA TiledIs == Tiled <=> \A b \in arena.live : Covered(arena, regions, b)
BY DEF Tiled, Covered

LEMMA BlockOffsets ==
  ASSUME NEW a, ArenaOK(a)
  PROVE  \A b \in a.live : a.block[b].left_offset \in Nat /\ a.block[b].right_offset \in Nat
<1>1. \A b \in a.live : a.block[b] \in MemBlocks
  BY DEF ArenaOK, Arenas
<1> QED  BY <1>1 DEF MemBlocks

LEMMA AllocHeadTiled ==
  ASSUME IInv, Tiled, NEW size \in Sizes, AllocHead(size)
  PROVE  \A b \in arena'.live : Covered(arena', regions', b)
<1>1. /\ ArenaOK(arena) /\ size \in 1 .. arena.block_size /\ size \in Nat
      /\ arena' \in AllocAtHead(arena, size)
  BY SizesAssumption, BlockSizeAssumption DEF IInv, AllocHead
<1>2. /\ ArenaOK(arena') /\ arena'.live \subseteq arena.live \cup {arena'.head_block}
      /\ arena'.head_block \in arena'.live
      /\ \A b \in arena.live :
           /\ arena'.block[b].right_offset = arena.block[b].right_offset
           /\ arena'.block[b].left_offset =
                IF b = arena'.head_block THEN arena.block[b].left_offset - size
                                         ELSE arena.block[b].left_offset
      /\ arena'.head_block \notin arena.live =>
           arena'.block[arena'.head_block].left_offset + size
             = arena'.block[arena'.head_block].right_offset
  BY <1>1, AllocAtHeadOK
<1> DEFINE new == Region(HeadPtr(arena'), size)
           head == arena'.head_block
<1>3. /\ new.block = head /\ new.lo = arena'.block[head].left_offset
      /\ new.hi = arena'.block[head].left_offset + size
      /\ regions' = regions \cup {new}
  BY DEF Region, HeadPtr, AllocHead
<1> HIDE DEF new, head
<1>4. /\ \A b \in arena.live : /\ Covered(arena, regions, b)
                                /\ arena.block[b].left_offset \in Nat
                                /\ arena.block[b].right_offset \in Nat
      /\ \A b \in arena'.live : /\ arena'.block[b].left_offset \in Nat
                                 /\ arena'.block[b].right_offset \in Nat
  BY <1>1, <1>2, TiledIs, BlockOffsets
<1>5. ASSUME NEW b \in arena.live, b # head
      PROVE  Covered(arena', regions', b)
  BY <1>2, <1>3, <1>4, <1>5, KeptCovered DEF head
<1>6. CASE head \in arena.live
  <2>1. /\ new.lo \in Nat /\ new.hi \in Nat /\ new.hi = arena.block[head].left_offset
        /\ arena'.block[head].right_offset = arena.block[head].right_offset
    BY <1>1, <1>2, <1>3, <1>4, <1>6 DEF head
  <2>2. Covered(arena', regions \cup {new}, head)
    BY <1>2, <1>3, <1>4, <1>6, <2>1, GrownCovered DEF head
  <2> QED  BY <1>2, <1>3, <1>5, <2>2 DEF head
<1>7. CASE head \notin arena.live
  <2>1. new.hi = arena'.block[head].right_offset
    BY <1>2, <1>3, <1>7 DEF head
  <2>2. Covered(arena', regions \cup {new}, head)
    BY <1>2, <1>3, <1>4, <2>1, NewCovered DEF head
  <2> QED  BY <1>2, <1>3, <1>5, <2>2 DEF head
<1> QED  BY <1>6, <1>7

LEMMA AllocTailTiled ==
  ASSUME IInv, Tiled, NEW size \in Sizes, AllocTail(size)
  PROVE  \A b \in arena'.live : Covered(arena', regions', b)
<1>1. /\ ArenaOK(arena) /\ size \in 1 .. arena.block_size /\ size \in Nat
      /\ arena' \in AllocAtTail(arena, size)
  BY SizesAssumption, BlockSizeAssumption DEF IInv, AllocTail
<1>2. /\ ArenaOK(arena') /\ arena'.live \subseteq arena.live \cup {arena'.tail_block}
      /\ arena'.tail_block \in arena'.live
      /\ \A b \in arena.live :
           /\ arena'.block[b].left_offset = arena.block[b].left_offset
           /\ arena'.block[b].right_offset =
                IF b = arena'.tail_block THEN arena.block[b].right_offset + size
                                         ELSE arena.block[b].right_offset
      /\ arena'.tail_block \notin arena.live =>
           arena'.block[arena'.tail_block].left_offset + size
             = arena'.block[arena'.tail_block].right_offset
  BY <1>1, AllocAtTailOK
<1> DEFINE new == Region(TailPtr(arena', size), size)
           tail == arena'.tail_block
<1>3. /\ new.block = tail /\ new.lo = arena'.block[tail].right_offset - size
      /\ new.hi = (arena'.block[tail].right_offset - size) + size
      /\ regions' = regions \cup {new}
  BY DEF Region, TailPtr, AllocTail
<1> HIDE DEF new, tail
<1>4. /\ \A b \in arena.live : /\ Covered(arena, regions, b)
                                /\ arena.block[b].left_offset \in Nat
                                /\ arena.block[b].right_offset \in Nat
      /\ \A b \in arena'.live : /\ arena'.block[b].left_offset \in Nat
                                 /\ arena'.block[b].right_offset \in Nat
  BY <1>1, <1>2, TiledIs, BlockOffsets
<1>5. ASSUME NEW b \in arena.live, b # tail
      PROVE  Covered(arena', regions', b)
  BY <1>2, <1>3, <1>4, <1>5, KeptCovered DEF tail
<1>6. CASE tail \in arena.live
  <2>1. /\ new.lo \in Nat /\ new.hi \in Nat /\ new.lo = arena.block[tail].right_offset
        /\ new.hi = arena'.block[tail].right_offset
        /\ arena'.block[tail].left_offset = arena.block[tail].left_offset
    BY <1>1, <1>2, <1>3, <1>4, <1>6 DEF tail
  <2>2. Covered(arena', regions \cup {new}, tail)
    BY <1>2, <1>3, <1>4, <1>6, <2>1, GrownCovered DEF tail
  <2> QED  BY <1>2, <1>3, <1>5, <2>2 DEF tail
<1>7. CASE tail \notin arena.live
  <2>1. new.lo = arena'.block[tail].left_offset /\ new.hi = arena'.block[tail].right_offset
    BY <1>1, <1>2, <1>3, <1>4, <1>7 DEF tail
  <2>2. Covered(arena', regions \cup {new}, tail)
    BY <1>2, <1>3, <1>4, <2>1, NewCovered DEF tail
  <2> QED  BY <1>2, <1>3, <1>5, <2>2 DEF tail
<1> QED  BY <1>6, <1>7

LEMMA NextTiled ==
  ASSUME IInv, Tiled, [Next]_vars
  PROVE  Tiled'
<1> SUFFICES \A b \in arena'.live : Covered(arena', regions', b)
  BY DEF Tiled, Covered
<1>1. \A b \in arena.live : Covered(arena, regions, b)
  BY TiledIs
<1>2. CASE AddHeadBlock
  <2>1. ArenaOK(arena) /\ regions' = regions
    BY <1>2 DEF AddHeadBlock, IInv
  <2>2. PICK n \in Fresh(arena) : arena' = AllocHeadBlock(arena, n)
    BY <1>2 DEF AddHeadBlock
  <2>3. /\ arena'.live = arena.live \cup {n}
        /\ \A b \in arena.live :
             /\ arena'.block[b].left_offset = arena.block[b].left_offset
             /\ arena'.block[b].right_offset = arena.block[b].right_offset
    BY <2>1, <2>2, AllocHeadBlockKeeps
  <2>4. Covered(arena', regions', n)
    <3>1. arena \in Arenas /\ n \in Blocks /\ n # arena.head_block /\ arena.block_size \in Nat
      BY <2>1, ChainEnds DEF ArenaOK, Arenas, Fresh
    <3>2. arena'.block[n].left_offset = arena.block_size
          /\ arena'.block[n].right_offset = arena.block_size
      <4> DEFINE g == AllocHeadBlock(arena, n)
      <4>1. g.block[n] = [left_offset |-> arena.block_size,
                          right_offset |-> arena.block_size, size |-> arena.block_size,
                          prev |-> Null, next |-> arena.head_block]
        BY <3>1, AllocHeadBlockFields
      <4>2. arena' = g
        BY <2>2
      <4> HIDE DEF g
      <4> QED  BY <4>1, <4>2
    <3> QED  BY <3>1, <3>2, EmptyCovered
  <2>5. ASSUME NEW b \in arena.live
        PROVE  Covered(arena', regions', b)
    BY <1>1, <2>1, <2>3, KeptCovered
  <2> QED  BY <2>3, <2>4, <2>5
<1>3. CASE AddTailBlock
  <2>1. ArenaOK(arena) /\ regions' = regions
    BY <1>3 DEF AddTailBlock, IInv
  <2>2. PICK n \in Fresh(arena) : arena' = AllocTailBlock(arena, n)
    BY <1>3 DEF AddTailBlock
  <2>3. /\ arena'.live = arena.live \cup {n}
        /\ \A b \in arena.live :
             /\ arena'.block[b].left_offset = arena.block[b].left_offset
             /\ arena'.block[b].right_offset = arena.block[b].right_offset
    BY <2>1, <2>2, AllocTailBlockKeeps
  <2>4. Covered(arena', regions', n)
    <3>1. arena \in Arenas /\ n \in Blocks /\ n # arena.tail_block
      BY <2>1, ChainEnds DEF ArenaOK, Arenas, Fresh
    <3>2. arena'.block[n].left_offset = 0 /\ arena'.block[n].right_offset = 0
      <4> DEFINE g == AllocTailBlock(arena, n)
      <4>1. g.block[n] = [left_offset |-> 0, right_offset |-> 0,
                          size |-> arena.block_size,
                          prev |-> arena.tail_block, next |-> Null]
        BY <3>1, AllocTailBlockFields
      <4>2. arena' = g
        BY <2>2
      <4> HIDE DEF g
      <4> QED  BY <4>1, <4>2
    <3> QED  BY <3>2, EmptyCovered
  <2>5. ASSUME NEW b \in arena.live
        PROVE  Covered(arena', regions', b)
    BY <1>1, <2>1, <2>3, KeptCovered
  <2> QED  BY <2>3, <2>4, <2>5
<1>4. CASE DropHeadBlock \/ DropTailBlock
  <2>1. /\ ArenaOK(arena) /\ regions' = {r \in regions : r.block \in arena'.live}
        /\ arena' = DeallocHeadBlock(arena) \/ arena' = DeallocTailBlock(arena)
    BY <1>4 DEF DropHeadBlock, DropTailBlock, IInv
  <2>2. /\ arena'.live \subseteq arena.live
        /\ \A b \in arena'.live :
             /\ arena'.block[b].left_offset = arena.block[b].left_offset
             /\ arena'.block[b].right_offset = arena.block[b].right_offset
    BY <2>1, DeallocHeadBlockOK, DeallocTailBlockOK
  <2>3. ASSUME NEW b \in arena'.live
        PROVE  Covered(arena', regions', b)
    <3>1. {r \in regions : r.block = b} \subseteq regions'
      BY <2>1
    <3> QED  BY <1>1, <2>2, <3>1, KeptCovered
  <2> QED  BY <2>3
<1>5. CASE Reset
  <2>1. ArenaOK(arena) /\ arena' = ResetArena(arena)
    BY <1>5 DEF Reset, IInv
  <2>2. ArenaOK(arena') /\ \A b \in arena'.live : IsBlockEmpty(arena'.block[b])
    BY <2>1, ResetArenaOK
  <2> QED  BY <2>2, BlockOffsets, EmptyCovered DEF IsBlockEmpty
<1>6. CASE Dealloc
  <2>1. ArenaOK(arena) /\ arena \in Arenas /\ arena' = DeallocArena(arena)
    BY <1>6 DEF Dealloc, IInv, ArenaOK
  <2>2. arena'.live = {}
    BY <2>1, WalkedIsLive DEF DeallocArena, Arenas
  <2> QED  BY <2>2
<1>7. CASE Reopen
  <2>1. PICK n \in Fresh(arena), o \in Offsets : arena' = InitArena(n, BlockSize, o)
    BY <1>7 DEF Reopen
  <2>2. n \in Blocks /\ StartOffset(BlockSize, o) \in Nat
    BY BlockSizeAssumption, StartOffsetBounds DEF Fresh
  <2>3. /\ arena'.live = {n}
        /\ arena'.block[n].left_offset = StartOffset(BlockSize, o)
        /\ arena'.block[n].right_offset = StartOffset(BlockSize, o)
    BY <2>1, <2>2 DEF InitArena
  <2> QED  BY <2>2, <2>3, EmptyCovered
<1>8. CASE UNCHANGED vars
  BY <1>1, <1>8 DEF vars
<1> QED
  BY <1>2, <1>3, <1>4, <1>5, <1>6, <1>7, <1>8, AllocHeadTiled, AllocTailTiled DEF Next

(* However allocations, deallocations and resets are mixed, a used byte of  *)
(* a live block belongs to a region in a client's hands: arena.c hands out  *)
(* all it takes.                                                            *)
THEOREM ArenaTiled == Spec => []Tiled
<1>1. Init => Tiled
  <2> SUFFICES ASSUME Init PROVE Tiled
    OBVIOUS
  <2>1. PICK n \in Blocks, o \in Offsets : arena = InitArena(n, BlockSize, o)
    BY DEF Init
  <2>2. StartOffset(BlockSize, o) \in Nat
    BY BlockSizeAssumption, StartOffsetBounds
  <2>3. /\ arena.live = {n}
        /\ arena.block[n].left_offset = StartOffset(BlockSize, o)
        /\ arena.block[n].right_offset = StartOffset(BlockSize, o)
    BY <2>1 DEF InitArena
  <2> QED  BY <2>2, <2>3, EmptyCovered, TiledIs
<1>2. IInv /\ Tiled /\ [Next]_vars => Tiled'
  BY NextTiled
<1> QED  BY <1>1, <1>2, SpecIInv, PTL DEF Spec

(* lf_dealloc_arena leaves no block behind. *)
THEOREM ArenaNoLeak == Spec => []NoLeak
<1>1. IInv => NoLeak
  BY DEF IInv, NoLeak
<1> QED  BY <1>1, SpecIInv, PTL
=============================================================================
