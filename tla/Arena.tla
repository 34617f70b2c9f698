------------------------------- MODULE Arena --------------------------------
(***************************************************************************)
(* One arena and the clients that call arena.h on it in any order.  The    *)
(* auxiliary variable regions remembers every piece of memory handed out   *)
(* and not yet given back, so that an allocator's promise can be stated.   *)
(***************************************************************************)
EXTENDS ArenaOps

CONSTANTS
  BlockSize,   \* arena->block_size
  Sizes        \* the sizes clients ask for

ASSUME BlockSizeAssumption == BlockSize \in Nat \ {0}
\* assert(size > 0) and assert(size <= arena->block_size) in both alloc calls
ASSUME SizesAssumption == Sizes \subseteq 1 .. BlockSize

VARIABLES
  arena,
  open,        \* between lf_init_arena and lf_dealloc_arena
  regions      \* auxiliary: the regions [block, lo, hi) in clients' hands

vars == <<arena, open, regions>>

Region(p, size) == [block |-> p.block, lo |-> p.off, hi |-> p.off + size]

Init ==
  /\ \E n \in Blocks, o \in Offsets : arena = InitArena(n, BlockSize, o)
  /\ open = TRUE
  /\ regions = {}

AddHeadBlock ==
  /\ open
  /\ \E n \in Fresh(arena) : arena' = AllocHeadBlock(arena, n)
  /\ UNCHANGED <<open, regions>>

AddTailBlock ==
  /\ open
  /\ \E n \in Fresh(arena) : arena' = AllocTailBlock(arena, n)
  /\ UNCHANGED <<open, regions>>

AllocHead(size) ==
  /\ open
  /\ arena' \in AllocAtHead(arena, size)
  /\ regions' = regions \cup {Region(HeadPtr(arena'), size)}
  /\ UNCHANGED open

AllocTail(size) ==
  /\ open
  /\ arena' \in AllocAtTail(arena, size)
  /\ regions' = regions \cup {Region(TailPtr(arena', size), size)}
  /\ UNCHANGED open

DropHeadBlock ==
  /\ open
  /\ arena' = DeallocHeadBlock(arena)
  /\ regions' = {r \in regions : r.block \in arena'.live}
  /\ UNCHANGED open

DropTailBlock ==
  /\ open
  /\ arena' = DeallocTailBlock(arena)
  /\ regions' = {r \in regions : r.block \in arena'.live}
  /\ UNCHANGED open

Reset ==
  /\ open
  /\ arena' = ResetArena(arena)
  /\ regions' = {}
  /\ UNCHANGED open

Dealloc ==
  /\ open
  /\ arena' = DeallocArena(arena)
  /\ open' = FALSE
  /\ regions' = {}

(* lf_init_arena on an arena given back: the same struct, fresh blocks. *)
Reopen ==
  /\ ~open
  /\ \E n \in Fresh(arena), o \in Offsets : arena' = InitArena(n, BlockSize, o)
  /\ open' = TRUE
  /\ UNCHANGED regions

Next ==
  \/ AddHeadBlock
  \/ AddTailBlock
  \/ \E size \in Sizes : AllocHead(size)
  \/ \E size \in Sizes : AllocTail(size)
  \/ DropHeadBlock
  \/ DropTailBlock
  \/ Reset
  \/ Dealloc
  \/ Reopen

Spec == Init /\ [][Next]_vars
-----------------------------------------------------------------------------
(* Type invariant of the arena and of the regions it handed out. *)
TypeOK ==
  /\ arena \in Arenas
  /\ open \in BOOLEAN
  /\ regions \subseteq [block: Blocks, lo: Nat, hi: Nat]

(* However allocations at both ends and deallocations at both ends are      *)
(* interleaved, the blocks stay one doubly linked chain with block_count    *)
(* blocks: the pointer surgery of arena.c:47-54, 76-83 and 139-148.         *)
ChainOK == open => Chained(arena)

(* The allocator's promise: regions in clients' hands lie in the used part  *)
(* of a live block and never overlap (arena.c:100-108 and 120-129).         *)
RegionsSound ==
  /\ open => InBounds(arena)
  /\ \A r \in regions :
       /\ r.block \in arena.live
       /\ arena.block[r.block].left_offset <= r.lo
       /\ r.lo < r.hi
       /\ r.hi <= arena.block[r.block].right_offset
  /\ \A r, q \in regions :
       r # q /\ r.block = q.block => r.hi <= q.lo \/ q.hi <= r.lo

(* Nothing leaks: every used byte of a block is a byte of a region handed   *)
(* out (just one, by RegionsSound), whatever mix of calls led here.         *)
Tiled ==
  \A b \in arena.live :
    \A o \in arena.block[b].left_offset .. arena.block[b].right_offset - 1 :
      \E r \in regions : r.block = b /\ r.lo <= o /\ o < r.hi

(* lf_dealloc_arena's walk along next (arena.c:209-216) gives back every     *)
(* block the arena ever took and still holds: none is unreachable by then.  *)
NoLeak == ~open => arena.live = {}
=============================================================================
