----------------------------- MODULE AdapterOps -----------------------------
(***************************************************************************)
(* lf_stack_to_list of src/core/memory/adapters.c as operators on a stack  *)
(* and a list of one element layout (elements of size 1) and what their    *)
(* blocks hold.  The blocks the list lacks come from one malloc that is    *)
(* never cleared: the last one's next pointer is whatever was there.       *)
(***************************************************************************)
EXTENDS StackOps, ListOps, MemOps

CONSTANT UninitSize    \* the size found in a block that was not cleared

ASSUME UninitAssumption == Junk \notin Nat /\ UninitSize \in Nat

(* missing_block_qtt.  Below 0 it wraps, malloc cannot give that much and   *)
(* assert(remaining_blocks) stops the program.                              *)
Missing(stack, list) == stack.arena.block_count - list.arena.block_count

(* The list's blocks and then the new ones, wherever malloc places them. *)
ListChains(stack, list) ==
  {Chain(list.arena) \o new :
     new \in {new \in [1 .. Missing(stack, list) -> Fresh(list.arena)] :
                \A i, j \in DOMAIN new : new[i] = new[j] => i = j}}

(* next of the last block: NULL in an old block, anything in a new one. *)
WildsEverywhere(stack, list) == Blocks \cup {Null}   \* mutant: every block is a new one
Wilds(stack, list) ==
  IF Missing(stack, list) = 0 THEN {Null} ELSE Blocks \cup {Null}

(* The i-th block of the chain is linked to the one before it; beyond that  *)
(* an old block keeps its links, and a new one what memory held.            *)
LinkedAsBefore(list, chain, i, wild) ==  \* mutant: prev is not set
  [prev |-> list.arena.block[chain[i]].prev,
   next |-> IF i < Len(chain) THEN chain[i + 1] ELSE wild]
Linked(list, chain, i, wild) ==
  [prev |-> IF i = 1 THEN Null ELSE chain[i - 1],
   next |-> IF i < Len(chain) THEN chain[i + 1] ELSE wild]

(* It gets the used bytes of the stack's i-th. *)
ConvertedBlock(stack, list, chain, i, wild) ==
  LET from == stack.arena.block[Chain(stack.arena)[i]]
      link == Linked(list, chain, i, wild)
      old  == chain[i] \in list.arena.live
  IN  [left_offset |-> from.left_offset, right_offset |-> from.right_offset,
       size |-> IF old THEN list.arena.block_size ELSE UninitSize,
       prev |-> link.prev, next |-> link.next]

CopiedToStart(from, fromData, toData) ==   \* mutant: memcpy to data, not data + left_offset
  [o \in DOMAIN toData |-> IF o < from.right_offset - from.left_offset
                           THEN fromData[o + from.left_offset] ELSE toData[o]]
Copied(from, fromData, toData) ==
  [o \in DOMAIN toData |-> IF from.left_offset <= o /\ o < from.right_offset
                           THEN fromData[o] ELSE toData[o]]

NewTailKept(list, chain) == list.arena.tail_block   \* mutant: tail_block is not moved
NewTail(list, chain) == chain[Len(chain)]

ListOfStack(stack, list, chain, wild) ==
  [list EXCEPT
     !.arena.live = ToSet(chain),
     !.arena.block = [b \in Blocks |->
        IF b \in ToSet(chain)
        THEN ConvertedBlock(stack, list, chain, CHOOSE i \in DOMAIN chain : chain[i] = b, wild)
        ELSE @[b]],
     !.arena.block_count = stack.arena.block_count,
     !.arena.tail_block = NewTail(list, chain),
     !.elem_count = stack.elem_count]

DataOfStack(stack, stackData, listData, chain) ==
  [b \in Blocks |->
     IF b \in ToSet(chain)
     THEN LET from == Chain(stack.arena)[CHOOSE i \in DOMAIN chain : chain[i] = b]
          IN  Copied(stack.arena.block[from], stackData[from], listData[b])
     ELSE listData[b]]
=============================================================================
