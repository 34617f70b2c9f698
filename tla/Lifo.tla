-------------------------------- MODULE Lifo --------------------------------
(***************************************************************************)
(* What the stack of src/core/memory/stack.c promises its clients: items   *)
(* come back in the reverse of the order they were pushed, nothing else    *)
(* ever comes back, and popping an empty stack answers NoElem.             *)
(***************************************************************************)
EXTENDS Naturals, Sequences

CONSTANTS
  Values,
  NoElem   \* no value: the answer when there is nothing to answer

VARIABLES
  items,   \* top first
  out      \* what the last operation answered

lifoVars == <<items, out>>

Init == items = <<>> /\ out = NoElem

Push(v) == items' = <<v>> \o items /\ out' = NoElem

Pop ==
  \/ items = <<>> /\ out' = NoElem /\ UNCHANGED items
  \/ items # <<>> /\ out' = Head(items) /\ items' = Tail(items)

Find(v) ==
  /\ out' = IF \E i \in 1 .. Len(items) : items[i] = v THEN v ELSE NoElem
  /\ UNCHANGED items

Reset == items' = <<>> /\ out' = NoElem

Next ==
  \/ \E v \in Values : Push(v) \/ Find(v)
  \/ Pop
  \/ Reset

Spec == Init /\ [][Next]_lifoVars
=============================================================================
