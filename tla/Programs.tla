------------------------------ MODULE Programs ------------------------------
(***************************************************************************)
(* Programs as the planning passes see them: a value graph (LF_Value of    *)
(* core/types.h) whose nodes are numbered so that inner_vals point to      *)
(* smaller numbers; the last node is the pipeline's entrypoint.  A node    *)
(* may be shared, as int_7 is in main.c.                                   *)
(***************************************************************************)
EXTENDS Naturals, SequencesExt

CONSTANTS
  NodeCount,
  MaxArity,    \* the largest arg_qtt
  Kinds        \* kinds of node that occur

VARIABLES
  program,
  val_schedule \* what a pass makes of it

(* "value": an INT, FLOAT, CHAR, STR or BOOL; "def": a FUNC_DEF, TYPE or    *)
(* TRAIT; "call": a FUNC_CALL; "bare_call": one whose function has no       *)
(* native_impl.  SYMBOL, LIST, SEQ and DICT values are left out: the passes *)
(* would read their specs as func_call_spec.                                *)
ASSUME NodeCountAssumption == NodeCount \in Nat \ {0} /\ MaxArity \in Nat
ASSUME KindsAssumption == Kinds \subseteq {"value", "def", "call", "bare_call"}

Nodes == 1 .. NodeCount
Root == NodeCount

Calls == {"call", "bare_call"}

(* PRIMITIVE_MASK: everything else is taken for a call. *)
IsLeaf(node) == node.kind \notin Calls

NodesAbove(n) ==
  [kind: Kinds \ Calls, args: {<<>>}] \cup
  [kind: Kinds \cap Calls, args: UNION {[1 .. k -> 1 .. n] : k \in 0 .. MaxArity}]

ProgramsUpTo[n \in 0 .. NodeCount] ==
  IF n = 0 THEN {<<>>}
  ELSE {Append(p, node) : p \in ProgramsUpTo[n - 1], node \in NodesAbove(n - 1)}

AllPrograms == ProgramsUpTo[NodeCount]

(* Calls occur only as first arguments: the shape of main.c's program. *)
LeftNested(p) ==
  \A n \in Nodes : \A i \in 2 .. Len(p[n].args) : IsLeaf(p[p[n].args[i]])

(* What bottom-up evaluation order means: arguments left to right, then the *)
(* call, for every occurrence of a node.                                    *)
PostorderOf(p) ==
  LET post[n \in Nodes] ==
        FlattenSeq([i \in 1 .. Len(p[n].args) |-> post[p[n].args[i]]]) \o <<n>>
  IN  post
=============================================================================
