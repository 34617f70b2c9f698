------------------------------- MODULE MCEval -------------------------------
(* Eval on every program of the sizes the configuration gives. *)
EXTENDS Eval
=============================================================================
