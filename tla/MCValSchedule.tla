--------------------------- MODULE MCValSchedule ----------------------------
(* ValSchedule on every program of the sizes the configuration gives. *)
EXTENDS ValSchedule
=============================================================================
