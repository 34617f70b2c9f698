---------------------------- MODULE ValSchedule -----------------------------
(***************************************************************************)
(* lf_build_val_schedule of src/planning/passes/val_schedule.c: a worklist *)
(* walk of the value graph that pushes every node it pops.  Both stacks    *)
(* are the abstract Lifo that Stack implements (no reset occurs here),     *)
(* written top first.                                                      *)
(***************************************************************************)
EXTENDS Programs

VARIABLE vals_to_visit

schedule_vars == <<program, vals_to_visit, val_schedule>>

PushAll(s, pushed) == Reverse(pushed) \o s

ScheduleInit ==
  /\ program \in AllPrograms
  /\ vals_to_visit = <<Root>>
  /\ val_schedule = <<>>

ArgsPushedLast(n) == Reverse(program[n].args)   \* mutant: the loop counts down
ArgsAndOneMore(n) ==               \* mutant: i <= arg_qtt, reads past inner_vals
  program[n].args \o <<0>>
ArgsToVisit(n) == program[n].args

MoreThanOneToVisit == Len(vals_to_visit) > 1   \* mutant: stops one too early
MoreToVisit == vals_to_visit # <<>>

(* One turn of the while loop. *)
Visit ==
  /\ MoreToVisit
  /\ LET cur_val == Head(vals_to_visit)
     IN  /\ val_schedule' = <<cur_val>> \o val_schedule
         /\ vals_to_visit' = IF IsLeaf(program[cur_val])
                             THEN Tail(vals_to_visit)
                             ELSE PushAll(Tail(vals_to_visit), ArgsToVisit(cur_val))
  /\ UNCHANGED program

(* The pass is one loop of one thread: it goes on while it can. *)
ScheduleSpec == ScheduleInit /\ [][Visit]_schedule_vars /\ WF_schedule_vars(Visit)
-----------------------------------------------------------------------------
(* Type invariant. *)
ScheduleTypeOK ==
  /\ program \in AllPrograms
  /\ vals_to_visit \in Seq(Nodes)
  /\ val_schedule \in Seq(Nodes)

(* The loop invariant of val_schedule.c:23-41: what is still to visit, in   *)
(* postorder from the bottom of the worklist up, followed by the schedule,  *)
(* is always the postorder of the whole program.                            *)
ScheduleSoFar ==
  LET post == PostorderOf(program)
      rest == Reverse(vals_to_visit)
  IN  FlattenSeq([i \in 1 .. Len(rest) |-> post[rest[i]]]) \o val_schedule = post[Root]

(* The walk ends, however the graph shares nodes. *)
ScheduleEnds == <>(vals_to_visit = <<>>)
=============================================================================
