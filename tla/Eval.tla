-------------------------------- MODULE Eval --------------------------------
(***************************************************************************)
(* lf_eval_flow of src/runtime/flow.c on the schedule of a program, with   *)
(* the frame kept in a real LF_Stack.  Values are terms: a node and the    *)
(* terms its function was given, so that any wrong operand shows.  A term  *)
(* stands for the pointer to its result: new_vals is never popped nor      *)
(* reset, so those pointers stay good.                                     *)
(***************************************************************************)
EXTENDS Programs, StackOps

CONSTANTS
  FrameQtt,        \* LF_FLOW_FRAME_VAL_QTT_IN_BLOCK
  ValScheduleQtt,  \* elem_qtt_in_block of the schedule, as stack and as list
  Junk,            \* what is read where nothing was written, or out of bounds
  AnyShape         \* FALSE: only programs nested as main.c nests its own

ASSUME EvalAssumption ==
  /\ FrameQtt \in Nat \ {0} /\ AnyShape \in BOOLEAN
  /\ ValScheduleQtt \in Nat /\ ValScheduleQtt >= 2

VARIABLES          \* besides the program and its schedule, first element first
  pos,             \* the place of cur_val in val_schedule
  frame_vals,
  frameData,       \* the term each place of the frame's blocks points to
  status           \* "running", "done"; "short": the goto; "aborted": the
                   \* assert; "crashed": a call of NULL; "astray": see AfterLast

vars == <<program, val_schedule, pos, frame_vals, frameData, status>>

CurVal == val_schedule[pos]
CurNode == program[CurVal]

Read(p) == IF p.off \in 0 .. FrameQtt - 1 THEN frameData[p.block][p.off] ELSE Junk

Init ==
  /\ program \in {p \in AllPrograms : AnyShape \/ LeftNested(p)}
  \* what lf_stack_to_list makes of the stack ValSchedule builds
  /\ val_schedule = PostorderOf(program)[Root]
  /\ pos = 1
  /\ \E n \in Blocks : frame_vals = InitStack(n, 1, 1, FrameQtt)
  /\ frameData = [b \in Blocks |-> [o \in 0 .. FrameQtt - 1 |-> Junk]]
  /\ status = "running"

(* lf_alloc_stack_elem on the frame and the write through its pointer. *)
PushOnto(frame, term) ==
  /\ frame_vals' \in AllocStackElem(frame)
  /\ LET p == HeadPtr(frame_vals'.arena)
     IN  frameData' = [frameData EXCEPT ![p.block][p.off] = term]

(* A schedule of one block becomes a list without a malloc. *)
FitsBlock == Len(val_schedule) <= ValScheduleQtt

AfterLastUncleared == {"done", "astray"}   \* mutant: the list's own block is not cleared
(* What next of the list's last block leads to: it is NULL and ends the     *)
(* loop, unless the conversion added that block and never set it.  Then it  *)
(* is NULL or leads anywhere, and nothing is said of the program any more.  *)
AfterLast == IF FitsBlock THEN {"done"} ELSE {"done", "astray"}

AdvanceStuckAtEnd ==               \* mutant: the last element's next is itself
  /\ pos' = IF pos = Len(val_schedule) THEN pos ELSE pos + 1
  /\ UNCHANGED <<program, val_schedule, status>>
(* lf_get_next_list_elem. *)
Advance ==
  /\ pos' = pos + 1
  /\ status' \in IF pos = Len(val_schedule) THEN AfterLast ELSE {"running"}
  /\ UNCHANGED <<program, val_schedule>>

ArgsAsPopped(arg, args) == Append(args, arg)   \* mutant: first popped is first
ArgsBefore(arg, args) == <<arg>> \o args

(* A native_impl pops as many values as it has arguments, the last first. *)
Popped(frame, qtt) ==
  LET after[i \in 0 .. qtt] ==
        IF i = 0 THEN [frame |-> frame, args |-> <<>>]
        ELSE LET before == after[i - 1]
             IN  [frame |-> PopFromStack(before.frame),
                  args |-> ArgsBefore(Read(PoppedPtr(before.frame)), before.args)]
  IN  after[qtt]

EvalValue ==
  /\ status = "running"
  /\ CurNode.kind = "value"
  /\ PushOnto(frame_vals, [of |-> CurVal, args |-> <<>>])
  /\ Advance

HasMoreThanArgs(frame, qtt) == frame.elem_count > qtt   \* mutant: <= for <
HasArgs(frame, qtt) == frame.elem_count >= qtt

Stop(how) ==
  /\ status' = how
  /\ UNCHANGED <<program, val_schedule, pos, frame_vals, frameData>>

(* The native_impl pops its arguments, the frame is reset, and the result   *)
(* goes onto it.                                                            *)
CallNative ==
  /\ \E called \in {Popped(frame_vals, Len(CurNode.args))} :
       \E frame \in {ResetStack(called.frame)} :
         PushOnto(frame, [of |-> CurVal, args |-> called.args])
  /\ Advance

(* Too few values on the frame end the evaluation; a native_impl that is    *)
(* missing has been logged by then, and is called all the same.             *)
EvalCall ==
  /\ status = "running"
  /\ CurNode.kind \in Calls
  /\ IF ~HasArgs(frame_vals, Len(CurNode.args)) THEN Stop("short")
     ELSE IF CurNode.kind = "bare_call" THEN Stop("crashed")
     ELSE CallNative

EvalOther ==
  /\ status = "running"
  /\ CurNode.kind = "def"
  /\ Stop("aborted")

Next == EvalValue \/ EvalCall \/ EvalOther

(* One loop of one thread: it goes on while it can. *)
Spec == Init /\ [][Next]_vars /\ WF_vars(Next)
-----------------------------------------------------------------------------
(* The term bottom-up evaluation gives every node. *)
Term ==
  LET term[n \in Nodes] ==
        [of |-> n, args |-> [i \in 1 .. Len(program[n].args) |->
                               term[program[n].args[i]]]]
  IN  term

(* Type invariant. *)
TypeOK ==
  /\ program \in AllPrograms
  /\ val_schedule \in Seq(Nodes)
  /\ pos \in 1 .. Len(val_schedule) \/ status \in {"done", "astray"}
  /\ frame_vals \in Stacks
  /\ status \in {"running", "done", "short", "aborted", "crashed", "astray"}
  /\ status = "astray" => ~FitsBlock

(* readme.md:3 and 11, bottom-up evaluation: behind the last value of the   *)
(* schedule, what main.c:86 pops off the frame is the entrypoint's value.   *)
EvaluatesBottomUp ==
  status \in {"done", "astray"} => Read(PoppedPtr(frame_vals)) = Term[Root]

(* lf_reset_stack in the middle of the evaluation (flow.c:51) comes when the *)
(* frame holds nothing but the call's own arguments: it drops no operand.   *)
ResetsDrainedFrame ==
  [][ EvalCall => frame_vals.elem_count = Len(CurNode.args) ]_vars

(* flow.c:36-48 never stops the evaluation of a well-formed program.        *)
NeverShort == status # "short"

(* The loop of flow.c:9-66 ends, one way or another; it leaves a schedule   *)
(* of one block by the NULL behind its last value, never through a next      *)
(* that nobody set.                                                         *)
Terminates == <>(status # "running" /\ (FitsBlock => status # "astray"))
=============================================================================
