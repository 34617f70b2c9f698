------------------------------ MODULE Pipeline ------------------------------
(***************************************************************************)
(* LF_PassPipeline of src/core/passes.c with its two passes,               *)
(* val_schedule.c and flow_partition.c: the composition of lists, stacks,  *)
(* the adapter and the logger that main.c runs.  A client initialises the  *)
(* pipeline, pushes passes and processes them.  A pass of its own may log, *)
(* and push further passes onto the list that is being walked.             *)
(*                                                                         *)
(* Elements have size 1.  Debug messages are logged as in a build with     *)
(* LF_DEBUG_CONFIG.  The pipeline's own list of flows, which nothing uses, *)
(* and the names' texts are left out.                                      *)
(***************************************************************************)
EXTENDS AdapterOps, Programs, LoggerOps

CONSTANTS
  PassQtt, ValScheduleQtt,   \* elem_qtt_in_block of the two
  LogQtt,                    \* LF_LOGGER_BUF_CHAR_QTT_IN_BLOCK
  LoggerSettings,            \* [min_level, is_colored, time] a client may choose
  Chars,                     \* what texts are made of
  ClientMsgs, PassMsg,       \* what a client's pass logs, and what the others do
  MaxPasses                  \* bound on passes pushed

ASSUME QttAssumption ==
  /\ PassQtt \in Nat /\ PassQtt >= 2 /\ PassQtt % 2 = 0
  /\ ValScheduleQtt \in Nat /\ ValScheduleQtt >= 2
  /\ LogQtt \in Nat
ASSUME MaxPassesAssumption == MaxPasses \in Nat
(* The prefix of a line fits the buffer: the TODO at logger.c:84.           *)
ASSUME PrefixAssumption ==
  \A s \in LoggerSettings :
    Len(TimeText(s.time, LogQtt)) + ColoredLevelStrSize + 2 <= LogQtt
(* A text of C holds no NUL.                                                *)
ASSUME TextAssumption ==
  /\ Nul \notin Chars /\ {Blank, "0", Newline} \cup ToSet(level_strs) \subseteq Chars
  /\ \A s \in LoggerSettings : s.time \in Seq(Chars)
  /\ ClientMsgs \subseteq Seq(Chars) /\ PassMsg \in Seq(Chars)

ApplyFns == {"build_val_schedule", "partition_flows", "client"}
Strategies == {"NONE", "VAL_COUNT"}

VARIABLES
  entrypoint,                \* Null or the program's root
  settings, flow_partition_strategy,
  logger,                    \* Null before it is initialised
  passes, passData,          \* the list, and apply_fn of the passes in it
  cur_pass,
  scheduleData,              \* what the places of val_schedule's blocks hold
  parent_flow, flowData,     \* the parent flow's val_schedule, and its values
  status,                    \* "fresh", "ready", "processing", "done", "aborted"
  pushed, applied,           \* history: apply_fns in the order of either
  logged                     \* history: what the last line was to say

given == <<program, entrypoint, settings, flow_partition_strategy>>
logs == <<logger, logged>>
pass_list == <<passes, passData, pushed>>
schedule == <<val_schedule, scheduleData>>
flow == <<parent_flow, flowData>>
vars == <<given, logs, pass_list, cur_pass, schedule, flow, status, applied>>

(* One outcome of an allocation stands for all; there is none when no       *)
(* memory is left, an assert.                                               *)
OneOf(S) == IF S = {} THEN {} ELSE {Some(S)}
SomeBlock == Some(Blocks)

Init ==
  /\ Blocks # {}            \* there is memory to begin with
  /\ program \in AllPrograms
  /\ entrypoint \in {Root, Null}
  /\ settings \in LoggerSettings
  /\ flow_partition_strategy \in Strategies
  /\ logger = Null /\ logged = <<>>
  /\ passes = InitList(SomeBlock, 1, 1, PassQtt)
  /\ passData = Clear(PassQtt)
  /\ val_schedule = InitStack(SomeBlock, 1, 1, ValScheduleQtt)
  /\ scheduleData = Clear(ValScheduleQtt)
  /\ cur_pass = Null /\ parent_flow = Null /\ flowData = Clear(ValScheduleQtt)
  /\ status = "fresh" /\ pushed = <<>> /\ applied = <<>>

(* A string is initialised where the arena pointer in it is not: the assert *)
(* of lf_init_string, and what follows, either hold or stop the program.    *)
UninitString == {"aborted", status}

InitPassPipeline ==
  /\ status = "fresh"
  /\ \/ /\ logger' = InitLogger(settings, SomeBlock, LogQtt)
        /\ status' = "ready"
     \/ logger' = logger /\ status' = "aborted"
  /\ UNCHANGED <<given, logged, pass_list, cur_pass, schedule, flow, applied>>

(* lf_push_pass: the list it leaves, and what it writes. *)
PushPass(list, apply_fn) ==
  /\ Len(pushed) < MaxPasses
  /\ passData' = Write(passData, TailPtr(list.arena, 1), apply_fn)
  /\ pushed' = Append(pushed, apply_fn)

(* After it comes the name's string. *)
ClientPushes ==
  /\ status = "ready"
  /\ \E list \in OneOf(AllocListElems(passes, 1)), apply_fn \in ApplyFns :
       PushPass(list, apply_fn) /\ passes' = list
  /\ status' \in UninitString
  /\ UNCHANGED <<given, logs, cur_pass, schedule, flow, applied>>

StatusAt(pass) == IF pass = Null THEN "done" ELSE "processing"

Process ==
  /\ status = "ready"
  /\ cur_pass' = FirstElem(passes).ptr
  /\ passes' = WithCursor(passes, FirstElem(passes).cursor)
  /\ status' = StatusAt(cur_pass')
  /\ UNCHANGED <<given, logs, passData, pushed, schedule, flow, applied>>
-----------------------------------------------------------------------------
Applying(apply_fn) == status = "processing" /\ Read(passData, cur_pass) = apply_fn

(* After a pass: on to the next, looked up in the list it left.             *)
NextPassStale(list) == NextElem(passes, cur_pass)   \* mutant: looked up before the pass
NextPass(list) == NextElem(list, cur_pass)

ToNextPass(list) ==
  /\ cur_pass' = NextPass(list).ptr
  /\ passes' = WithCursor(list, NextPass(list).cursor)
  /\ status' = StatusAt(cur_pass')

Stop == status' = "aborted" /\ UNCHANGED <<cur_pass, passes>>

Applied == applied' = Append(applied, Read(passData, cur_pass))

ToldToLog(level, msg) ==
  logged' = IF level < settings.min_level THEN logged ELSE [level |-> level, msg |-> msg]

LogBoth ==                 \* the debug messages a pass begins and ends with
  /\ logger' = Log(Log(logger, LF_DEBUG, PassMsg), LF_DEBUG, PassMsg)
  /\ ToldToLog(LF_DEBUG, PassMsg)

(* The worklist walk, as in ValSchedule: what it pushes, in order.          *)
Pushes ==
  LET walk[visit \in Seq(Nodes)] ==
        IF visit = <<>> THEN <<>>
        ELSE LET node == program[Head(visit)]
             IN  <<Head(visit)>> \o walk[Reverse(IF IsLeaf(node) THEN <<>> ELSE node.args)
                                           \o Tail(visit)]
  IN  walk[<<entrypoint>>]

(* Values pushed onto a stack, one after the other. *)
PushedOne(before, val) ==
  {[stack |-> s, data |-> Write(before.data, HeadPtr(s.arena), val)] :
     s \in OneOf(AllocStackElem(before.stack))}

PushedAll(vals) ==
  LET after[i \in 0 .. Len(vals)] ==
        IF i = 0 THEN {[stack |-> val_schedule, data |-> scheduleData]}
        ELSE UNION {PushedOne(before, vals[i]) : before \in after[i - 1]}
  IN  after[Len(vals)]

(* lf_build_val_schedule adds to the schedule, which nobody resets. *)
BuildValSchedule ==
  /\ Applying("build_val_schedule")
  /\ IF entrypoint = Null THEN Stop /\ UNCHANGED <<logs, schedule, applied>>
     ELSE /\ LogBoth
          /\ IF logger' = Null THEN Stop /\ UNCHANGED <<schedule, applied>>
             ELSE /\ \E built \in PushedAll(Pushes) :
                       val_schedule' = built.stack /\ scheduleData' = built.data
                  /\ ToNextPass(passes)
                  /\ Applied
  /\ UNCHANGED <<given, flow, passData, pushed>>

(* lf_partition_flows, with a fresh flow whose schedule is the stack's      *)
(* elements as a list.  A strategy that is not implemented is an assert, as *)
(* is the flow's logger if its string has no arena.                         *)
PartitionFlows ==
  /\ Applying("partition_flows")
  /\ LogBoth
  /\ \/ /\ logger' # Null /\ flow_partition_strategy = "NONE"
        /\ LET list == InitList(SomeBlock, 1, 1, ValScheduleQtt)
               chain == Some(ListChains(val_schedule, list))
           IN  \E wild \in Wilds(val_schedule, list) :
                 /\ parent_flow' = ListOfStack(val_schedule, list, chain, wild)
                 /\ flowData' = DataOfStack(val_schedule, scheduleData,
                                            Clear(ValScheduleQtt), chain)
        /\ ToNextPass(passes)
        /\ Applied
     \/ Stop /\ UNCHANGED <<flow, applied>>
  /\ UNCHANGED <<given, schedule, passData, pushed>>

(* A pass of the client's logs a message at any level ... *)
ClientLogs ==
  /\ Applying("client")
  /\ \E msg \in ClientMsgs, level \in {LF_DEBUG, LF_FATAL} :
       /\ logger' = Log(logger, level, msg)
       /\ ToldToLog(level, msg)
  /\ IF logger' = Null THEN Stop /\ UNCHANGED applied
     ELSE ToNextPass(passes) /\ Applied
  /\ UNCHANGED <<given, schedule, flow, passData, pushed>>

(* ... or pushes another pass. *)
ClientPushesMore ==
  /\ Applying("client")
  /\ \E list \in OneOf(AllocListElems(passes, 1)), apply_fn \in ApplyFns :
       /\ PushPass(list, apply_fn)
       /\ \/ ToNextPass(list) /\ Applied
          \/ status' = "aborted" /\ passes' = list /\ UNCHANGED <<cur_pass, applied>>
  /\ UNCHANGED <<given, logs, schedule, flow>>

Next ==
  \/ InitPassPipeline \/ ClientPushes \/ Process
  \/ BuildValSchedule \/ PartitionFlows \/ ClientLogs \/ ClientPushesMore

Spec == Init /\ [][Next]_vars
-----------------------------------------------------------------------------
Count(fn, s) == Cardinality({i \in DOMAIN s : s[i] = fn})

(* The passes applied before the last partition. *)
BeforeFlow ==
  SubSeq(applied, 1, SelectLastInSeq(applied, LAMBDA fn : fn = "partition_flows"))

(* Type invariant. *)
TypeOK ==
  /\ passes \in Lists /\ val_schedule \in Stacks
  /\ cur_pass \in ToSet(ElemsInOrder(passes.arena, 1)) \cup {Null}
  /\ parent_flow = Null \/ parent_flow \in Lists
  /\ status \in {"fresh", "ready", "processing", "done", "aborted"}
  /\ Len(pushed) <= MaxPasses

(* passes.c:51-73: passes are applied in the order they were pushed, each   *)
(* once, and none is left out, those pushed while others run included.      *)
PassesInOrder ==
  /\ IsPrefix(applied, pushed)
  /\ status = "done" => applied = pushed

(* flow_partition.c:45 after val_schedule.c: read from its first element,   *)
(* the parent flow's schedule is the program in bottom-up order, once for   *)
(* every time the schedule was built before the partition.                  *)
FlowIsSchedule ==
  parent_flow # Null =>
    LET ptrs == ElemsInOrder(parent_flow.arena, 1)
        times == Count("build_val_schedule", BeforeFlow)
    IN  /\ [i \in DOMAIN ptrs |-> Read(flowData, ptrs[i])] =
             FlattenSeq([t \in 1 .. times |-> PostorderOf(program)[entrypoint]])
        /\ times > 0 => FirstElem(parent_flow).ptr = ptrs[1]
        /\ \A i \in 1 .. Len(ptrs) - 1 : NextElem(parent_flow, ptrs[i]).ptr = ptrs[i + 1]

(* logger.c:59-96: every line is the time, the level, the message and an    *)
(* end, with nothing of an earlier line, in a buffer that never grows.      *)
LinesWhole ==
  logger # Null /\ logger.line # <<>> =>
    /\ logger.line = TimeStr(logger) \o <<Blank>> \o LevelStr(logger, logged.level)
                       \o <<Blank>> \o logged.msg \o <<Newline>>
    /\ logger.buf.block_count = 1
=============================================================================
