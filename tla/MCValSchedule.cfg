\* Every value graph of four nodes with calls of up to two arguments: chains,
\* shared nodes, calls without arguments. The pass ends: no deadlock check.
CONSTANTS
  NodeCount = 4
  MaxArity = 2
  Kinds = {"value", "def", "call"}
SPECIFICATION ScheduleSpec
INVARIANTS ScheduleTypeOK ScheduleSoFar
PROPERTY ScheduleEnds
CHECK_DEADLOCK FALSE
