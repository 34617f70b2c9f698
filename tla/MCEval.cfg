\* Every program of four nodes and calls of up to two arguments whose calls are
\* first arguments only. A frame block holds one value, so that a call pops
\* across blocks and the reset that follows meets them. Schedules have up to
\* seven values: a block holds five, so that some fill it and some need another.
\* The evaluation ends: no deadlock check.
CONSTANTS
  NodeCount = 4
  MaxArity = 2
  Kinds = {"value", "def", "call", "bare_call"}
  Blocks = {b1, b2}
  Null = Null
  SizeMod = 16
  FrameQtt = 1
  ValScheduleQtt = 5
  Junk = Junk
  AnyShape = FALSE
SPECIFICATION Spec
INVARIANTS TypeOK EvaluatesBottomUp NeverShort
PROPERTIES ResetsDrainedFrame Terminates
CHECK_DEADLOCK FALSE
