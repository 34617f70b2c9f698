\* As MCEval, with calls at any place; only values and implemented calls.
CONSTANTS
  NodeCount = 4
  MaxArity = 2
  Kinds = {"value", "call"}
  Blocks = {b1, b2, b3}
  Null = Null
  SizeMod = 16
  FrameQtt = 4
  ValScheduleQtt = 256
  Junk = Junk
  AnyShape = TRUE
SPECIFICATION Spec
INVARIANT EvaluatesBottomUp
CHECK_DEADLOCK FALSE
