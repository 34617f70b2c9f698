CONSTANTS
  Blocks = {b1, b2, b3, b4}
  Null = Null
  SizeMod = 64
  Junk = Junk
  UninitSize = 0
  NodeCount = 3
  MaxArity = 2
  Kinds = {"value", "call"}
  PassQtt = 2
  ValScheduleQtt = 6
  LogQtt = 20
  LoggerSettings <- MCSettings
  Chars <- MCChars
  ClientMsgs <- MCClientMsgs
  PassMsg <- MCPassMsg
  MaxPasses = 3
SPECIFICATION Spec
INVARIANTS TypeOK PassesInOrder FlowIsSchedule LinesWhole
CHECK_DEADLOCK FALSE
