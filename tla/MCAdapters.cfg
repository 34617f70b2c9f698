\* Up to three blocks of two elements on either side: lists with fewer blocks
\* than the stack, as many, and more. A conversion ends the filling: no deadlock
\* check, an aborted program has stopped.
CONSTANTS
  Blocks = {b1, b2, b3}
  Null = Null
  SizeMod = 16
  ElemQtt = 2
  Junk = Junk
  UninitSize = 0
SPECIFICATION Spec
SYMMETRY BlockSymmetry
INVARIANTS TypeOK TopIsFirst BottomIsLast WalksTopToBottom WalkEnds
CHECK_DEADLOCK FALSE
