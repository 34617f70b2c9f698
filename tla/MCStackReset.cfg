\* As MCStack, but the client may reset a stack that still holds elements.
CONSTANTS
  Blocks = {b1, b2, b3}
  Null = Null
  SizeMod = 8
  ElemSize = 2
  ElemAlignment = 2
  ElemQtt = 2
  Values = {v1, v2}
  NoElem = NoElem
  Junk = Junk
  ResetsAnywhere = TRUE
SPECIFICATION Spec
SYMMETRY Symmetry
INVARIANT NoPhantomPop
