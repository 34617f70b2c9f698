\* Three blocks of two elements: up to six elements, so that a pushed or popped
\* element crosses a block boundary with one, two and three blocks in the list.
\* Elements of two bytes with alignment two; size_t wraps at 8.
CONSTANTS
  Blocks = {b1, b2, b3}
  Null = Null
  SizeMod = 8
  ElemSize = 2
  ElemAlignment = 2
  ElemQtt = 2
  Values = {v1, v2}
  NoElem = NoElem
  Junk = Junk
  ResetsAnywhere = FALSE
SPECIFICATION Spec
SYMMETRY Symmetry
INVARIANTS TypeOK StackShape NoPhantomPop
PROPERTY RefinesLifo
