\* Four blocks of four elements, appended one or two at a time: the first
\* block starts half full, a pair leaves a gap of one element where it does
\* not fit, and up to fourteen elements span one to four blocks.
CONSTANTS
  Blocks = {b1, b2, b3, b4}
  Null = Null
  SizeMod = 8
  ElemSize = 1
  ElemAlignment = 1
  ElemQtt = 4
  Batches = {1, 2}
SPECIFICATION Spec
SYMMETRY BlockSymmetry
INVARIANTS TypeOK PhysicalOrder FirstIsFirst NextFollows PrevInvertsNext SearchComplete
