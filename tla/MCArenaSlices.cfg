\* Two slices of one arena of up to three blocks. Blocks of two bytes that start
\* in their middle give gaps, exact fits and a move of either end to a new block.
CONSTANTS
  Blocks = {b1, b2, b3}
  Null = Null
  SizeMod = 16
  SliceIds = {s1, s2}
  BlockSize = 2
  Offset = "middle"
  Requests = {1, 2}
SPECIFICATION SlicesSpec
SYMMETRY Symmetry
INVARIANTS SlicesTypeOK RangeIsOwn SizeCounts
PROPERTY EndsChangeHands
