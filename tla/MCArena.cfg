\* Three blocks of four bytes, requests of two or three bytes: a request can
\* fit exactly, leave a gap, or need a block, at both ends. size_t wraps at 8,
\* so deallocating full blocks wraps arena->size.
CONSTANTS
  Blocks = {b1, b2, b3}
  Null = Null
  SizeMod = 8
  BlockSize = 4
  Sizes = {2, 3}
SPECIFICATION Spec
SYMMETRY BlockSymmetry
INVARIANTS TypeOK ChainOK RegionsSound Tiled NoLeak
