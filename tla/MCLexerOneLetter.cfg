CONSTANTS
  Blocks = {1, 2, 3}
  Null = Null
  SizeMod = 64
  Junk = Junk
  MaxLen = 5
  BlockSizes = {2, 3, 5}
  Letters <- MCLetters
  Keywords <- MCKeywords
SPECIFICATION Spec
INVARIANTS EveryWordIsToken
CHECK_DEADLOCK FALSE
