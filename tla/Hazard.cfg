CONSTANTS
  N = 2
  K = 2
  Freq = 1
  Blocks = {b1, b2, b3}
  First = b1
  Null = Null
SPECIFICATION FairSpec
INVARIANTS
  NoUseAfterFree
  OnePlace
PROPERTY EventuallyFreed
