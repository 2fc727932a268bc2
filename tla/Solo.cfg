CONSTANTS
  t1 = t1 t2 = t2 t3 = t3
  b1 = b1 b2 = b2 b3 = b3 b4 = b4
  Threads = {t1, t2}
  Values = {1, 2, 11, 21}
  Empty = Empty
  Buffers = {b1, b2, b3}
  FirstBuffer = b1
  BufferSize = 4
  Null = Null
  Garbage = Garbage
  GarbageCounts = {0}
  Scenarios <- Competing
  MaxFailed = 0
  Reclaiming = FALSE
SPECIFICATION SoloSpec
CHECK_DEADLOCK FALSE
PROPERTY ObstructionFree
