CONSTANTS
  t1 = t1 t2 = t2 t3 = t3
  b1 = b1 b2 = b2 b3 = b3 b4 = b4
  Threads = {t1, t2}
  Values = {1, 2, 11, 12, 13, 14, 15}
  Empty = Empty
  Buffers = {b1, b2, b3, b4}
  FirstBuffer = b1
  BufferSize = 4
  Null = Null
  Garbage = Garbage
  GarbageCounts = {0}
  Scenarios <- Overtaking
  MaxFailed = 1
  Reclaiming = FALSE
SPECIFICATION OvertakenSpec
INVARIANT EmptyIfEmpty
