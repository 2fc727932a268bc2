CONSTANTS
  Threads = {1, 2, 3}
  Values = {1, 2, 3, 4}
  Empty = Empty
  Unused = Unused
  Garbage = Garbage
  RingSize = 2
  Tries = 2
  StoreBuffers = {1}
  Structures = {"WSDeque"}
SPECIFICATION MCSpec
INVARIANT TakenOnce
