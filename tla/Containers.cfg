CONSTANTS
  Threads = {0, 1, 2}
  Values = {1, 2}
  Empty = Empty
  Nodes = {n1, n2, n3}
  Null = Null
  Garbage = Garbage
  Containers = {"SGLDeque", "SGLQueue", "MMDeque", "TSDeque-FAI", "TSDeque-HWClock"}
SPECIFICATION MCSpec
SYMMETRY Alike
INVARIANTS
  WellFormed
  TSDequeExplained
PROPERTIES
  Linearizable
  LateItemsStay
