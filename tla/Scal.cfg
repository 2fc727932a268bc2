CONSTANTS
  Threads = {1, 2, 3}
  Values = {1, 2, 3, 4}
  Empty = Empty
  Unused = Unused
  Garbage = Garbage
  RingSize = 2
  Tries = 2
  StoreBuffers = {0, 2}
  Structures = {"MSQueue", "TreiberStack", "DistributedQueue", "DistributedQueue, local",
    "DynDistributedQueue", "UnboundedSizeKFifo", "UnboundedSizeKFifo, local",
    "BoundedSizeKFifo, 1 slot", "BoundedSizeKFifo, 2 slots", "KStack", "KStack, local",
    "TSQueue, interval", "TSQueue, counter", "TSStack, interval", "TSStack, counter",
    "WSDeque"}
SPECIFICATION MCSpec
INVARIANTS
  WellFormed
  Explained
  NoItemLost
  EmptyWhenEmpty
  OutOfOrderUpToK
  LocallyOrdered
  TakenOnceInOrder
  TakenWasGiven
  BottomGapInOrder
PROPERTIES
  Linearizable
  StealIsCurrentInOrder
