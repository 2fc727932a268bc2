CONSTANTS
  Values = {1, 2}
  Empty = Empty
  Garbage = Garbage
  Null = Null
  Parts = {"BlockPool, empty", "BlockPool, stacked", "ElimTable, 2 threads", "ElimTable, 3 threads",
    "timed test", "latency test", "looping test", "PotatoTest, 3 threads", "PotatoTest, overflow",
    "QueueVerificationTest", "StackVerificationTest", "Timestamps, 2 threads", "Timestamps, 3 threads"}
SPECIFICATION MCSpec
CHECK_DEADLOCK FALSE
INVARIANTS
  OneOwner
  OnceUnlessMissed
  VerdictsSound
  StampsOrdered
PROPERTIES
  RunsEnd
