CONSTANTS
  m_nThreadCount = 3
  Threads = {0, 1, 2}
  Values = {1, 2}
  Empty = Empty
  Scripts <- TwoOrThree
SPECIFICATION MCFairSpec
INVARIANTS
  NotedPopsWait
PROPERTIES
  Linearizable
  Answered
