SPECIFICATION FairSpec
CONSTANTS
  c1 = c1
  c2 = c2
  c3 = c3
  h1 = h1
  h2 = h2
  NoCPU = NoCPU
  CPUs <- ThreeCPUs
  Callbacks <- TwoCallbacks
  BLimit = 1
  QHiMark = 1
  QLowMark = 0
  RsInterval = 0
  Workloads <- Several
INVARIANTS AwaitedWillReport
PROPERTIES ImplementsRcu BarrierFlushes EverythingEnds
CHECK_DEADLOCK FALSE
