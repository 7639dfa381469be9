SPECIFICATION Spec
CONSTANTS
  t1 = t1
  t2 = t2
  t3 = t3
  t4 = t4
  t5 = t5
  t6 = t6
  t7 = t7
  p1 = p1
  p2 = p2
  Nothing = Nothing
  Timers <- SevenTimers
  Threads <- TwoThreads
  NCpus = 2
  Growth = 2
  MaxLimit = 7
  Slop = 1
  Workloads <- Several
SYMMETRY Symmetry
INVARIANTS QueuesSound DeadlineCovers KilledNotRunning NoLockCycle
CHECK_DEADLOCK FALSE
