SPECIFICATION FairSpec
CONSTANTS
  NCPU = 3
  ReaderMax = 4
  MaxHold = 2
INVARIANTS RwExclusion LockWordExact
PROPERTIES ImplementsRwlock QueueHeadLocks
