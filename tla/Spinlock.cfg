SPECIFICATION FairSpec
CONSTANTS
  NCPU = 3
  Tickets = 4
  MaxRecurse = 2
INVARIANTS MutualExclusion RecursionOwner
PROPERTIES BarrierWaits ImplementsFifo NoStarvation
