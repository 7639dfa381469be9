SPECIFICATION FairSpec
CONSTANTS
  c1 = c1
  c2 = c2
  c3 = c3
  CPUs <- ThreeCPUs
  Pluggable = {c3}
  NLocks = 2
  Reads <- MCReads
  Writes <- MCWrites
INVARIANTS PercpuExclusion SlotNamesOutermost
 
