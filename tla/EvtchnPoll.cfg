SPECIFICATION Spec
CONSTANTS
  c1 = c1
  c2 = c2
  Contexts <- TwoContexts
  NVcpus = 1
  NPorts = 1
  Maskable = {1}
  Polls <- OnePort
  X86 = {TRUE}
SYMMETRY Symmetry
INVARIANTS NoMissedEvent SleeperWakeable
