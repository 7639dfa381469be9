SPECIFICATION FairSpec
CONSTANTS
  c1 = c1
  c2 = c2
  Contexts <- OneContext
  NVcpus = 1
  NPorts = 2
  Maskable = {1}
  Polls <- TwoPorts
  X86 = {TRUE, FALSE}
PROPERTIES SleepEnds
