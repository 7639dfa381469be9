SPECIFICATION FairSpec
CONSTANTS
  c1 = c1
  c2 = c2
  Contexts <- TwoContexts
  NPorts = 2
  NVcpus = 1
  NPrios = 2
  WordsPerPage = 2
  Workloads <- Live
PROPERTIES EventHandled
CHECK_DEADLOCK FALSE
