SPECIFICATION Spec
CONSTANTS
  c1 = c1
  c2 = c2
  Contexts <- TwoContexts
  NPorts = 2
  NVcpus = 2
  NPrios = 2
  WordsPerPage = 2
  Workloads <- Several
SYMMETRY Symmetry
INVARIANTS QueuesInOrder NoLostEvent
