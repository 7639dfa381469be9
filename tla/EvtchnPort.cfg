SPECIFICATION Spec
CONSTANTS
  t1 = t1
  t2 = t2
  t3 = t3
  Threads <- ThreeThreads
  NDomains = 2
  NPorts = 3
  PerBucket = 1
  NVcpus = 2
  VcpuVirqs = {1}
  DomainVirqs = {2}
  GlobalVirqs = {3}
  MaxRefs = 2
  Pirqs = {1, 2, 3}
  Workloads <- Several
SYMMETRY Symmetry
INVARIANTS PeersAgree SendReachesPeer PortsAccounted LocksAscend VirqReachesPort IrqMapsExact HandlersExact
PROPERTIES ResetClears
