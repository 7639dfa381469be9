SPECIFICATION Spec
CONSTANTS
  v1 = v1
  v2 = v2
  v3 = v3
  d1 = d1
  d2 = d2
  f1 = f1
  f2 = f2
  Nothing = Nothing
  Vcpus <- ThreeVcpus
  Domains <- TwoDomains
  Frames <- TwoFrames
  Refs = {11, 12}
  Half = 2
  Tries = 2
  Workloads <- Several
INVARIANTS OnlyGranted  StatusMatchesPins HandlesSound PagesCounted IommuFollows
CHECK_DEADLOCK FALSE
