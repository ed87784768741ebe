CONSTANTS
  i1 = i1
  i2 = i2
  p1 = p1
  p2 = p2
  p3 = p3
  s1 = s1
  s2 = s2
  s3 = s3
  NoFip = NoFip
  Iteration <- TwoIterations
  Plain = {p1, p2}
  Addressed = {s1, s2}
  Object = {p1, p2, s1, s2}
  Existing = {}
  Workloads <- AllVM
  NumCreate = 1
  NumDelete = 2
  NumFip = 1
  NumMigrate = 1
  NumStopStart = 1
  MaxFaults = 1
SPECIFICATION Spec
INVARIANTS TypeOK LockOwnership MutualExclusion ServersUsedAlone
PROPERTIES ImplementsLockService EveryIterationStops
