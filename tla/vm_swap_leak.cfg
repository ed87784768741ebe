CONSTANTS
  i1 = i1
  i2 = i2
  p1 = p1
  p2 = p2
  p3 = p3
  s1 = s1
  s2 = s2
  s3 = s3
  NoFip = NoFip
  Iteration <- TwoIterations
  Plain = {}
  Addressed = {s1, s2}
  Object = {s1, s2}
  Existing = {}
  Workloads <- SwapOnly
  NumCreate = 1
  NumDelete = 2
  NumFip = 1
  NumMigrate = 1
  NumStopStart = 1
  MaxFaults = 0
SPECIFICATION Spec
INVARIANT DoneHoldsNothing
