CONSTANTS
  i1 = i1
  i2 = i2
  t1 = t1
  t2 = t2
  Iteration <- TwoIterations
  Object <- TwoTrunks
  Existing = {}
  Workloads <- PodsAndAdd
  NumPods = 1
  NumInitial = 1
  NumAddTrunks = 1
  NumAdd = 1
  NumDeleteTrunks = 1
  NumDelete = 2
  MaxFaults = 0
  MaxLinkErrors = 0
SPECIFICATION Spec
SYMMETRY Symmetry
INVARIANT TrunkExclusion
