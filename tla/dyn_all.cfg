CONSTANTS
  i1 = i1
  i2 = i2
  n1 = n1
  n2 = n2
  l1 = l1
  l2 = l2
  c1 = c1
  c2 = c2
  Iteration <- TwoIterations
  Object = {n1, n2}
  LoadBalancer = {l1, l2}
  Cluster = {c1, c2}
  ClusterOf <- ClusterOfEach
  Selections <- SomeSelections
  MaxFaults = 1
  NumVms = 1
  MaxVms = 2
  LbArgs <- SomeArgs
  MaxAttempts = 2
SPECIFICATION Spec
INVARIANTS TypeOK NetworkExclusion WorkedNetworkIsThere DeletionIsWhole MembersAccountedFor
  RunsOnItsCluster
PROPERTY EveryIterationEnds
