CONSTANTS
  Tasks <- SomeTasks
  Runs = 3
  MaxNetworks = 4
  Litter <- SomeLitter
  MaxFaults = 2
  MaxAttempts = 2
  MaxSweeps = 1
SPECIFICATION Spec
INVARIANTS TypeOK ContextCleansUp SweptClean
PROPERTY SweepEnds
