CONSTANTS
  Configs <- SomeConfigs
  Shipped <- OneFile
  Rerun = 2
  MaxSteps = 1
SPECIFICATION Spec
INVARIANTS TypeOK CountsAgree EveryPlannedTest OutcomeIsTold EndsInOrder
  TestsRunAsAsked
PROPERTY RunEnds
