CONSTANTS
  Scenarios <- AllScenarios
  Keys <- SomeKeys
  NoKey = "-"
  Pods <- ThreePods
  Indexing = TRUE
  Polls = 2
  MaxFaults = 2
  MaxElections = 1
SPECIFICATION Spec
INVARIANTS TypeOK SavedIsLatest VerdictIsDeserved ReportsAreTrue
           ChaosStaysUnlessTimedOut
PROPERTY ScenarioEnds
