CONSTANTS
  d1 = d1
  d2 = d2
  d3 = d3
  o1 = o1
  o2 = o2
  o3 = o3
  NoDoc = NoDoc
  OldDoc = {o1, o2, o3}
  Attr <- SomeAttr
  Doc <- ThreeDocs
  FileName <- ThreeDocs
  FileOf <- OwnFile
  MaxCache = 1
  MaxDiskErrors = 1
  Name <- SomeNames
  ListName <- Lists
  Tasks <- ShortTasks
  Outputs <- ShortOutputs
SPECIFICATION ComparisonSpec
INVARIANTS ComparisonTypeOK EveryDocKept FailuresReported DuplicatesAreRetries
  ComparisonIsHonest ResultsBecomeDocuments
PROPERTY FlushingEnds
