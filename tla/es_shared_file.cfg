CONSTANTS
  d1 = d1
  d2 = d2
  d3 = d3
  o1 = o1
  o2 = o2
  o3 = o3
  NoDoc = NoDoc
  OldDoc = {o1, o2, o3}
  Attr <- SomeAttr
  Doc <- ThreeDocs
  FileName <- OneFile
  FileOf <- SharedFile
  MaxCache = 2
  MaxDiskErrors = 0
  Name <- SomeNames
  ListName <- Lists
  Tasks <- ShortTasks
  Outputs <- ShortOutputs
SPECIFICATION ComparisonSpec
INVARIANT EveryDocKept
