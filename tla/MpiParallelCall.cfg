SPECIFICATION FairSpec
CONSTANTS
  WorldSize = 2
  Capacity = 2
  Kinds = {"dd", "vv"}
  JobCounts = {1, 3}
  OutputSizes = {0, 2}
  SharedSizes = {1}
  MayThrow = TRUE
  MayNest = FALSE
INVARIANTS
  TypeOK
  CollectivesMatch
  CachesAgree
PROPERTIES
  ImplementsMapReduce
  ShutdownCompletes
  WorkersComeBack
