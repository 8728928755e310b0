SPECIFICATION FairSpec
CONSTANTS
  WorldSize = 3
  Capacity = 1
  Kinds = {"dd", "vv"}
  JobCounts = {2, 4}
  OutputSizes = {1}
  SharedSizes = {1}
  MayThrow = TRUE
  MayNest = TRUE
INVARIANTS
  CollectivesMatch
PROPERTIES
  ImplementsMapReduce
