SPECIFICATION Spec
CONSTANTS
  WorldSize = 2
  Capacity = 2
  Kinds = {"vv"}
  JobCounts = {3}
  OutputSizes = {1}
  SharedSizes = {1}
  MayThrow = FALSE
  MayNest = TRUE
PROPERTIES
  NestedFallsBack
