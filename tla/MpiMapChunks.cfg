SPECIFICATION Spec
CONSTANTS
  MaxJobs = 13
  MaxWorld = 5
  MaxChunkSize = 2
INVARIANTS
  ComputesMapChunks
  RootHasLeastButSome
PROPERTIES
  IndexInVector
CHECK_DEADLOCK FALSE
