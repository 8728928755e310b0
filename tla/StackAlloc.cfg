SPECIFICATION RSpec
CONSTANTS
  InitialBytes = 16
  Lens = {8, 12, 40}
  JunkSizes = {0, 100}
  MaxFailures = 1
  MaxBlocks = 4
  MaxDepth = 2
  MaxLive = 3
  MaxLog = 4
INVARIANTS
  TypeOK
  NoOverlap
  InBounds
  OnlyBlockStartMisaligns
  ReplayReusesMemory
PROPERTIES
  InStackFollowsLifetimes
  ImplementsArena
