SPECIFICATION Spec
CONSTANTS
  Partials = {1}
  MaxOperands = 2
  ChainNests = {TRUE}
  Throwers = {"vari", "chainable", "client"}
  CatchInScope = FALSE
  ChainableIds = {c1, c2}
  MaxVaris = 3
  MaxDepth = 2
  MaxAdj = 0
SYMMETRY ChainableSymmetry
INVARIANTS
  TypeOK
  TapeMatchesArena
  MarksInLockstep
  ChainablesTracked
  ChainReadsLiveMemory
  SweepSurvivesNesting
  SweptAreBuilt
PROPERTIES
  NestedZeroingIsLocal
  UsesArena
