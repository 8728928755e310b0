SPECIFICATION Spec
CONSTANTS
  Partials = {2}
  MaxOperands = 2
  ChainNests = {TRUE, FALSE}
  Throwers = {}
  CatchInScope = FALSE
  ChainableIds = {}
  MaxVaris = 4
  MaxDepth = 1
  MaxAdj = 2
INVARIANTS
  SweepSurvivesNesting
  SweepIsTransposedJacobian
