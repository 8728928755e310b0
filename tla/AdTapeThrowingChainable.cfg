SPECIFICATION Spec
CONSTANTS
  Partials = {1}
  MaxOperands = 1
  ChainNests = {TRUE, FALSE}
  Throwers = {"chainable", "client"}
  CatchInScope = FALSE
  ChainableIds = {c1, c2}
  MaxVaris = 3
  MaxDepth = 2
  MaxAdj = 0
INVARIANT DeletedOnce
