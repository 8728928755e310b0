SPECIFICATION Spec
CONSTANTS
  Threads = {t1, t2}
  Chains = {c1, c2}
  N = 2
  Kinds = {"double"}
  MayThrow = TRUE
INVARIANT TapeServesOneChain
