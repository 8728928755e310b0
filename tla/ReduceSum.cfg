SPECIFICATION FairSpec
CONSTANTS
  Threads = {t1, t2, t3}
  Chains = {c1, c2}
  N = 2
  Kinds = {"reduce_sum", "map_rect"}
  MayThrow = TRUE
INVARIANTS
  TypeOK
  ReducesToTheSum
  TapeServesOneChain
PROPERTIES
  EveryCallReturns
