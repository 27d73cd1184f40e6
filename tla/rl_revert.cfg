SPECIFICATION FairSpec
CONSTANTS
  Getters = {g1, g2}
  Dumpers = {}
  Steady = {g1}
  MaxKeys = 1
  Chains = {}
  NoDeletion = NoDeletion
  Full = 3
  MaxSeq = 3
  MaxCalls = 1
  Revert = TRUE
  NoXchg = NoXchg
INVARIANTS
  FullExclusion
PROPERTIES
  KeepsPromise
  WriterReturns
  CallReturns
