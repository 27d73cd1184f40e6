SPECIFICATION Spec
CONSTANTS
  Getters = {g1}
  Dumpers = {d1}
  Steady = {}
  MaxKeys = 2
  Chains = {h1}
  NoDeletion = NoDeletion
  Full = 9
  MaxSeq = 3
  MaxCalls = 1
  Revert = FALSE
  NoXchg = NoXchg
INVARIANTS
  GraceSafety
PROPERTIES
  DumpKeepsChain
