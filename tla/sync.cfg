SPECIFICATION FairSpec
CONSTANTS
  Procs = {p1, p2}
  Units <- MCUnits
  Head <- MCHead
  Bits = 6
  Changes <- MCChanges
  Nobody = Nobody
  Dead = Dead
  NoPage = NoPage
  Setups = {"safe", "late", "memory"}
  MayRevert = TRUE
  UseTry = TRUE
  MaxOps = 2
  MaxCrashes = 1
  MaxFails = 1
CHECK_DEADLOCK FALSE
INVARIANTS
  NeverHalf
  DiskSound
  MarksChained
  CleanSame
PROPERTIES
  FlushEnds
