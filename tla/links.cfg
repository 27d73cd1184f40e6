SPECIFICATION FairSpec
CONSTANTS
  Procs = {p1, p2}
  Makers = {p1, p2}
  None = None
  MaxJobs = 2
  MaxNodes = 5
CHECK_DEADLOCK FALSE
INVARIANTS
  Told
  Whole
  NoLateWork
PROPERTIES
  Follows
