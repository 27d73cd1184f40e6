SPECIFICATION FairSpec
CONSTANTS
  t1 = t1
  t2 = t2
  t3 = t3
  c1 = c1
  c2 = c2
  c3 = c3
  Conns = {c1, c2}
  Threads = {t1, t2}
  ConnOf <- Apart
  Writer = t1
  Pages <- MCPages
  NewPages = {2}
  NoConn = NoConn
  Setups = {"data", "hash", "grow", "fails", "signals"}
  MaxVersion = 1
CHECK_DEADLOCK FALSE
INVARIANTS
  PagesInPlace
  SeesLoaded
PROPERTIES
  NeverOlder
  LoadEnds
