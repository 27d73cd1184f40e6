SPECIFICATION CompareSpec
CONSTANTS
  Keys = {1, 2, 3}
  Values = {0, 1}
  ChainOf <- MCChainOf
  PartOf <- MCPartOf
  c1 = c1
  Comparers = {c1, c2}
  Others = {o1}
  Gone = Gone
  Usages <- MCUsages
CHECK_DEADLOCK FALSE
INVARIANTS
  Compared
  MarksAgree
