SPECIFICATION SetSpec
CONSTANTS
  Threads = {t1, t2}
  NoThread = NoThread
  Deletes = TRUE
  Words = {0}
  WordBits = 4
  IntBits = 2
  a = a
  b = b
  c = c
  d = d
  Keys = {a, b, c}
  MaxCalls = 3
  PairOf <- UpperHalf
CHECK_DEADLOCK FALSE
INVARIANTS
  KeysKept
