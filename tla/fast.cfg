SPECIFICATION FairModesSpec
CONSTANTS
  Threads = {t1, t2}
  NoThread = NoThread
  Deletes = TRUE
  Words = {0}
  WordBits = 4
  IntBits = 2
  a = a
  b = b
  c = c
  d = d
  Keys = {a, b, c}
  MaxCalls = 2
  PairOf <- LowerHalf
  NoTid = NoTid
  Workers = {w1, w2, w3}
  Homes = {h1, h2}
  w1 = w1
  w2 = w2
  w3 = w3
  h1 = h1
  h2 = h2
  HomeOf <- TwoAndOne
CHECK_DEADLOCK FALSE
INVARIANTS
  Exclusive
  KeysKept
  Settled
  Guarded
PROPERTIES
  TakerEnters
  CallsEnd
  WaitsEnd
