SPECIFICATION FileSpec
CONSTANTS
  BufferSize = 5
  KeyBuffer = 4
  MaxKey = 2
  MaxFile = 17
  OutSize = 4
  Page = 2
  Grow = 4
  MaxEntries = 2
  MaxText = 10
  Items = 9
  BucketOf <- Mixed
  Minus = {9}
  ChainSize = 2
  SingleSize = 4
  Chains = 3
  Errors = TRUE
  Setups <- MCSetups
CHECK_DEADLOCK FALSE
INVARIANTS
  NoDataRace
  FileInOrder
  WritesSound
  LinesDone
PROPERTIES
  AllAnswered
  EntriesKept
