SPECIFICATION MemSpec
CONSTANTS
  MinHole = 3
  Indexed = 4
  PageSize = 12
  SubSize = 6
  PageHead = 1
  SubHead = 1
  BlockLen = 5
  PageBlocks = 2
  HeaderPages = 1
  MaxPages = 3
  OffsetPages = 8
  Asks <- MCAsks
CONSTRAINT NotLost
VIEW View
INVARIANTS
  PlacesSound
  HeadersSound
PROPERTIES
  ChangesMarked
