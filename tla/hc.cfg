SPECIFICATION Spec
CONSTANTS
  Keys = {k1, k2, k3, k4}
  Readers = {r1}
  Slots = 2
  Blocks <- MCTwoBlocks
  Setups <- MCSetups
  NoRef = NoRef
  Hole = Hole
  Other = Other
  Nothing = Nothing
SYMMETRY Symmetry
VIEW View
INVARIANTS
  ChainSound
  ReadsSound
PROPERTIES
  KeepsSet
