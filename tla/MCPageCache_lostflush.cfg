SPECIFICATION Spec
CONSTANTS
  NumSlots = 2
  NumBlocks = 2
  BlockSize = 2
  v1 = v1
  v2 = v2
  Vals <- TwoVals
  Erased = Erased
  CardFaults = TRUE
  MaxLost = 0
INVARIANTS FlushReportsFailure

