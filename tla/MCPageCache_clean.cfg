SPECIFICATION Spec
CONSTANTS
  NumSlots = 2
  NumBlocks = 2
  BlockSize = 2
  v1 = v1
  v2 = v2
  Vals <- TwoVals
  Erased = Erased
  CardFaults = FALSE
  MaxLost = 0
SYMMETRY ValueSymmetry
INVARIANTS TypeOK CachePagesUnique FlushReportsFailure
PROPERTIES ImplementsPageStore
