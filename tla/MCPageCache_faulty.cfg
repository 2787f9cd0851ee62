SPECIFICATION FairSpec
CONSTANTS
  NumSlots = 3
  NumBlocks = 2
  BlockSize = 2
  v1 = v1
  v2 = v2
  Vals <- OneVal
  Erased = Erased
  CardFaults = TRUE
  MaxLost = 0
INVARIANTS FlushListFits CleanPagesSafe
PROPERTIES DamageConfined RequestCompletes
