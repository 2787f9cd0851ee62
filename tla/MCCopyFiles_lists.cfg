SPECIFICATION Spec
CONSTANTS
  MaxEntries = 4
  Kinds <- AllKinds
  Faults <- AllFaults
INVARIANTS SkippingNeverDropsData WriteKeepsItsBuffer OneFileOpen ClosedUnlessLoadFailed
