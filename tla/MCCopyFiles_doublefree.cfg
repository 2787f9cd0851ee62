SPECIFICATION Spec
CONSTANTS
  MaxEntries = 3
  Kinds <- NonEmptyKinds
  Faults <- NoFaults
INVARIANTS NothingFreedTwice
