SPECIFICATION FairSpec
CONSTANTS
  CardKinds = {"raw", "plain", "multi"}
  Consoles <- MCConsoles
  MaxSwaps = 1
  MaxPresses = 1
INVARIANTS NoInstallOverMulti NoCutDuringInstall LockReturned NeedsMet
PROPERTY OperationReturns
CHECK_DEADLOCK FALSE
