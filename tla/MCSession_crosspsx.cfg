SPECIFICATION Spec
CONSTANTS
  CardKinds = {"raw", "plain", "multi"}
  Consoles <- MCConsoles
  MaxSwaps = 1
  MaxPresses = 1
INVARIANTS MultiInstallKept
CHECK_DEADLOCK FALSE
