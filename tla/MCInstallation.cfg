SPECIFICATION Spec
CONSTANTS
  Consoles <- MCConsoles
  Payloads <- MCPayloads
  MaxAbsent = 1
  MaxFaults = 1
INVARIANTS ListExact FolderReady RightPartition BootOnlyWhenComplete 
CHECK_DEADLOCK FALSE
