SPECIFICATION Spec
CONSTANTS
    Cards = {"c1", "c2"}
    Files <- MCFiles
    OldFiles <- MCOldFiles
    Twins <- MCTwins
    RpcUnits = 4
    MaxTries = 3
    MaxFaults = 2
    MaxSwaps = 1
CHECK_DEADLOCK FALSE
INVARIANTS
    SignedIsBound
PROPERTIES
    AuthMeansBoth
    FailedTryLeavesNoPair
    CleanTrySucceeds
    BootsOnlyOnItsCard
    Returns
