SPECIFICATION FairSpec
CONSTANTS
  NumUnits = 3
  Faults <- AllFaults
INVARIANTS AnsweredMeansTaken ArgumentOfCommand NoUseAfterClose CompleteIsExact RestoreWritesInPlace
PROPERTIES OperationEnds
