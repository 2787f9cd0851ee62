SPECIFICATION Spec
CONSTANTS
  BI = BI
  BE = BE
  Folders <- BothFolders
  NumAliases = 4
  FolderOf <- TwoAndTwo
  MaxBatch = 4
  NumClusters = 7
  ClusterPages = 2
  FirstCluster <- StartOf
  AllocStart = 41
  Word = 65536
  Faults = {}
  MaxFailures = 1
  Installations <- AnyRoom
INVARIANTS SystemAreaIntact
