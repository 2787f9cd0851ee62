SPECIFICATION FairSpec
CONSTANTS
  BI = BI
  BE = BE
  Folders <- BothFolders
  NumAliases = 4
  FolderOf <- TwoAndTwo
  MaxBatch = 3
  NumClusters = 7
  ClusterPages = 2
  FirstCluster <- StartOf
  AllocStart = 41
  Word = 65536
  Faults = {"call", "card"}
  MaxFailures = 2
  Installations <- AnyRoom
INVARIANTS FoldersSound LinkedOnce UnlinkedAll RoomSuffices ForeignDataKept
PROPERTIES SessionEnds
