SPECIFICATION FairSpec
CONSTANTS
  N = 2
  NumShards = 1
  Workload <- MCRing
  InitialBalance <- MCBalance
  KeepDoneCount = FALSE
  NoHistory = NoHistory
PROPERTY Termination
CHECK_DEADLOCK FALSE
