SPECIFICATION StampedSpec
CONSTANTS
  N = 2
  NumShards = 2
  Workload <- MCRing
  InitialBalance <- MCBalance
  KeepDoneCount = TRUE
  NoHistory = NoHistory
  MAX_T = 63
  Before <- MCBefore
INVARIANT HistoryIndexedByTime
CHECK_DEADLOCK FALSE
