SPECIFICATION StampedSpec
CONSTANTS
  N = 3
  NumShards = 1
  Workload <- MCLong
  InitialBalance <- MCBalance
  KeepDoneCount = TRUE
  NoHistory = NoHistory
  MAX_T = 255
  Before <- MCAnyBefore
INVARIANT HistoryKeepsBalance
CHECK_DEADLOCK FALSE
