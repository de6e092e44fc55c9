SPECIFICATION StampedFairSpec
CONSTANTS
  N = 3
  NumShards = 1
  Workload <- MCRing
  InitialBalance <- MCBalance
  KeepDoneCount = TRUE
  NoHistory = NoHistory
  MAX_T = 63
  Before <- MCBefore
INVARIANTS
  SettledBeforeStop
  AllStoppedAfterPhase3
  HistoriesCollected
  HistoryIndexedByTime
  HistoryKeepsBalance
  SnapshotConserves
PROPERTIES
  SuccessMeansCredited
  ServesLedger
  Termination
