SPECIFICATION Spec
CONSTANTS
  N = 2
  NumShards = 2
  Workload <- MCRing
  InitialBalance <- MCBalance
  KeepDoneCount = TRUE
  NoHistory = NoHistory
INVARIANT NoUseAfterDestroy
CHECK_DEADLOCK FALSE
