SPECIFICATION StampedSpec
CONSTANTS
  N = 3
  NumShards = 2
  Workload <- MCShared
  InitialBalance <- MCBalance
  KeepDoneCount = TRUE
  NoHistory = NoHistory
  MAX_T = 63
  Before <- MCBefore
INVARIANTS
  OneReceiverPerChannel
  AnswersMatchCredits
  StampsIncrease
\* The parent process may crash in the destructor of the ShardManager.
CHECK_DEADLOCK FALSE
