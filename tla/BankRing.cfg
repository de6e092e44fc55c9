SPECIFICATION Spec
CONSTANTS
  N = 3
  NumShards = 2
  Workload <- MCRing
  InitialBalance <- MCBalance
  KeepDoneCount = TRUE
  NoHistory = NoHistory
INVARIANTS
  TypeOK
  StartupBarrier
  StopBarrier
  RequestedOnce
  DestroyedMeansRequested
  NoInvalidAck
  ContextTracksTransfer
PROPERTY ShardsAreTaskQueues
\* The parent process may crash in the destructor of the ShardManager.
CHECK_DEADLOCK FALSE
