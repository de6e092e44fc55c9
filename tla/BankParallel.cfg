SPECIFICATION Spec
CONSTANTS
  N = 4
  NumShards = 2
  Workload <- MCPairs
  InitialBalance <- MCBalance
  KeepDoneCount = FALSE
  NoHistory = NoHistory
INVARIANTS
  ForwardedOnce
  Conservation
  SettledBeforeStop
  NoTransferDropped
  AllStoppedAfterPhase3
PROPERTY ImplementsLedger
\* An account that counted a DONE before STOP never ends: see BankHang.cfg.
CHECK_DEADLOCK FALSE
