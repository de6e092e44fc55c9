--------------------------- MODULE MCAccountShard ---------------------------
(***************************************************************************)
(* Model values for checking AccountShard and AccountShardProperties.      *)
(***************************************************************************)
EXTENDS AccountShardProperties, TLC

CONSTANTS p1, p2, t1, t2, t3

MCPeers == {p1, p2}
MCTasks == {t1, t2, t3}
MCSymmetry == Permutations(MCPeers) \cup Permutations(MCTasks)
=============================================================================
