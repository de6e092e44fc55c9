---------------------------- MODULE MCBankSystem ----------------------------
(***************************************************************************)
(* Workloads and balances for checking BankSystem.                         *)
(***************************************************************************)
EXTENDS BankSystemProperties

\* What ParentController::phase2_execute_transfers submits.
MCRing == RingWorkload(N)

\* Two disjoint pairs of accounts, each in a shard of its own when there are
\* two shards: both workers run at the same time.
MCPairs == << [src |-> 1, dst |-> 3, amount |-> 2],
              [src |-> 2, dst |-> 4, amount |-> 1] >>

\* Distinct, and small enough that the first payer is overdrawn.
MCBalance == [a \in Accounts |-> a - 1]
=============================================================================
