----------------------- MODULE StampedBankProperties -----------------------
(***************************************************************************)
(* What is claimed of the clocks, the stamps and the histories.            *)
(***************************************************************************)
EXTENDS StampedBank, BankSystemProperties

\* On every channel the stamps increase, although the threads of the parent
\* draw theirs from one clock and send them later (account_shard.cpp:105-107):
\* only the worker of an account's own shard, and then the main thread, send
\* to it.
StampsIncrease ==
  \A p, q \in Procs : \A j, k \in DOMAIN stamps[p][q] :
    j < k => stamps[p][q][j] < stamps[p][q][k]

\* Entry t of a history carries the time t, so that a reader who indexes by time
\* finds the entry of that time (banking.h:39-42).  What the entry holds is the
\* subject of the next two properties.
HistoryIndexedByTime ==
  \A a \in Accounts : \A t \in 0 .. history[a].s_history_len - 1 :
    history[a].s_history[t].s_time = t

\* now_balance returns the balance of the account (utils.h:27-34).
HistoryKeepsBalance ==
  \A a \in Accounts : NowBalance(history[a]) = balance[a]

\* The state of account a at time t; after the last entry nothing changes.
StateAt(a, t) ==
  IF t < history[a].s_history_len THEN history[a].s_history[t]
  ELSE State(t, NowBalance(history[a]), 0)

Times == 0 .. MapThenSumSet(LAMBDA a : history[a].s_history_len, Accounts)

\* The balances at time t, and what is pending then.
TotalAt(t) ==
  MapThenSumSet(LAMBDA a : StateAt(a, t).s_balance
                             + StateAt(a, t).s_balance_pending_in, Accounts)

\* At every time, what the accounts hold and what is on its way to them is
\* what there was at the start: the histories are a consistent cut for every
\* t once no transfer is under way (banking.h:28-32).
SnapshotConserves ==
  (\A i \in Orders : debited[i] = credited[i]) =>
    \A t \in Times : TotalAt(t) = InitialTotal
=============================================================================
