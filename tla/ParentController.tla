-------------------------- MODULE ParentController --------------------------
(***************************************************************************)
(* The main thread of the parent process                                   *)
(* (src/process/parent_controller.cpp): wait for the accounts, submit the  *)
(* transfers, wait for the shards, destroy the ShardManager, stop the      *)
(* accounts and collect their histories.                                   *)
(***************************************************************************)
EXTENDS ShardManager

CONSTANT NoHistory   \* an entry of all_history that was never written

ASSUME NoHistoryAssumption == NoHistory \notin Int

VARIABLES
  main_pc,     \* where the main thread is
  cursor,      \* its loop variable: an account, an order or a shard
  collected    \* the last balance in all_history.s_history[a - 1]

mainVars == <<main_pc, cursor, collected>>

MainInit ==
  /\ main_pc = "phase1"
  /\ cursor = 1
  /\ collected = [a \in Accounts |-> NoHistory]

MainAt(pc) == ~ crashed /\ main_pc = pc

\* One iteration of "for (...; cursor <= last; ...)" in phase pc is over:
\* go on with the next value, or with phase next from its first value.
Iterate(pc, last, next, first) ==
  /\ main_pc' = IF cursor < last THEN pc ELSE next
  /\ cursor' = IF cursor < last THEN cursor + 1 ELSE first

\* receive(cursor, &msg)
ReceiveNext ==
  /\ HasMessage(cursor, Parent)
  /\ chan' = Receive(chan, cursor, Parent)

\* Mutant: phase 1 does not wait for the last account.
Phase1WaitEarly ==
  /\ MainAt("phase1")
  /\ ReceiveNext
  /\ Iterate("phase1", N - 1, IF Orders = {} THEN "wait_all" ELSE "submit",
             IF Orders = {} THEN 0 ELSE 1)
  /\ UNCHANGED <<poolVars, collected>>

Phase1WaitStartup ==
  /\ MainAt("phase1")
  /\ ReceiveNext
  /\ Iterate("phase1", N, IF Orders = {} THEN "wait_all" ELSE "submit",
             IF Orders = {} THEN 0 ELSE 1)
  /\ UNCHANGED <<poolVars, collected>>

(***************************************************************************)
(* Phase 2: the ShardManager lives from the first submission to the end of *)
(* the scope.                                                              *)
(***************************************************************************)
Phase2Submit ==
  /\ MainAt("submit")
  /\ SubmitTransfer(cursor)
  /\ Iterate("submit", Len(Workload), "wait_all", 0)
  /\ UNCHANGED collected

\* wait_all_complete: poll the shards one after the other; a poll that sees
\* a task sleeps and changes nothing.
WaitAllComplete ==
  /\ MainAt("wait_all")
  /\ task_queue[cursor] = << >>
  /\ Iterate("wait_all", NumShards - 1, "destroy_contexts", 0)
  /\ UNCHANGED <<chan, poolVars, collected>>

\* ~ShardManager: the members declared after shards_ go first.
DestroyContexts ==
  /\ MainAt("destroy_contexts")
  /\ contexts_alive' = FALSE
  /\ main_pc' = "stop_shard"
  /\ UNCHANGED <<chan, task_queue, worker_pc, task, statVars, contexts,
                 next_correlation_id, stop_flag, shard_alive, crashed,
                 cursor, collected>>

\* Then the shards, first to last as libstdc++ destroys a vector: stop the
\* worker, join it, release the shard.
StopShard ==
  /\ MainAt("stop_shard")
  /\ stop_flag' = [stop_flag EXCEPT ![cursor] = TRUE]
  /\ main_pc' = "join_shard"
  /\ UNCHANGED <<chan, task_queue, worker_pc, task, statVars, contexts,
                 next_correlation_id, contexts_alive, shard_alive, crashed,
                 cursor, collected>>

\* Mutant: the worker is detached instead of joined.
DetachShard ==
  /\ MainAt("join_shard")
  /\ shard_alive' = [shard_alive EXCEPT ![cursor] = FALSE]
  /\ Iterate("stop_shard", NumShards - 1, "phase3_stop", 1)
  /\ UNCHANGED <<chan, task_queue, worker_pc, task, statVars, contexts,
                 next_correlation_id, contexts_alive, stop_flag, crashed,
                 collected>>

JoinShard ==
  /\ MainAt("join_shard")
  /\ worker_pc[cursor] = "exited"
  /\ shard_alive' = [shard_alive EXCEPT ![cursor] = FALSE]
  /\ Iterate("stop_shard", NumShards - 1, "phase3_stop", 1)
  /\ UNCHANGED <<chan, task_queue, worker_pc, task, statVars, contexts,
                 next_correlation_id, contexts_alive, stop_flag, crashed,
                 collected>>

(***************************************************************************)
(* Phases 3 and 4.  Phase 3 looks at no message it receives.               *)
(***************************************************************************)
Phase3Stop ==
  /\ MainAt("phase3_stop")
  /\ chan' = SendMulticast(chan, Parent, Msg("STOP", 0))
  /\ main_pc' = "phase3"
  /\ UNCHANGED <<poolVars, cursor, collected>>

\* Mutant: phase 3 does not wait for the last account.
Phase3WaitEarly ==
  /\ MainAt("phase3")
  /\ ReceiveNext
  /\ Iterate("phase3", N - 1, "phase4", 1)
  /\ UNCHANGED <<poolVars, collected>>

Phase3WaitDone ==
  /\ MainAt("phase3")
  /\ ReceiveNext
  /\ Iterate("phase3", N, "phase4", 1)
  /\ UNCHANGED <<poolVars, collected>>

Phase4CollectHistory ==
  /\ MainAt("phase4")
  /\ ReceiveNext
  /\ LET m == Oldest(cursor, Parent) IN
       collected' = [collected EXCEPT ![cursor] =
                       IF m.type = "BALANCE_HISTORY" THEN m.val ELSE @]
  /\ Iterate("phase4", N, "finished", 1)
  /\ UNCHANGED poolVars

MainStep ==
  \/ Phase1WaitStartup
  \/ Phase2Submit
  \/ WaitAllComplete
  \/ DestroyContexts
  \/ StopShard
  \/ JoinShard
  \/ Phase3Stop
  \/ Phase3WaitDone
  \/ Phase4CollectHistory
=============================================================================
