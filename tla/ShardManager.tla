---------------------------- MODULE ShardManager ----------------------------
(***************************************************************************)
(* The parent's worker threads and what they share                         *)
(* (src/shard/shard_manager.cpp and the handlers of account_shard.cpp).    *)
(* Each shard's queue behaves as TaskQueue, which AccountShard implements; *)
(* here a task does what it does: sends, receives and callbacks into the   *)
(* manager.  Every access to an object another thread may touch (a queue,  *)
(* the context map, a channel) is a step of its own.                       *)
(*                                                                         *)
(* The manager's destructor destroys cross_shard_contexts_ and its mutex   *)
(* before shards_, whose destructors join the workers.  An access by a     *)
(* worker to an object that is gone is undefined; the model lets it do     *)
(* what a build may produce: act as on stale memory, have no effect, or    *)
(* bring the parent process down.                                          *)
(***************************************************************************)
EXTENDS Network

VARIABLES
  task_queue,            \* task_queue_ of each shard
  stop_flag,             \* stop_flag_ of each shard
  worker_pc,             \* where the worker of each shard is
  task,                  \* the task the worker of each shard executes
  local_transfers,       \* statistics of each shard
  cross_shard_transfers,
  failed_transfers,
  contexts,              \* cross_shard_contexts_, as the set of its values
  next_correlation_id,   \* next_correlation_id_
  contexts_alive,        \* the map and its mutex have not been destroyed
  shard_alive,           \* the AccountShard has not been destroyed
  crashed                \* the parent process went down

statVars == <<local_transfers, cross_shard_transfers, failed_transfers>>
lifeVars == <<stop_flag, contexts_alive, shard_alive>>
poolVars == <<task_queue, worker_pc, task, statVars, contexts,
              next_correlation_id, lifeVars, crashed>>

PoolInit ==
  /\ task_queue = [s \in Shards |-> << >>]
  /\ stop_flag = [s \in Shards |-> FALSE]
  /\ worker_pc = [s \in Shards |-> "wait"]
  /\ task = [s \in Shards |-> NoTask]
  /\ local_transfers = [s \in Shards |-> 0]
  /\ cross_shard_transfers = [s \in Shards |-> 0]
  /\ failed_transfers = [s \in Shards |-> 0]
  /\ contexts = {}
  /\ next_correlation_id = 1
  /\ contexts_alive = TRUE
  /\ shard_alive = [s \in Shards |-> TRUE]
  /\ crashed = FALSE

WorkerAt(s, pc) == ~ crashed /\ worker_pc[s] = pc
WorkerGoTo(s, pc) == worker_pc' = [worker_pc EXCEPT ![s] = pc]
Push(s, t) == task_queue' = [task_queue EXCEPT ![s] = Append(@, t)]

-----------------------------------------------------------------------------
(***************************************************************************)
(* worker_loop: take a task, or leave.                                     *)
(***************************************************************************)
HandlerOf(t) == CASE t.task_type = "LOCAL_TRANSFER"    -> "local_send"
                  [] t.task_type = "CROSS_SHARD_STEP1" -> "step1_send"
                  [] t.task_type = "CROSS_SHARD_STEP2" -> "step2_send"

\* Mutant: the newest task is taken first.
WorkerTakeNewest(s) ==
  /\ WorkerAt(s, "wait")
  /\ task_queue[s] # << >>
  /\ task' = [task EXCEPT ![s] = task_queue[s][Len(task_queue[s])]]
  /\ task_queue' = [task_queue EXCEPT ![s] = SubSeq(@, 1, Len(@) - 1)]
  /\ WorkerGoTo(s, HandlerOf(task_queue[s][Len(task_queue[s])]))
  /\ UNCHANGED <<chan, statVars, contexts, next_correlation_id, lifeVars, crashed>>

\* Mutant: the task is read but not popped.
WorkerTakeNoPop(s) ==
  /\ WorkerAt(s, "wait")
  /\ task_queue[s] # << >>
  /\ task' = [task EXCEPT ![s] = Head(task_queue[s])]
  /\ WorkerGoTo(s, HandlerOf(Head(task_queue[s])))
  /\ UNCHANGED <<chan, task_queue, statVars, contexts, next_correlation_id,
                 lifeVars, crashed>>

WorkerTake(s) ==
  /\ WorkerAt(s, "wait")
  /\ task_queue[s] # << >>
  /\ task' = [task EXCEPT ![s] = Head(task_queue[s])]
  /\ task_queue' = [task_queue EXCEPT ![s] = Tail(@)]
  /\ WorkerGoTo(s, HandlerOf(Head(task_queue[s])))
  /\ UNCHANGED <<chan, statVars, contexts, next_correlation_id, lifeVars, crashed>>

WorkerExit(s) ==
  /\ WorkerAt(s, "wait")
  /\ stop_flag[s]
  /\ task_queue[s] = << >>
  /\ WorkerGoTo(s, "exited")
  /\ UNCHANGED <<chan, task_queue, task, statVars, contexts,
                 next_correlation_id, lifeVars, crashed>>

\* The handler returns and the loop starts over with an empty task.
HandlerReturns(s) ==
  /\ WorkerGoTo(s, "wait")
  /\ task' = [task EXCEPT ![s] = NoTask]

(***************************************************************************)
(* send(account, TRANSFER) of the three handlers, and what each does next. *)
(***************************************************************************)
SendOrder(s, account) ==
  chan' = Send(chan, Parent, account, Msg("TRANSFER", task[s].order))

\* Mutant: the handler does not wait for the answer.
LocalSendOnly(s) ==
  /\ WorkerAt(s, "local_send")
  /\ SendOrder(s, Src(task[s].order))
  /\ HandlerReturns(s)
  /\ UNCHANGED <<task_queue, statVars, contexts, next_correlation_id,
                 lifeVars, crashed>>

\* Mutant: the order is sent to the destination as well.
LocalSendBoth(s) ==
  /\ WorkerAt(s, "local_send")
  /\ chan' = Send(Send(chan, Parent, Src(task[s].order),
                       Msg("TRANSFER", task[s].order)),
                  Parent, Dst(task[s].order), Msg("TRANSFER", task[s].order))
  /\ WorkerGoTo(s, "local_ack")
  /\ UNCHANGED <<task_queue, task, statVars, contexts, next_correlation_id,
                 lifeVars, crashed>>

LocalSend(s) ==
  /\ WorkerAt(s, "local_send")
  /\ SendOrder(s, Src(task[s].order))
  /\ WorkerGoTo(s, "local_ack")
  /\ UNCHANGED <<task_queue, task, statVars, contexts, next_correlation_id,
                 lifeVars, crashed>>

Step1Send(s) ==
  /\ WorkerAt(s, "step1_send")
  /\ SendOrder(s, Src(task[s].order))
  /\ WorkerGoTo(s, "step1_lookup")
  /\ UNCHANGED <<task_queue, task, statVars, contexts, next_correlation_id,
                 lifeVars, crashed>>

Step2Send(s) ==
  /\ WorkerAt(s, "step2_send")
  /\ SendOrder(s, Dst(task[s].order))
  /\ WorkerGoTo(s, "step2_ack")
  /\ UNCHANGED <<task_queue, task, statVars, contexts, next_correlation_id,
                 lifeVars, crashed>>

(***************************************************************************)
(* receive(dst, &ack_msg): whatever message comes first from dst is taken  *)
(* for the answer; only its type is looked at.                             *)
(***************************************************************************)
Count(stat, s) == [stat EXCEPT ![s] = @ + 1]

LocalAck(s) ==
  /\ WorkerAt(s, "local_ack")
  /\ HasMessage(Dst(task[s].order), Parent)
  /\ chan' = Receive(chan, Dst(task[s].order), Parent)
  /\ IF Oldest(Dst(task[s].order), Parent).type = "ACK"
     THEN /\ local_transfers' = Count(local_transfers, s)
          /\ UNCHANGED failed_transfers
     ELSE /\ failed_transfers' = Count(failed_transfers, s)
          /\ UNCHANGED local_transfers
  /\ HandlerReturns(s)
  /\ UNCHANGED <<task_queue, cross_shard_transfers, contexts,
                 next_correlation_id, lifeVars, crashed>>

Step2Ack(s) ==
  /\ WorkerAt(s, "step2_ack")
  /\ HasMessage(Dst(task[s].order), Parent)
  /\ chan' = Receive(chan, Dst(task[s].order), Parent)
  /\ IF Oldest(Dst(task[s].order), Parent).type = "ACK"
     THEN /\ cross_shard_transfers' = Count(cross_shard_transfers, s)
          /\ UNCHANGED failed_transfers
     ELSE /\ failed_transfers' = Count(failed_transfers, s)
          /\ UNCHANGED cross_shard_transfers
  /\ WorkerGoTo(s, "step2_cleanup")
  /\ UNCHANGED <<task_queue, task, local_transfers, contexts,
                 next_correlation_id, lifeVars, crashed>>

-----------------------------------------------------------------------------
(***************************************************************************)
(* submit_cross_shard_step2, called by the worker of the source shard:     *)
(* copy the context under context_mutex_, then submit step 2 to the        *)
(* destination shard, whose queue_cv_ is notified after the push.          *)
(* step1_completed is set in the copy.                                     *)
(***************************************************************************)
ContextOf(corr) == {c \in contexts : c.task.correlation_id = corr}

Step1Found(s) ==
  /\ WorkerAt(s, "step1_lookup")
  /\ \E c \in ContextOf(task[s].correlation_id) :
       task' = [task EXCEPT ![s] =
                  Step2Task(c.task.order, task[s].correlation_id)]
  /\ WorkerGoTo(s, "step2_push")
  /\ UNCHANGED <<chan, task_queue, statVars, contexts, next_correlation_id,
                 lifeVars, crashed>>

\* "correlation_id not found": report it and give the transfer up.
Step1NotFound(s) ==
  /\ WorkerAt(s, "step1_lookup")
  /\ contexts_alive => ContextOf(task[s].correlation_id) = {}
  /\ HandlerReturns(s)
  /\ UNCHANGED <<chan, task_queue, statVars, contexts, next_correlation_id,
                 lifeVars, crashed>>

\* Mutant: step 2 is queued with the shard of the source.
Step2PushToSource(s) ==
  LET d == GetShardId(Src(task[s].order)) IN
  /\ WorkerAt(s, "step2_push")
  /\ IF shard_alive[d] THEN Push(d, task[s]) ELSE UNCHANGED task_queue
  /\ WorkerGoTo(s, "step2_notify")
  /\ UNCHANGED <<chan, task, statVars, contexts, next_correlation_id, lifeVars,
                 crashed>>

Step2Push(s) ==
  LET d == GetShardId(Dst(task[s].order)) IN
  /\ WorkerAt(s, "step2_push")
  /\ IF shard_alive[d] THEN Push(d, task[s]) ELSE UNCHANGED task_queue
  /\ WorkerGoTo(s, "step2_notify")
  /\ UNCHANGED <<chan, task, statVars, contexts, next_correlation_id, lifeVars,
                 crashed>>

\* The notification itself is AccountShard's: here the worker only passes it.
Step2Notify(s) ==
  /\ WorkerAt(s, "step2_notify")
  /\ HandlerReturns(s)
  /\ UNCHANGED <<chan, task_queue, statVars, contexts, next_correlation_id,
                 lifeVars, crashed>>

\* Mutant: the context is never erased.
Step2CleanupLeaks(s) ==
  /\ WorkerAt(s, "step2_cleanup")
  /\ HandlerReturns(s)
  /\ UNCHANGED <<chan, task_queue, statVars, contexts, next_correlation_id,
                 lifeVars, crashed>>

(***************************************************************************)
(* cleanup_cross_shard_context, called by the worker of the destination.   *)
(***************************************************************************)
Step2Cleanup(s) ==
  /\ WorkerAt(s, "step2_cleanup")
  /\ contexts' = contexts \ ContextOf(task[s].correlation_id)
  /\ HandlerReturns(s)
  /\ UNCHANGED <<chan, task_queue, statVars, next_correlation_id, lifeVars,
                 crashed>>

(***************************************************************************)
(* The next step of the worker of shard s touches a destroyed object.      *)
(***************************************************************************)
UsesDestroyed(s) ==
  \/ WorkerAt(s, "step1_lookup") /\ ~ contexts_alive
  \/ WorkerAt(s, "step2_cleanup") /\ ~ contexts_alive
  \/ /\ WorkerAt(s, "step2_push") \/ WorkerAt(s, "step2_notify")
     /\ ~ shard_alive[GetShardId(Dst(task[s].order))]

Crash(s) ==
  /\ UsesDestroyed(s)
  /\ crashed' = TRUE
  /\ UNCHANGED <<chan, task_queue, worker_pc, task, statVars, contexts,
                 next_correlation_id, lifeVars>>

WorkerStep(s) ==
  \/ WorkerTake(s)
  \/ WorkerExit(s)
  \/ LocalSend(s)
  \/ LocalAck(s)
  \/ Step1Send(s)
  \/ Step1Found(s)
  \/ Step1NotFound(s)
  \/ Step2Push(s)
  \/ Step2Notify(s)
  \/ Step2Send(s)
  \/ Step2Ack(s)
  \/ Step2Cleanup(s)
  \/ Crash(s)

-----------------------------------------------------------------------------
(***************************************************************************)
(* submit_transfer, called by the main thread: route order i.  For a       *)
(* cross-shard transfer the context is saved before step 1 is queued, and  *)
(* nobody looks for it in between, so that the two are one step.           *)
(***************************************************************************)
SubmitLocal(i) ==
  /\ IsLocal(i)
  /\ Push(GetShardId(Src(i)), LocalTask(i))
  /\ UNCHANGED <<contexts, next_correlation_id>>

SubmitCrossShard(i) ==
  /\ ~ IsLocal(i)
  /\ Push(GetShardId(Src(i)), Step1Task(i, next_correlation_id))
  /\ contexts' = contexts \cup {Context(i, next_correlation_id)}
  /\ next_correlation_id' = next_correlation_id + 1

SubmitTransfer(i) ==
  /\ SubmitLocal(i) \/ SubmitCrossShard(i)
  /\ UNCHANGED <<chan, worker_pc, task, statVars, lifeVars, crashed>>
=============================================================================
