---------------------------- MODULE AccountShard ----------------------------
(***************************************************************************)
(* One shard, at the level of its mutex and its condition variable         *)
(* (src/shard/account_shard.cpp).  A worker thread waits on queue_cv_ and  *)
(* takes tasks; the owner thread (the one that holds the ShardManager)     *)
(* submits tasks, calls wait_completion and then runs the destructor; peer *)
(* threads (the workers of the other shards, which submit the second step  *)
(* of a cross-shard transfer) submit tasks at any time while the shard     *)
(* exists.  What a task does is left to ShardManager: here it takes some   *)
(* time and ends.                                                          *)
(*                                                                         *)
(* A critical section that only pushes to the queue, or only tests it for  *)
(* emptiness, is one step that needs the mutex free.  The worker's section *)
(* is split at every point where another thread may act: stop_flag_ is an  *)
(* atomic that the destructor writes without the mutex.                    *)
(***************************************************************************)
EXTENDS Naturals, Sequences

CONSTANTS
  Peers,   \* threads other than the owner that may submit tasks
  Owner,   \* the thread that owns the shard and destroys it
  Tasks,   \* the tasks, each submitted at most once
  NoTask   \* the worker's local "TransferTask task(0, 0, 0)"

ASSUME OwnerIsNoPeer == Owner \notin Peers
ASSUME NoTaskIsNoTask == NoTask \notin Tasks

Threads == Peers \cup {Owner}

VARIABLES
  task_queue,    \* task_queue_
  queue_mutex,   \* queue_mutex_: "free", or "worker" while the worker holds it
  stop_flag,     \* stop_flag_
  worker_pc,     \* where the worker is in worker_loop
  task,          \* the task the worker has taken, or NoTask
  thread_pc,     \* where each submitting thread is
  unsubmitted,   \* tasks that no thread has submitted yet
  finished       \* history variable: tasks process_task has returned from

vars == <<task_queue, queue_mutex, stop_flag, worker_pc, task, thread_pc,
          unsubmitted, finished>>

workerVars == <<queue_mutex, worker_pc, task>>

Init ==
  /\ task_queue = << >>
  /\ queue_mutex = "free"
  /\ stop_flag = FALSE
  /\ worker_pc = "lock"
  /\ task = NoTask
  /\ thread_pc = [th \in Threads |-> "run"]
  /\ unsubmitted = Tasks
  /\ finished = {}

-----------------------------------------------------------------------------
\* queue_cv_.notify_one(): wakes the worker if it is blocked, and is lost if
\* it is not.
NotifyOne ==
  worker_pc' = IF worker_pc = "waiting" THEN "lock" ELSE worker_pc

GoTo(th, pc) == thread_pc' = [thread_pc EXCEPT ![th] = pc]

destroyed == thread_pc[Owner] = "destroyed"

\* Mutant: the push forgets the notification.
SubmitPushNoNotify(th, t) ==
  /\ thread_pc[th] = "run"
  /\ ~ destroyed
  /\ t \in unsubmitted
  /\ queue_mutex = "free"
  /\ task_queue' = Append(task_queue, t)
  /\ unsubmitted' = unsubmitted \ {t}
  /\ UNCHANGED <<stop_flag, workerVars, thread_pc, finished>>

\* Mutant: a default task is pushed instead of the argument.
SubmitPushDefaultTask(th, t) ==
  /\ thread_pc[th] = "run"
  /\ ~ destroyed
  /\ t \in unsubmitted
  /\ queue_mutex = "free"
  /\ task_queue' = Append(task_queue, NoTask)
  /\ unsubmitted' = unsubmitted \ {t}
  /\ GoTo(th, "notify")
  /\ UNCHANGED <<stop_flag, workerVars, finished>>

(***************************************************************************)
(* submit_task: the push under the mutex, then the notification outside it *)
(***************************************************************************)
SubmitPush(th, t) ==
  /\ thread_pc[th] = "run"
  /\ ~ destroyed
  /\ t \in unsubmitted
  /\ queue_mutex = "free"
  /\ task_queue' = Append(task_queue, t)
  /\ unsubmitted' = unsubmitted \ {t}
  /\ GoTo(th, "notify")
  /\ UNCHANGED <<stop_flag, workerVars, finished>>

SubmitNotify(th) ==
  /\ thread_pc[th] = "notify"
  /\ NotifyOne
  /\ GoTo(th, "run")
  /\ UNCHANGED <<task_queue, stop_flag, queue_mutex, task, unsubmitted,
                 finished>>

(***************************************************************************)
(* wait_completion: the owner polls until it sees the queue empty.  A poll *)
(* that sees a task sleeps 50 ms and changes nothing.                      *)
(***************************************************************************)
WaitCompletionBegin ==
  /\ thread_pc[Owner] = "run"
  /\ GoTo(Owner, "polling")
  /\ UNCHANGED <<task_queue, stop_flag, workerVars, unsubmitted, finished>>

WaitCompletionEnd ==
  /\ thread_pc[Owner] = "polling"
  /\ queue_mutex = "free"
  /\ task_queue = << >>
  /\ GoTo(Owner, "completed")
  /\ UNCHANGED <<task_queue, stop_flag, workerVars, unsubmitted, finished>>

(***************************************************************************)
(* ~AccountShard: stop_flag_ is stored and the worker notified, both       *)
(* without queue_mutex_, and then the worker is joined.                    *)
(***************************************************************************)
DestructorStop ==
  /\ thread_pc[Owner] = "completed"
  /\ stop_flag' = TRUE
  /\ GoTo(Owner, "stop_notify")
  /\ UNCHANGED <<task_queue, workerVars, unsubmitted, finished>>

DestructorNotify ==
  /\ thread_pc[Owner] = "stop_notify"
  /\ NotifyOne
  /\ GoTo(Owner, "join")
  /\ UNCHANGED <<task_queue, stop_flag, queue_mutex, task, unsubmitted,
                 finished>>

DestructorJoin ==
  /\ thread_pc[Owner] = "join"
  /\ worker_pc = "exited"
  /\ GoTo(Owner, "destroyed")
  /\ UNCHANGED <<task_queue, stop_flag, workerVars, unsubmitted, finished>>

-----------------------------------------------------------------------------
(***************************************************************************)
(* worker_loop.  queue_cv_.wait(lock, pred) evaluates pred with the mutex  *)
(* held; if it is false it releases the mutex and blocks in one step, and  *)
(* evaluates pred again, with the mutex, once it is woken.                 *)
(***************************************************************************)
WaitPredicate == stop_flag \/ task_queue # << >>

\* Mutant: wait without its predicate.
WorkerLockNoPredicate ==
  /\ worker_pc = "lock"
  /\ queue_mutex = "free"
  /\ queue_mutex' = "worker"
  /\ worker_pc' = "ready"
  /\ UNCHANGED <<task_queue, stop_flag, task, thread_pc, unsubmitted,
                 finished>>

WorkerLock ==
  /\ worker_pc = "lock"
  /\ queue_mutex = "free"
  /\ queue_mutex' = "worker"
  /\ worker_pc' = IF WaitPredicate THEN "ready" ELSE "blocking"
  /\ UNCHANGED <<task_queue, stop_flag, task, thread_pc, unsubmitted,
                 finished>>

WorkerBlock ==
  /\ worker_pc = "blocking"
  /\ queue_mutex' = "free"
  /\ worker_pc' = "waiting"
  /\ UNCHANGED <<task_queue, stop_flag, task, thread_pc, unsubmitted,
                 finished>>

\* The standard allows wait to return with no notification.
SpuriousWakeup ==
  /\ worker_pc = "waiting"
  /\ worker_pc' = "lock"
  /\ UNCHANGED <<task_queue, queue_mutex, stop_flag, task, thread_pc,
                 unsubmitted, finished>>

\* Mutant: leave as soon as the flag is seen, whatever is queued.
WorkerExitUndrained ==
  /\ worker_pc = "ready"
  /\ stop_flag
  /\ queue_mutex' = "free"
  /\ worker_pc' = "exited"
  /\ UNCHANGED <<task_queue, stop_flag, task, thread_pc, unsubmitted,
                 finished>>

WorkerExit ==
  /\ worker_pc = "ready"
  /\ stop_flag /\ task_queue = << >>
  /\ queue_mutex' = "free"
  /\ worker_pc' = "exited"
  /\ UNCHANGED <<task_queue, stop_flag, task, thread_pc, unsubmitted,
                 finished>>

\* Mutant: a stopped worker pops the task and starts over without running it.
WorkerTakeStopped ==
  /\ worker_pc = "ready"
  /\ task_queue # << >>
  /\ task' = IF stop_flag THEN NoTask ELSE Head(task_queue)
  /\ task_queue' = Tail(task_queue)
  /\ queue_mutex' = "free"
  /\ worker_pc' = IF stop_flag THEN "lock" ELSE "busy"
  /\ UNCHANGED <<stop_flag, thread_pc, unsubmitted, finished>>

WorkerTake ==
  /\ worker_pc = "ready"
  /\ task_queue # << >>
  /\ task' = Head(task_queue)
  /\ task_queue' = Tail(task_queue)
  /\ queue_mutex' = "free"
  /\ worker_pc' = "busy"
  /\ UNCHANGED <<stop_flag, thread_pc, unsubmitted, finished>>

\* process_task(task) has returned; the next iteration starts with a new
\* TransferTask(0, 0, 0).
WorkerFinish ==
  /\ worker_pc = "busy"
  /\ finished' = finished \cup {task}
  /\ task' = NoTask
  /\ worker_pc' = "lock"
  /\ UNCHANGED <<task_queue, queue_mutex, stop_flag, thread_pc, unsubmitted>>

-----------------------------------------------------------------------------
\* The shard is gone and every thread has left it.
Terminated ==
  /\ destroyed
  /\ \A th \in Peers : thread_pc[th] = "run"
  /\ UNCHANGED vars

WorkerStep ==
  \/ WorkerLock
  \/ WorkerBlock
  \/ WorkerExit
  \/ WorkerTake
  \/ WorkerFinish

DestructorStep ==
  \/ WaitCompletionEnd
  \/ DestructorStop
  \/ DestructorNotify
  \/ DestructorJoin

Next ==
  \/ \E th \in Threads, t \in Tasks : SubmitPush(th, t)
  \/ \E th \in Threads : SubmitNotify(th)
  \/ WaitCompletionBegin
  \/ DestructorStep
  \/ WorkerStep
  \/ SpuriousWakeup
  \/ Terminated

Spec == Init /\ [][Next]_vars

\* The scheduler runs every thread that can run.  Nothing obliges a thread
\* to submit a task or to give up the shard, and nothing obliges the
\* implementation to wake a waiter that was not notified.
FairSpec ==
  /\ Spec
  /\ WF_vars(WorkerStep)
  /\ \A th \in Threads : WF_vars(SubmitNotify(th))
  /\ WF_vars(DestructorStep)

=============================================================================
