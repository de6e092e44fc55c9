----------------------- MODULE AccountShardProperties -----------------------
(***************************************************************************)
(* What is claimed of AccountShard: its invariants, the abstract queue it  *)
(* implements, and the claims of the source that it does not satisfy.      *)
(***************************************************************************)
EXTENDS AccountShard

WorkerPcs == {"lock", "blocking", "waiting", "ready", "busy", "exited"}
PeerPcs   == {"run", "notify"}
OwnerPcs  == PeerPcs \cup {"polling", "completed", "stop_notify", "join",
                           "destroyed"}

\* Types of the shard's members and of the threads' control points.
TypeOK ==
  /\ task_queue \in Seq(Tasks)
  /\ queue_mutex \in {"free", "worker"}
  /\ stop_flag \in BOOLEAN
  /\ worker_pc \in WorkerPcs
  /\ task \in Tasks \cup {NoTask}
  /\ thread_pc \in [Threads -> OwnerPcs]
  /\ \A th \in Peers : thread_pc[th] \in PeerPcs
  /\ unsubmitted \subseteq Tasks
  /\ finished \subseteq Tasks

\* No lost wakeup for tasks: if the worker is blocked while a task is
\* queued, some submitter has pushed and is still to call notify_one.  This
\* is what notifying outside the lock (account_shard.cpp:31-35) relies on.
NoLostTask ==
  worker_pc = "waiting" /\ task_queue # << >> =>
    \E th \in Threads : thread_pc[th] = "notify"

\* A worker past the wait has a reason to be there, so that the "continue"
\* of worker_loop (account_shard.cpp:77-79) is never reached.
ContinueUnreachable == worker_pc = "ready" => WaitPredicate

Queued  == { task_queue[i] : i \in 1 .. Len(task_queue) }
Running == {task} \ {NoTask}

\* Each task is in one place, and always in some place: with its submitter, in
\* the queue, once, with the worker, or executed (account_shard.cpp:30-36,
\* :59-84).  The worker drops none and runs none twice, however submissions
\* meet the destructor; one that comes after the worker has left stays queued.
HeldOnce ==
  /\ \A i, j \in 1 .. Len(task_queue) :
       task_queue[i] = task_queue[j] => i = j
  /\ unsubmitted \cup Queued \cup Running \cup finished = Tasks
  /\ unsubmitted \cap (Queued \cup Running \cup finished) = {}
  /\ Queued \cap (Running \cup finished) = {}
  /\ Running \cap finished = {}

-----------------------------------------------------------------------------
\* The shard as a TaskQueue.
AbstractWorker ==
  IF worker_pc \in {"busy", "exited"} THEN worker_pc ELSE "idle"

Queue == INSTANCE TaskQueue
           WITH queue <- task_queue, current <- task,
                worker <- AbstractWorker, stopping <- stop_flag

\* The mutex, the condition variable and the destructor implement the
\* abstract queue (account_shard.cpp:21-84): FIFO, one task at a time, no task
\* dropped, no exit before the queue is drained.
ImplementsTaskQueue == Queue!Spec

\* While the worker is not told to leave, it takes what is queued, and every
\* notification that this needs arrives (account_shard.cpp:30-36, :66-75).
ServesTaskQueue == Queue!Fairness

\* A task that is queued before the destructor starts is executed to its
\* end (account_shard.cpp:59-84).
EveryTaskRuns ==
  \A t \in Tasks :
    t \in Queued /\ ~ stop_flag ~> t \in finished

-----------------------------------------------------------------------------
(***************************************************************************)
(* What the source's own comments claim and the code does not do.          *)
(***************************************************************************)

\* account_shard.h:37 and :94, lab_cpp.cpp:741: the destructor closes the
\* thread gracefully.
GracefulExit == stop_flag ~> worker_pc = "exited"
=============================================================================
