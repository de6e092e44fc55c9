------------------------- MODULE AccountShardProofs -------------------------
(***************************************************************************)
(* Proofs about AccountShard, for any number of peers and tasks: its type  *)
(* invariant, its safety invariants and that it implements TaskQueue.      *)
(***************************************************************************)
EXTENDS AccountShardProperties, SequenceTheorems, TLAPS

\* The worker holds the mutex exactly between its test of the predicate and
\* the wait, the exit or the pop that follows.
MutexHeld == queue_mutex = "worker" <=> worker_pc \in {"ready", "blocking"}

\* A worker about to block saw an empty queue, and nobody can push while it
\* still holds the mutex.
BlockingEmpty == worker_pc = "blocking" => task_queue = << >>

\* The worker's variable holds a task exactly while the task is processed.
TaskWhileBusy == worker_pc = "busy" <=> task # NoTask

\* The inductive invariant: each part is needed by the step of another one.
IInv ==
  /\ TypeOK
  /\ MutexHeld
  /\ BlockingEmpty
  /\ TaskWhileBusy
  /\ ContinueUnreachable
  /\ NoLostTask
  /\ HeldOnce

-----------------------------------------------------------------------------
(***************************************************************************)
(* What pushing to a queue and popping from it do to its elements.         *)
(***************************************************************************)
\* push: the new queue is not empty, its last element is the new one.
LEMMA PushFacts ==
  ASSUME NEW S, NEW q \in Seq(S), NEW t \in S
  PROVE  /\ Append(q, t) \in Seq(S)
         /\ Append(q, t) # << >>
         /\ Len(Append(q, t)) = Len(q) + 1
         /\ Len(q) \in Nat
         /\ \A i \in 1 .. Len(q) : Append(q, t)[i] = q[i]
         /\ Append(q, t)[Len(q) + 1] = t
  BY AppendProperties, LenProperties

\* front and pop: the head is the first element, the tail shifts the others.
LEMMA PopFacts ==
  ASSUME NEW S, NEW q \in Seq(S), q # << >>
  PROVE  /\ Head(q) \in S
         /\ Tail(q) \in Seq(S)
         /\ Len(q) \in Nat \ {0}
         /\ Len(Tail(q)) = Len(q) - 1
         /\ Head(q) = q[1]
         /\ \A i \in 1 .. Len(Tail(q)) : Tail(q)[i] = q[i + 1]
  BY HeadTailProperties, LenProperties, EmptySeq

-----------------------------------------------------------------------------
\* The constructor establishes the invariant (account_shard.cpp:10-19).
LEMMA InitInv == Init => IInv
  <1> SUFFICES ASSUME Init PROVE IInv
    OBVIOUS
  <1>1. TypeOK
    BY EmptySeq DEF Init, TypeOK, Threads, OwnerPcs, PeerPcs, WorkerPcs
  <1>2. HeldOnce
    <2>1. Queued = {} /\ Running = {} /\ unsubmitted = Tasks /\ finished = {}
      BY DEF Init, Queued, Running
    <2>2. Len(task_queue) = 0
      BY DEF Init
    <2> QED
      BY <2>1, <2>2 DEF HeldOnce
  <1> QED
    BY <1>1, <1>2, NoTaskIsNoTask
    DEF Init, IInv, MutexHeld, BlockingEmpty, TaskWhileBusy,
        ContinueUnreachable, NoLostTask

\* Every step preserves the types, given the invariant before it.
LEMMA TypeStep == IInv /\ [Next]_vars => TypeOK'
  <1> SUFFICES ASSUME IInv, [Next]_vars PROVE TypeOK'
    OBVIOUS
  <1> USE DEF IInv, TypeOK, Threads, GoTo, workerVars, WorkerPcs, PeerPcs,
              OwnerPcs
  <1>1. ASSUME NEW th \in Threads, NEW t \in Tasks, SubmitPush(th, t)
        PROVE  TypeOK'
    <2>1. task_queue' \in Seq(Tasks)
      BY <1>1, PushFacts DEF SubmitPush
    <2> QED
      BY <1>1, <2>1, OwnerIsNoPeer DEF SubmitPush
  <1>2. ASSUME NEW th \in Threads, SubmitNotify(th)
        PROVE  TypeOK'
    BY <1>2, OwnerIsNoPeer DEF SubmitNotify, NotifyOne
  <1>3. CASE WaitCompletionBegin
    BY <1>3, OwnerIsNoPeer DEF WaitCompletionBegin
  <1>4. CASE DestructorStep
    BY <1>4, OwnerIsNoPeer
    DEF DestructorStep, WaitCompletionEnd, DestructorStop, DestructorNotify,
        DestructorJoin, NotifyOne
  <1>5. CASE WorkerTake
    <2>1. task' \in Tasks /\ task_queue' \in Seq(Tasks)
      BY <1>5, PopFacts DEF WorkerTake
    <2> QED
      BY <1>5, <2>1 DEF WorkerTake
  <1>6. CASE WorkerLock \/ WorkerBlock \/ WorkerExit
    BY <1>6 DEF WorkerLock, WorkerBlock, WorkerExit
  <1>7. CASE SpuriousWakeup
    BY <1>7 DEF SpuriousWakeup
  <1>8. CASE UNCHANGED vars \/ Terminated
    BY <1>8 DEF Terminated, vars
  <1>9. CASE WorkerFinish
    <2>1. task \in Tasks
      BY <1>9 DEF WorkerFinish, TaskWhileBusy
    <2> QED
      BY <1>9, <2>1 DEF WorkerFinish
  <1> QED
    BY <1>1, <1>2, <1>3, <1>4, <1>5, <1>6, <1>7, <1>8, <1>9
    DEF Next, WorkerStep

\* Every step preserves what ties the mutex, the worker and the queue.
LEMMA ControlStep ==
  IInv /\ [Next]_vars =>
    /\ MutexHeld'
    /\ BlockingEmpty'
    /\ TaskWhileBusy'
    /\ ContinueUnreachable'
    /\ NoLostTask'
  <1> SUFFICES ASSUME IInv, [Next]_vars
               PROVE  /\ MutexHeld'
                      /\ BlockingEmpty'
                      /\ TaskWhileBusy'
                      /\ ContinueUnreachable'
                      /\ NoLostTask'
    OBVIOUS
  <1> DEFINE Goal == /\ MutexHeld'
                     /\ BlockingEmpty'
                     /\ TaskWhileBusy'
                     /\ ContinueUnreachable'
                     /\ NoLostTask'
  <1> USE DEF IInv, MutexHeld, BlockingEmpty, TaskWhileBusy,
              ContinueUnreachable, NoLostTask, WaitPredicate, TypeOK,
              workerVars, GoTo, Threads
  <1>1. ASSUME NEW th \in Threads, NEW t \in Tasks, SubmitPush(th, t)
        PROVE  Goal
    <2>1. task_queue' # << >>
      BY <1>1, PushFacts DEF SubmitPush
    <2>2. thread_pc'[th] = "notify"
      BY <1>1 DEF SubmitPush
    <2> QED
      BY <1>1, <2>1, <2>2 DEF SubmitPush
  <1>2. ASSUME NEW th \in Threads, SubmitNotify(th)
        PROVE  Goal
    BY <1>2 DEF SubmitNotify, NotifyOne
  <1>3. CASE WaitCompletionBegin
    BY <1>3 DEF WaitCompletionBegin
  <1>4. CASE DestructorStep
    BY <1>4 DEF DestructorStep, WaitCompletionEnd, DestructorStop,
                DestructorNotify, DestructorJoin, NotifyOne
  <1>5. CASE WorkerTake
    <2>1. task' \in Tasks
      BY <1>5, PopFacts DEF WorkerTake
    <2> QED
      BY <1>5, <2>1, NoTaskIsNoTask DEF WorkerTake
  <1>6. CASE WorkerLock \/ WorkerBlock \/ WorkerExit \/ WorkerFinish
    BY <1>6 DEF WorkerLock, WorkerBlock, WorkerExit, WorkerFinish
  <1>7. CASE SpuriousWakeup
    BY <1>7 DEF SpuriousWakeup
  <1>8. CASE UNCHANGED vars \/ Terminated
    BY <1>8 DEF Terminated, vars
  <1> QED
    BY <1>1, <1>2, <1>3, <1>4, <1>5, <1>6, <1>7, <1>8 DEF Next, WorkerStep

\* A push moves a task from its submitter to the queue.
LEMMA PushHeld ==
  ASSUME IInv, NEW th \in Threads, NEW t \in Tasks, SubmitPush(th, t)
  PROVE  HeldOnce'
  <1> USE DEF IInv, HeldOnce, TypeOK
  <1> DEFINE n == Len(task_queue)
  <1>1. /\ task_queue' = Append(task_queue, t)
        /\ t \in unsubmitted
        /\ unsubmitted' = unsubmitted \ {t}
        /\ Running' = Running
        /\ finished' = finished
    BY DEF SubmitPush, workerVars, Running
  <1>2. /\ n \in Nat
        /\ Len(task_queue') = n + 1
        /\ \A i \in 1 .. n : task_queue'[i] = task_queue[i]
        /\ task_queue'[n + 1] = t
    BY <1>1, PushFacts
  <1>3. \A i \in 1 .. n : task_queue[i] # t
    BY <1>1 DEF Queued
  <1>4. \A i \in 1 .. n + 1 : i \in 1 .. n \/ i = n + 1
    BY <1>2
  <1>5. \A i, j \in 1 .. Len(task_queue') :
          task_queue'[i] = task_queue'[j] => i = j
    BY <1>2, <1>3, <1>4
  <1>6. Queued' = Queued \cup {t}
    <2>1. Queued' \subseteq Queued \cup {t}
      BY <1>2, <1>4 DEF Queued
    <2>2. Queued \subseteq Queued' /\ t \in Queued'
      <3>1. n + 1 \in 1 .. Len(task_queue')
        BY <1>2
      <3>2. \A i \in 1 .. n : i \in 1 .. Len(task_queue')
        BY <1>2
      <3> QED
        BY <1>2, <3>1, <3>2 DEF Queued
    <2> QED
      BY <2>1, <2>2
  <1> QED
    BY <1>1, <1>5, <1>6

\* A pop moves a task from the queue to the worker, which had none.
LEMMA TakeHeld ==
  ASSUME IInv, WorkerTake
  PROVE  HeldOnce'
  <1> USE DEF IInv, HeldOnce, TypeOK
  <1>1. /\ task_queue # << >>
        /\ task' = Head(task_queue)
        /\ task_queue' = Tail(task_queue)
        /\ unsubmitted' = unsubmitted
        /\ finished' = finished
        /\ task = NoTask
    BY DEF WorkerTake, TaskWhileBusy
  <1>2. /\ Len(task_queue) \in Nat \ {0}
        /\ Len(task_queue') = Len(task_queue) - 1
        /\ task' = task_queue[1]
        /\ task' \in Tasks
        /\ \A i \in 1 .. Len(task_queue') : task_queue'[i] = task_queue[i + 1]
    BY <1>1, PopFacts
  <1>3. \A i \in 1 .. Len(task_queue') :
          i + 1 \in 1 .. Len(task_queue) /\ i + 1 # 1
    BY <1>2
  <1>4. 1 \in 1 .. Len(task_queue)
    BY <1>2
  <1>5. \A i, j \in 1 .. Len(task_queue') :
          task_queue'[i] = task_queue'[j] => i = j
    BY <1>2, <1>3
  <1>6. Queued = Queued' \cup {task'} /\ task' \notin Queued'
    <2>1. ASSUME NEW i \in 1 .. Len(task_queue)
          PROVE  task_queue[i] \in Queued' \cup {task'}
      <3>1. CASE i = 1
        BY <1>2, <3>1
      <3>2. CASE i # 1
        <4>1. i - 1 \in 1 .. Len(task_queue') /\ (i - 1) + 1 = i
          BY <1>2, <3>2
        <4>2. task_queue'[i - 1] = task_queue[i]
          BY <1>2, <4>1
        <4> QED
          BY <4>1, <4>2 DEF Queued
      <3> QED
        BY <3>1, <3>2
    <2>2. Queued \subseteq Queued' \cup {task'}
      BY <2>1 DEF Queued
    <2>3. Queued' \subseteq Queued /\ task' \in Queued
      BY <1>2, <1>3, <1>4 DEF Queued
    <2>4. task' \notin Queued'
      BY <1>2, <1>3, <1>4 DEF Queued
    <2> QED
      BY <2>2, <2>3, <2>4
  <1>7. Running = {} /\ Running' = {task'}
    BY <1>1, <1>2, NoTaskIsNoTask DEF Running
  <1> QED
    BY <1>1, <1>5, <1>6, <1>7

\* The end of a task moves it from the worker to the tasks executed.
LEMMA FinishHeld ==
  ASSUME IInv, WorkerFinish
  PROVE  HeldOnce'
  <1>1. /\ task # NoTask
        /\ task' = NoTask
        /\ finished' = finished \cup {task}
        /\ unsubmitted' = unsubmitted
        /\ task_queue' = task_queue
        /\ Queued' = Queued
    BY DEF IInv, TaskWhileBusy, WorkerFinish, Queued
  <1>2. Running = {task} /\ Running' = {}
    BY <1>1 DEF Running
  <1> QED
    BY <1>1, <1>2 DEF IInv, HeldOnce

\* Every step keeps each task in one place.
LEMMA HeldStep == IInv /\ [Next]_vars => HeldOnce'
  <1> SUFFICES ASSUME IInv, [Next]_vars PROVE HeldOnce'
    OBVIOUS
  <1>1. CASE UNCHANGED <<task_queue, task, unsubmitted, finished>>
    BY <1>1 DEF IInv, HeldOnce, Queued, Running
  <1>2. \/ \E th \in Threads, t \in Tasks : SubmitPush(th, t)
        \/ WorkerTake
        \/ WorkerFinish
        \/ UNCHANGED <<task_queue, task, unsubmitted, finished>>
    BY DEF Next, vars, workerVars, SubmitNotify, WaitCompletionBegin,
           DestructorStep, WaitCompletionEnd, DestructorStop,
           DestructorNotify, DestructorJoin, WorkerStep, WorkerLock,
           WorkerBlock, WorkerExit, SpuriousWakeup, Terminated
  <1> QED
    BY <1>1, <1>2, PushHeld, TakeHeld, FinishHeld

\* The invariant holds in every reachable state.
THEOREM Invariance == Spec => []IInv
  <1>1. IInv /\ [Next]_vars => IInv'
    BY TypeStep, ControlStep, HeldStep DEF IInv
  <1> QED
    BY InitInv, <1>1, PTL DEF Spec

\* Type correctness of the shard.
THEOREM TypeCorrect == Spec => []TypeOK
  BY Invariance, PTL DEF IInv

\* Notifying outside the lock loses no wakeup for a task.
THEOREM NoTaskIsLost == Spec => []NoLostTask
  BY Invariance, PTL DEF IInv

\* The "continue" of worker_loop is dead code.
THEOREM ContinueIsDead == Spec => []ContinueUnreachable
  BY Invariance, PTL DEF IInv

\* Each task is in one place, always: none is dropped by the worker or run twice.
THEOREM TasksHeldOnce == Spec => []HeldOnce
  BY Invariance, PTL DEF IInv

-----------------------------------------------------------------------------
(***************************************************************************)
(* Refinement: a submission, a pop, the end of a task, the store to the    *)
(* flag and the exit are the steps of TaskQueue; locking, blocking, waking *)
(* and joining are stutters.                                               *)
(***************************************************************************)
\* The constructor maps to the initial state of the queue.
LEMMA RefinementInit == Init => Queue!Init
  BY DEF Init, Queue!Init, AbstractWorker

\* Every step maps to a step of the queue or to a stutter.
LEMMA RefinementStep == IInv /\ [Next]_vars => [Queue!Next]_(Queue!vars)
  <1> SUFFICES ASSUME IInv, [Next]_vars PROVE [Queue!Next]_(Queue!vars)
    OBVIOUS
  <1> USE DEF AbstractWorker, Queue!vars
  <1>1. ASSUME NEW th \in Threads, NEW t \in Tasks, SubmitPush(th, t)
        PROVE  Queue!Submit(t)
    BY <1>1 DEF SubmitPush, Queue!Submit, workerVars
  <1>2. ASSUME NEW th \in Threads, SubmitNotify(th)
        PROVE  UNCHANGED Queue!vars
    BY <1>2 DEF SubmitNotify, NotifyOne
  <1>3. CASE WaitCompletionBegin \/ WaitCompletionEnd \/ DestructorJoin
    BY <1>3 DEF WaitCompletionBegin, WaitCompletionEnd, DestructorJoin,
                workerVars
  <1>4. CASE DestructorStop
    BY <1>4 DEF DestructorStop, Queue!Next, Queue!Stop, workerVars
  <1>5. CASE DestructorNotify
    BY <1>5 DEF DestructorNotify, NotifyOne
  <1>6. CASE WorkerLock \/ WorkerBlock \/ SpuriousWakeup
    BY <1>6 DEF WorkerLock, WorkerBlock, SpuriousWakeup
  <1>7. CASE WorkerExit
    BY <1>7 DEF WorkerExit, Queue!Next, Queue!Exit
  <1>8. CASE WorkerTake
    BY <1>8 DEF WorkerTake, Queue!Next, Queue!Take
  <1>9. CASE WorkerFinish
    BY <1>9 DEF WorkerFinish, Queue!Next, Queue!Finish
  <1>10. CASE UNCHANGED vars \/ Terminated
    BY <1>10 DEF Terminated, vars
  <1> QED
    BY <1>1, <1>2, <1>3, <1>4, <1>5, <1>6, <1>7, <1>8, <1>9, <1>10
    DEF Next, WorkerStep, DestructorStep, Queue!Next

\* A shard with its mutex and its condition variable is a TaskQueue.
THEOREM Refinement == Spec => ImplementsTaskQueue
  <1>1. Spec => Queue!Spec
    BY RefinementInit, RefinementStep, Invariance, PTL DEF Spec, Queue!Spec
  <1> QED
    BY <1>1 DEF ImplementsTaskQueue
=============================================================================
