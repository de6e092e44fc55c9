------------------------ MODULE BankSystemProperties ------------------------
(***************************************************************************)
(* What is claimed of BankSystem: its type invariant, the properties that  *)
(* hold for every workload, those that hold when every transfer stays in   *)
(* one shard; cross-shard transfers break some of the latter.              *)
(***************************************************************************)
EXTENDS BankSystem, FiniteSetsExt

WorkerPcs == {"wait", "local_send", "local_ack", "step1_send", "step1_lookup",
              "step2_push", "step2_notify", "step2_send", "step2_ack",
              "step2_cleanup", "exited"}
ChildPcs == {"started", "wait_started", "message_loop", "wait_all_done",
             "finished"}
MainPcs == {"phase1", "submit", "wait_all", "destroy_contexts", "stop_shard",
            "join_shard", "phase3_stop", "phase3", "phase4", "finished"}

\* What the main thread's loop variable ranges over in each phase.
CursorRange ==
  CASE main_pc \in {"phase1", "phase3", "phase4"} -> Accounts
    [] main_pc = "submit"                   -> Orders
    [] main_pc = "destroy_contexts"         -> {0}
    [] main_pc \in {"phase3_stop", "finished"} -> {1}
    [] OTHER                                -> Shards

Channels == [Procs -> [Procs -> Seq(Message)]]

ChildTypeOK ==
  /\ child_pc \in [Accounts -> ChildPcs]
  /\ peer \in [Accounts -> Nat \ {0}]
  /\ \A a \in Accounts : child_pc[a] = "wait_started" => peer[a] \in Accounts
  /\ balance \in [Accounts -> Int]
  /\ done_count \in [Accounts -> Nat]
  /\ debited \in [Orders -> Nat]
  /\ credited \in [Orders -> Nat]

PoolTypeOK ==
  /\ task_queue \in [Shards -> Seq(Tasks)]
  /\ stop_flag \in [Shards -> BOOLEAN]
  /\ worker_pc \in [Shards -> WorkerPcs]
  /\ task \in [Shards -> Tasks \cup {NoTask}]
  /\ local_transfers \in [Shards -> Nat]
  /\ cross_shard_transfers \in [Shards -> Nat]
  /\ failed_transfers \in [Shards -> Nat]
  /\ contexts \in SUBSET Contexts
  /\ next_correlation_id \in Nat \ {0}
  /\ contexts_alive \in BOOLEAN
  /\ shard_alive \in [Shards -> BOOLEAN]
  /\ crashed \in BOOLEAN

MainTypeOK ==
  /\ main_pc \in MainPcs
  /\ cursor \in CursorRange
  /\ collected \in [Accounts -> Int \cup {NoHistory}]

\* Types of the channels, the account processes, the pool and the main thread.
TypeOK == chan \in Channels /\ ChildTypeOK /\ PoolTypeOK /\ MainTypeOK

-----------------------------------------------------------------------------
(***************************************************************************)
(* For every workload.                                                     *)
(***************************************************************************)

\* The account whose channel to the parent a thread is receiving from.
AwaitedBy(s) == Dst(task[s].order)
Receiving(s) == WorkerAt(s, "local_ack") \/ WorkerAt(s, "step2_ack")
MainReceives == main_pc \in {"phase1", "phase3", "phase4"}

\* Two threads of the parent never receive from the same account at the same
\* time: an answer could go to either (account_shard.cpp:110 and :172,
\* parent_controller.cpp:29, :73 and :87).  Routing every answer of an account
\* through its own shard, and joining the workers before phase 3, is what
\* makes it so.
OneReceiverPerChannel ==
  /\ \A s, r \in Shards :
       Receiving(s) /\ Receiving(r) /\ AwaitedBy(s) = AwaitedBy(r) => s = r
  /\ MainReceives => \A s \in Shards : ~ Receiving(s)

\* Startup is a barrier (child_worker.cpp:37-71): an account serves
\* transfers only after every account has sent STARTED, and no STARTED is
\* left over to be taken for something else.
StartupBarrier ==
  /\ \A a \in Accounts : child_pc[a] \notin {"started", "wait_started"} =>
       \A b \in Accounts \ {a} :
         /\ child_pc[b] # "started"
         /\ Msg("STARTED", 0) \notin Range(chan[b][a])
  /\ main_pc # "phase1" =>
       \A b \in Accounts : Msg("STARTED", 0) \notin Range(chan[b][Parent])

\* An account reports its history only after every account has received STOP
\* (child_worker.cpp:113-141).
StopBarrier ==
  \A a, b \in Accounts :
    child_pc[a] = "finished" => child_pc[b] \in {"wait_all_done", "finished"}

Submitted(i) ==
  CASE main_pc = "phase1" -> FALSE
    [] main_pc = "submit" -> i < cursor
    [] OTHER              -> TRUE

\* Where the request of order i to its source account can be.
QueuedRequests(i) ==
  LET q == task_queue[GetShardId(Src(i))] IN
  Cardinality({j \in DOMAIN q :
    q[j].order = i /\ q[j].task_type # "CROSS_SHARD_STEP2"})
RunningRequests(i) ==
  Cardinality({s \in Shards : /\ worker_pc[s] \in {"local_send", "step1_send"}
                              /\ task[s].order = i})
MessagesOf(i, p, q) ==
  Cardinality({j \in DOMAIN chan[p][q] : chan[p][q][j] = Msg("TRANSFER", i)})

\* A submitted order reaches its source account exactly once: it is in the
\* shard's queue, with the shard's worker, on its way, or debited, and in
\* one of them only.
RequestedOnce ==
  \A i \in Orders :
    QueuedRequests(i) + RunningRequests(i) + MessagesOf(i, Parent, Src(i))
      + debited[i] = IF Submitted(i) THEN 1 ELSE 0

\* Destroying the ShardManager abandons no first step: once it is gone, each
\* order was debited or its TRANSFER is ahead of STOP on the way to its source
\* (account_shard.cpp:66-75: a worker leaves only with an empty queue).
DestroyedMeansRequested ==
  main_pc \in {"phase3_stop", "phase3", "phase4", "finished"} =>
    \A i \in Orders : debited[i] + MessagesOf(i, Parent, Src(i)) = 1

\* What a worker takes for its answer is an ACK: no other message of the
\* account can come first (account_shard.cpp:110-127, :172-189).  That the
\* ACK is the one of its own order is another matter.
NoInvalidAck == \A s \in Shards : failed_transfers[s] = 0

\* The ACKs of the accounts of shard s that the parent has not read, and how
\* often each order that pays one of them was credited.
UnreadAcks(s) ==
  [a \in {b \in Accounts : GetShardId(b) = s} |->
     Cardinality({j \in DOMAIN chan[a][Parent] :
                    chan[a][Parent][j] = Msg("ACK", 0)})]
Credits(s) == [i \in {j \in Orders : GetShardId(Dst(j)) = s} |-> credited[i]]

\* Until phase 3, the successes a shard has counted and the ACKs it has still
\* to read add up to the credits of its accounts: no answer is lost, made up or
\* read by another shard or the main thread, even where an order is credited
\* twice or an ACK is taken for the answer of another order
\* (account_shard.cpp:109-115, :171-177, child_worker.cpp:160-177).
AnswersMatchCredits ==
  main_pc \notin {"phase3", "phase4", "finished"} =>
    \A s \in Shards :
      local_transfers[s] + cross_shard_transfers[s]
        + MapThenSumSet(LAMBDA a : UnreadAcks(s)[a], DOMAIN UnreadAcks(s))
      = MapThenSumSet(LAMBDA i : Credits(s)[i], DOMAIN Credits(s))

Running == { task[s] : s \in {r \in Shards : worker_pc[r] # "step2_notify"} }
PendingCross ==
  { t \in (UNION { Range(task_queue[s]) : s \in Shards }) \cup Running :
      t.task_type # "LOCAL_TRANSFER" }

\* While the map exists, it holds the context of every cross-shard transfer
\* that is queued or running, under its own correlation id, and nothing else
\* (shard_manager.cpp:34-64, :79-96).
ContextTracksTransfer ==
  contexts_alive =>
    /\ { <<c.task.order, c.task.correlation_id>> : c \in contexts } =
       { <<t.order, t.correlation_id>> : t \in PendingCross }
    /\ \A c, d \in contexts :
         c.task.correlation_id = d.task.correlation_id => c = d

\* Each shard of the pool behaves as a TaskQueue.  A worker that submits step 2
\* carries the task it pushes where the step 1 task was.
BoundedTasks ==
  [task_type : TaskTypes, order : Orders, correlation_id : 0 .. Len(Workload)]
Current(s) ==
  IF worker_pc[s] \in {"step2_push", "step2_notify"}
  THEN Step1Task(task[s].order, task[s].correlation_id) ELSE task[s]
AbstractWorker(s) ==
  CASE worker_pc[s] = "wait"   -> "idle"
    [] worker_pc[s] = "exited" -> "exited"
    [] OTHER                   -> "busy"
Shard(s) == INSTANCE TaskQueue
              WITH Tasks <- BoundedTasks, NoTask <- NoTask,
                   queue <- task_queue[s], current <- Current(s),
                   worker <- AbstractWorker(s), stopping <- stop_flag[s]

\* The shards of the manager are the queues AccountShard implements, whatever
\* the callbacks between them do.
ShardsAreTaskQueues ==
  /\ \A s \in Shards : Shard(s)!Init
  /\ [][\A s \in Shards : [Shard(s)!Next]_(Shard(s)!vars)]_vars

-----------------------------------------------------------------------------
(***************************************************************************)
(* For workloads that pay no account twice, or whose transfers each stay   *)
(* in one shard.  When two orders pay one account and one of them crosses  *)
(* shards, the second ACK of that one is taken for the answer of the       *)
(* other.                                                                  *)
(***************************************************************************)

\* What the workers count as a success was credited by then
\* (account_shard.cpp:113-115, :175-177).
SuccessMeansCredited ==
  [][ \A s \in Shards :
        /\ local_transfers'[s] # local_transfers[s] =>
             credited[task[s].order] > 0
        /\ cross_shard_transfers'[s] # cross_shard_transfers[s] =>
             credited[task[s].order] > 0 ]_vars

-----------------------------------------------------------------------------
(***************************************************************************)
(* For workloads whose transfers each stay in one shard.                   *)
(***************************************************************************)

\* A debit is forwarded once and credited once: no credit is lost or doubled
\* (child_worker.cpp:143-178).
ForwardedOnce ==
  \A i \in Orders :
    debited[i] = MessagesOf(i, Src(i), Dst(i)) + credited[i]

InFlight ==
  MapThenSumSet(LAMBDA i : MessagesOf(i, Src(i), Dst(i)) * Amount(i), Orders)
TotalBalance == MapThenSumSet(LAMBDA a : balance[a], Accounts)
InitialTotal == MapThenSumSet(LAMBDA a : InitialBalance[a], Accounts)

\* Money is neither created nor destroyed (banking.h:16-21).
Conservation == TotalBalance + InFlight = InitialTotal

\* Every transfer is settled once the manager is destroyed: STOP overtakes
\* none of them (parent_controller.cpp:40-55).
SettledBeforeStop ==
  main_pc \in {"phase3_stop", "phase3", "phase4", "finished"} =>
    \A i \in Orders : credited[i] = 1

\* No account that has left its message loop drops a TRANSFER
\* (child_worker.cpp:113-133 receives whatever comes until it has all DONEs).
NoTransferDropped ==
  \A a \in Accounts : child_pc[a] \in {"wait_all_done", "finished"} =>
    \A p \in Procs, i \in Orders : MessagesOf(i, p, a) = 0

\* parent_controller.cpp:76, "all accounts have stopped": phase 3 ends only
\* once every account has received STOP.
AllStoppedAfterPhase3 ==
  main_pc \in {"phase4", "finished"} =>
    \A a \in Accounts : child_pc[a] \in {"wait_all_done", "finished"}

\* parent_controller.cpp:79-99: phase 4 collects the final balance of every
\* account.
HistoriesCollected == main_pc = "finished" => collected = balance

\* No worker uses a member of the manager that was destroyed
\* (shard_manager.h:42 has the destructor close the threads safely).
NoUseAfterDestroy == \A s \in Shards : ~ UsesDestroyed(s)

\* The ledger a state of the system stands for: how far each order has come.
Stage(i) ==
  CASE debited[i] = 0 /\ credited[i] = 0 -> "ordered"
    [] debited[i] = 1 /\ credited[i] = 0 -> "debited"
    [] debited[i] = 1 /\ credited[i] = 1 -> "credited"
    [] OTHER                             -> "broken"
Book == INSTANCE Ledger WITH stage <- [i \in Orders |-> Stage(i)]

\* The bank is a ledger: no step moves money but the one debit and, after it,
\* the one credit of an order (banking.h:16-21).
ImplementsLedger == Book!LedgerSpec

\* And every order of the workload is debited and credited in the end.
ServesLedger == Book!LedgerFairSpec

\* If every worker that is told to stop leaves, the whole system ends.
Termination ==
  (\A s \in Shards : stop_flag[s] ~> worker_pc[s] = "exited")
    => <> AllFinished

\* banking.h:16-21: the destination increases its balance once per order.
CreditedOnce == \A i \in Orders : credited[i] <= 1
=============================================================================
