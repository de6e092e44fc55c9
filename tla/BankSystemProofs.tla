-------------------------- MODULE BankSystemProofs --------------------------
(***************************************************************************)
(* Proofs about BankSystem, for any number of accounts and shards, any     *)
(* workload and either version of the account process.                     *)
(***************************************************************************)
EXTENDS BankSystemProperties, SequenceTheorems, TLAPS

-----------------------------------------------------------------------------
(***************************************************************************)
(* Facts about the operators the model is built from.                      *)
(***************************************************************************)
\* An order names two different accounts.
LEMMA OrderFacts ==
  \A i \in Orders : /\ Src(i) \in Accounts
                    /\ Dst(i) \in Accounts
                    /\ Amount(i) \in Nat
                    /\ i \in Nat \ {0}
  <1>1. /\ Len(Workload) \in Nat
        /\ Workload \in [1 .. Len(Workload) ->
                           [src : Accounts, dst : Accounts, amount : Nat]]
    BY WorkloadAssumption, LenProperties
  <1> QED
    BY <1>1 DEF Orders, Src, Dst, Amount

\* The parent and the accounts are the processes.
LEMMA ProcFacts == /\ Parent \in Procs
                   /\ Accounts \subseteq Procs
                   /\ 1 \in Accounts
                   /\ N \in Accounts
                   /\ N \in Nat
                   /\ Parent \notin Accounts
  BY NAssumption DEF Procs, Accounts, Parent

\* get_shard_id maps an account to a shard.
LEMMA ShardFacts == /\ \A a \in Accounts : GetShardId(a) \in Shards
                    /\ 0 \in Shards
                    /\ NumShards - 1 \in Shards
                    /\ NumShards \in Nat
  BY NAssumption, NumShardsAssumption DEF GetShardId, Accounts, Shards

\* send appends to one channel.
LEMMA SendType ==
  ASSUME NEW c \in Channels, NEW p \in Procs, NEW q \in Procs,
         NEW m \in Message
  PROVE  Send(c, p, q, m) \in Channels
  <1>1. Append(c[p][q], m) \in Seq(Message)
    BY AppendProperties DEF Channels
  <1> QED
    BY <1>1 DEF Channels, Send

\* send_multicast appends to the channels of one process.
LEMMA MulticastType ==
  ASSUME NEW c \in Channels, NEW p \in Procs, NEW m \in Message
  PROVE  SendMulticast(c, p, m) \in Channels
  <1>1. \A q \in Procs : c[p][q] \in Seq(Message)
    BY DEF Channels
  <1>2. \A q \in Procs : Append(c[p][q], m) \in Seq(Message)
    BY <1>1, AppendProperties
  <1>3. [q \in Procs |-> IF q = p THEN c[p][q] ELSE Append(c[p][q], m)]
          \in [Procs -> Seq(Message)]
    BY <1>1, <1>2
  <1> QED
    BY <1>3 DEF Channels, SendMulticast

\* receive takes the oldest message of a channel that has one.
LEMMA ReceiveType ==
  ASSUME chan \in Channels, NEW p \in Procs, NEW q \in Procs, HasMessage(p, q)
  PROVE  /\ Receive(chan, p, q) \in Channels
         /\ Oldest(p, q) \in Message
  <1>1. chan[p][q] \in Seq(Message) /\ chan[p][q] # << >>
    BY DEF Channels, HasMessage
  <1>2. Tail(chan[p][q]) \in Seq(Message) /\ Head(chan[p][q]) \in Message
    BY <1>1, HeadTailProperties
  <1> QED
    BY <1>2 DEF Channels, Receive, Oldest

\* The messages the processes send are messages.
LEMMA MessageFacts ==
  /\ \A type \in {"STARTED", "DONE", "ACK", "STOP"} : Msg(type, 0) \in Message
  /\ \A i \in Orders : Msg("TRANSFER", i) \in Message
  /\ \A b \in Int : Msg("BALANCE_HISTORY", b) \in Message
  /\ \A msg \in Message : msg.val \in Int
  /\ \A msg \in Message : msg.type = "TRANSFER" => msg.val \in Orders
  BY OrderFacts DEF Msg, Message, MessageTypes

-----------------------------------------------------------------------------
(***************************************************************************)
(* Steps of an account.                                                    *)
(***************************************************************************)
LEMMA PeerFacts == \A a \in Accounts, i \in Nat : PeerFrom(a, i + 1) \in Nat \ {0}
  BY DEF PeerFrom, Accounts

\* A received TRANSFER names an order.
LEMMA ReceivedFacts ==
  ASSUME chan \in Channels, NEW a \in Accounts, NEW p \in Procs,
         HasMessage(p, a)
  PROVE  /\ Receive(chan, p, a) \in Channels
         /\ Oldest(p, a).type = "TRANSFER" =>
              /\ Oldest(p, a).val \in Orders
              /\ Src(Oldest(p, a).val) \in Procs
              /\ Dst(Oldest(p, a).val) \in Procs
              /\ Amount(Oldest(p, a).val) \in Nat
  <1>1. a \in Procs
    BY ProcFacts
  <1>2. Receive(chan, p, a) \in Channels /\ Oldest(p, a) \in Message
    BY <1>1, ReceiveType
  <1> QED
    BY <1>2, MessageFacts, OrderFacts, ProcFacts

\* An account keeps its variables and the channels well typed.
LEMMA AccountType ==
  ASSUME chan \in Channels, ChildTypeOK, NEW a \in Accounts, ChildStep(a)
  PROVE  chan' \in Channels /\ ChildTypeOK'
  <1> USE DEF ChildTypeOK
  <1>0. a \in Procs /\ Parent \in Procs
    BY ProcFacts
  <1>1. CASE SendStarted(a)
    <2>1. chan' \in Channels
      BY <1>0, <1>1, MulticastType, MessageFacts DEF SendStarted
    <2>2. child_pc' \in [Accounts -> ChildPcs]
      BY <1>1 DEF SendStarted, AfterStartup, ChildPcs
    <2>3. child_pc'[a] = "wait_started" => peer'[a] \in Accounts
      BY <1>1, NAssumption DEF SendStarted, AfterStartup, Accounts
    <2> QED
      BY <1>1, <2>1, <2>2, <2>3 DEF SendStarted, AfterStartup
  <1>2. CASE WaitStarted(a)
    <2>1. chan' \in Channels
      <3>1. peer[a] \in Procs
        BY <1>2, ProcFacts DEF WaitStarted
      <3> QED
        BY <1>2, <3>1, ReceivedFacts DEF WaitStarted
    <2>2. child_pc' \in [Accounts -> ChildPcs]
      BY <1>2 DEF WaitStarted, AfterStartup, ChildPcs
    <2>3. PeerFrom(a, peer[a] + 1) \in Nat \ {0}
      BY PeerFacts
    <2>4. peer' \in [Accounts -> Nat \ {0}]
      BY <1>2, <2>3 DEF WaitStarted
    <2>5. child_pc'[a] = "wait_started" => peer'[a] \in Accounts
      BY <1>2, <2>3, NAssumption DEF WaitStarted, AfterStartup, Accounts
    <2> QED
      BY <1>2, <2>1, <2>2, <2>4, <2>5 DEF WaitStarted, AfterStartup
  <1>3. ASSUME NEW p \in Procs \ {a},
               \/ HandleTransferAsSource(a, p)
               \/ HandleTransferAsDestination(a, p)
               \/ HandleStop(a, p)
               \/ HandleOther(a, p)
               \/ WaitAllDone(a, p)
        PROVE  chan' \in Channels /\ ChildTypeOK'
    <2> DEFINE i == Oldest(p, a).val
    <2>1. HasMessage(p, a)
      BY <1>3 DEF HandleTransferAsSource, HandleTransferAsDestination,
                  HandleStop, HandleOther, WaitAllDone, ReceivedInLoop
    <2>2. /\ Receive(chan, p, a) \in Channels
          /\ Oldest(p, a).type = "TRANSFER" =>
               /\ i \in Orders /\ Dst(i) \in Procs /\ Amount(i) \in Nat
      BY <2>1, ReceivedFacts
    <2> HIDE DEF i
    <2>3. CASE HandleTransferAsSource(a, p)
      <3>1. i \in Orders /\ Dst(i) \in Procs /\ Amount(i) \in Nat
        BY <2>2, <2>3 DEF HandleTransferAsSource, ReceivedInLoop
      <3>2. chan' \in Channels
        <4>1. Msg("TRANSFER", i) \in Message
          BY <3>1, MessageFacts
        <4>2. chan' = Send(Receive(chan, p, a), a, Dst(i), Msg("TRANSFER", i))
          BY <2>3 DEF HandleTransferAsSource, i
        <4> QED
          BY <1>0, <2>2, <3>1, <4>1, <4>2, SendType
      <3>3. /\ balance' = [balance EXCEPT ![a] = @ - Amount(i)]
            /\ debited' = [debited EXCEPT ![i] = @ + 1]
            /\ UNCHANGED <<child_pc, peer, done_count, credited>>
        BY <2>3 DEF HandleTransferAsSource, i
      <3> QED
        BY <3>1, <3>2, <3>3
    <2>4. CASE HandleTransferAsDestination(a, p)
      <3>1. i \in Orders /\ Amount(i) \in Nat
        BY <2>2, <2>4 DEF HandleTransferAsDestination, ReceivedInLoop
      <3>2. chan' \in Channels
        <4>1. chan' = Send(Receive(chan, p, a), a, Parent, Msg("ACK", 0))
          BY <2>4 DEF HandleTransferAsDestination
        <4> QED
          BY <1>0, <2>2, <4>1, SendType, MessageFacts
      <3>3. /\ balance' = [balance EXCEPT ![a] = @ + Amount(i)]
            /\ credited' = [credited EXCEPT ![i] = @ + 1]
            /\ UNCHANGED <<child_pc, peer, done_count, debited>>
        BY <2>4 DEF HandleTransferAsDestination, i
      <3> QED
        BY <3>1, <3>2, <3>3
    <2>5. CASE HandleStop(a, p)
      <3>1. chan' \in Channels
        BY <1>0, <2>2, <2>5, MulticastType, MessageFacts DEF HandleStop
      <3>2. done_count' \in [Accounts -> Nat] /\ child_pc' \in [Accounts -> ChildPcs]
        BY <2>5 DEF HandleStop, ChildPcs
      <3> QED
        BY <2>5, <3>1, <3>2 DEF HandleStop
    <2>6. CASE HandleOther(a, p)
      BY <2>2, <2>6 DEF HandleOther
    <2>7. CASE WaitAllDone(a, p)
      BY <2>2, <2>7 DEF WaitAllDone
    <2> QED
      BY <1>3, <2>3, <2>4, <2>5, <2>6, <2>7
  <1>4. CASE SendHistory(a)
    <2>1. chan' \in Channels
      <3>1. Msg("BALANCE_HISTORY", balance[a]) \in Message
        BY MessageFacts
      <3> QED
        BY <1>0, <1>4, <3>1, SendType DEF SendHistory
    <2> QED
      BY <1>4, <2>1 DEF SendHistory, ChildPcs
  <1> QED
    BY <1>1, <1>2, <1>3, <1>4 DEF ChildStep

-----------------------------------------------------------------------------
(***************************************************************************)
(* Steps of a worker.  The type invariant needs to know that a worker in a *)
(* handler has a task, and OneReceiverPerChannel that the task is one of   *)
(* its shard.                                                              *)
(***************************************************************************)
AckPcs == {"local_send", "local_ack", "step2_send", "step2_ack", "step2_cleanup"}
SourcePcs == {"local_send", "step1_send"}

\* A worker of shard s can be at pc with task t: an account that the handler
\* waits for, or sends to, is one of the shard.
Serves(pc, t, s) ==
  /\ pc \in AckPcs => GetShardId(Dst(t.order)) = s
  /\ pc \in SourcePcs => GetShardId(Src(t.order)) = s
  /\ pc = "step2_push" => t.task_type = "CROSS_SHARD_STEP2"

\* Task t can be in the queue of shard s.
Leads(t, s) ==
  /\ t.task_type # "CROSS_SHARD_STEP1" => GetShardId(Dst(t.order)) = s
  /\ t.task_type # "CROSS_SHARD_STEP2" => GetShardId(Src(t.order)) = s

WorkerRouted ==
  \A s \in Shards :
    /\ worker_pc[s] \notin {"wait", "exited"} => task[s] \in Tasks
    /\ Serves(worker_pc[s], task[s], s)

QueueRouted ==
  \A s \in Shards : \A j \in 1 .. Len(task_queue[s]) : Leads(task_queue[s][j], s)

Routed == WorkerRouted /\ QueueRouted

LEMMA TaskFacts ==
  /\ \A t \in Tasks : t.order \in Orders /\ t.correlation_id \in Nat
  /\ \A i \in Orders : LocalTask(i) \in Tasks
  /\ \A i \in Orders, c \in Nat : /\ Step1Task(i, c) \in Tasks
                                  /\ Step2Task(i, c) \in Tasks
                                  /\ Context(i, c) \in Contexts
  BY DEF Tasks, TaskTypes, Task, LocalTask, Step1Task, Step2Task, Context,
         Contexts

\* submit_task keeps the queues well typed, and routed if the new task is.
LEMMA PushFacts ==
  ASSUME task_queue \in [Shards -> Seq(Tasks)], QueueRouted,
         NEW d \in Shards, NEW t \in Tasks, Push(d, t), Leads(t, d)
  PROVE  task_queue' \in [Shards -> Seq(Tasks)] /\ QueueRouted'
  <1>1. /\ task_queue[d] \in Seq(Tasks)
        /\ task_queue' = [task_queue EXCEPT ![d] = Append(@, t)]
    BY DEF Push
  <1>2. /\ Append(task_queue[d], t) \in Seq(Tasks)
        /\ Len(Append(task_queue[d], t)) = Len(task_queue[d]) + 1
        /\ Len(task_queue[d]) \in Nat
        /\ \A j \in 1 .. Len(task_queue[d]) :
             Append(task_queue[d], t)[j] = task_queue[d][j]
        /\ Append(task_queue[d], t)[Len(task_queue[d]) + 1] = t
    BY <1>1, AppendProperties, LenProperties
  <1>3. task_queue' \in [Shards -> Seq(Tasks)]
    BY <1>1, <1>2
  <1>4. ASSUME NEW s \in Shards, NEW j \in 1 .. Len(task_queue'[s])
        PROVE  Leads(task_queue'[s][j], s)
    <2>1. CASE s # d
      BY <1>1, <1>4, <2>1 DEF QueueRouted
    <2>2. CASE s = d
      <3>1. task_queue'[s] = Append(task_queue[d], t)
        BY <1>1, <2>2
      <3>2. CASE j = Len(task_queue[d]) + 1
        BY <1>2, <1>4, <2>2, <3>1, <3>2
      <3>3. CASE j # Len(task_queue[d]) + 1
        <4>1. j \in 1 .. Len(task_queue[d])
          BY <1>2, <1>4, <3>1, <3>3
        <4> QED
          BY <1>2, <1>4, <2>2, <3>1, <4>1 DEF QueueRouted
      <3> QED
        BY <3>2, <3>3
    <2> QED
      BY <2>1, <2>2
  <1> QED
    BY <1>3, <1>4 DEF QueueRouted

\* The oldest task of a queue, and the others.
LEMMA TakeFacts ==
  ASSUME task_queue \in [Shards -> Seq(Tasks)], QueueRouted,
         NEW s \in Shards, task_queue[s] # << >>,
         task_queue' = [task_queue EXCEPT ![s] = Tail(@)]
  PROVE  /\ task_queue' \in [Shards -> Seq(Tasks)]
         /\ QueueRouted'
         /\ Head(task_queue[s]) \in Tasks
         /\ Leads(Head(task_queue[s]), s)
  <1>1. task_queue[s] \in Seq(Tasks)
    OBVIOUS
  <1>2. /\ Tail(task_queue[s]) \in Seq(Tasks)
        /\ Head(task_queue[s]) \in Tasks
        /\ Head(task_queue[s]) = task_queue[s][1]
        /\ 1 \in 1 .. Len(task_queue[s])
        /\ Len(Tail(task_queue[s])) = Len(task_queue[s]) - 1
        /\ Len(task_queue[s]) \in Nat
        /\ \A j \in 1 .. Len(Tail(task_queue[s])) :
             Tail(task_queue[s])[j] = task_queue[s][j + 1]
    BY <1>1, HeadTailProperties, LenProperties, EmptySeq
  <1>3. task_queue' \in [Shards -> Seq(Tasks)]
    BY <1>2
  <1>4. QueueRouted'
    <2>1. ASSUME NEW r \in Shards, NEW j \in 1 .. Len(task_queue'[r])
          PROVE  Leads(task_queue'[r][j], r)
      <3>1. CASE r # s
        BY <2>1, <3>1 DEF QueueRouted
      <3>2. CASE r = s
        <4>1. task_queue'[r] = Tail(task_queue[s])
          BY <3>2
        <4>2. j + 1 \in 1 .. Len(task_queue[s])
          BY <1>2, <2>1, <4>1
        <4> QED
          BY <1>2, <2>1, <3>2, <4>1, <4>2 DEF QueueRouted
      <3> QED
        BY <3>1, <3>2
    <2> QED
      BY <2>1 DEF QueueRouted
  <1> QED
    BY <1>2, <1>3, <1>4 DEF QueueRouted

\* What a worker's move to pc with task t asks for.
LEMMA MoveFacts ==
  ASSUME worker_pc \in [Shards -> WorkerPcs], task \in [Shards -> Tasks \cup {NoTask}],
         WorkerRouted, NEW s \in Shards, NEW pc \in WorkerPcs,
         NEW t \in Tasks \cup {NoTask},
         worker_pc' = [worker_pc EXCEPT ![s] = pc],
         task' = [task EXCEPT ![s] = t],
         pc \notin {"wait", "exited"} => t \in Tasks,
         Serves(pc, t, s)
  PROVE  /\ worker_pc' \in [Shards -> WorkerPcs]
         /\ task' \in [Shards -> Tasks \cup {NoTask}]
         /\ WorkerRouted'
  BY DEF WorkerRouted

\* The same with the task unchanged.
LEMMA MoveOnFacts ==
  ASSUME worker_pc \in [Shards -> WorkerPcs], task \in [Shards -> Tasks \cup {NoTask}],
         WorkerRouted, NEW s \in Shards, NEW pc \in WorkerPcs,
         WorkerGoTo(s, pc), UNCHANGED task,
         pc \notin {"wait", "exited"} => task[s] \in Tasks,
         Serves(pc, task[s], s)
  PROVE  /\ worker_pc' \in [Shards -> WorkerPcs]
         /\ task' \in [Shards -> Tasks \cup {NoTask}]
         /\ WorkerRouted'
  BY DEF WorkerRouted, WorkerGoTo

LEMMA ReturnFacts ==
  ASSUME worker_pc \in [Shards -> WorkerPcs], task \in [Shards -> Tasks \cup {NoTask}],
         WorkerRouted, NEW s \in Shards, HandlerReturns(s)
  PROVE  /\ worker_pc' \in [Shards -> WorkerPcs]
         /\ task' \in [Shards -> Tasks \cup {NoTask}]
         /\ WorkerRouted'
  <1>1. Serves("wait", NoTask, s)
    BY DEF Serves, AckPcs, SourcePcs
  <1> QED
    BY <1>1, MoveFacts DEF HandlerReturns, WorkerGoTo, WorkerPcs

\* The handlers send an order to an account.
LEMMA SendOrderFacts ==
  ASSUME chan \in Channels, NEW s \in Shards, task[s] \in Tasks,
         \/ SendOrder(s, Src(task[s].order))
         \/ SendOrder(s, Dst(task[s].order))
  PROVE  chan' \in Channels
  <1>1. /\ task[s].order \in Orders
        /\ Src(task[s].order) \in Procs
        /\ Dst(task[s].order) \in Procs
        /\ Parent \in Procs
    BY TaskFacts, OrderFacts, ProcFacts
  <1>2. Msg("TRANSFER", task[s].order) \in Message
    BY <1>1, MessageFacts
  <1> QED
    BY <1>1, <1>2, SendType DEF SendOrder

\* The handlers receive from an account.
LEMMA AckFacts ==
  ASSUME chan \in Channels, NEW s \in Shards, task[s] \in Tasks,
         HasMessage(Dst(task[s].order), Parent)
  PROVE  Receive(chan, Dst(task[s].order), Parent) \in Channels
  <1>1. Dst(task[s].order) \in Procs /\ Parent \in Procs
    BY TaskFacts, OrderFacts, ProcFacts
  <1> QED
    BY <1>1, ReceiveType

LEMMA CountFacts ==
  \A s \in Shards, stat \in [Shards -> Nat] : Count(stat, s) \in [Shards -> Nat]
  BY DEF Count

\* A worker keeps its variables and the channels well typed, and its tasks
\* where they belong.
LEMMA WorkerType ==
  ASSUME chan \in Channels, PoolTypeOK, Routed, NEW s \in Shards, WorkerStep(s)
  PROVE  chan' \in Channels /\ PoolTypeOK' /\ Routed'
  <1> USE DEF PoolTypeOK, Routed, WorkerAt, statVars, lifeVars
  <1>1. CASE WorkerTake(s)
    <2> DEFINE t == Head(task_queue[s])
    <2>1. /\ task_queue' \in [Shards -> Seq(Tasks)]
          /\ QueueRouted'
          /\ t \in Tasks
          /\ Leads(t, s)
      BY <1>1, TakeFacts DEF WorkerTake
    <2>2. /\ worker_pc' = [worker_pc EXCEPT ![s] = HandlerOf(t)]
          /\ task' = [task EXCEPT ![s] = t]
      BY <1>1 DEF WorkerTake, WorkerGoTo
    <2> HIDE DEF t
    <2>3. /\ HandlerOf(t) \in {"local_send", "step1_send", "step2_send"}
          /\ Serves(HandlerOf(t), t, s)
      BY <2>1 DEF HandlerOf, AckPcs, SourcePcs, Serves, Leads, Tasks, TaskTypes
    <2>4. /\ worker_pc' \in [Shards -> WorkerPcs]
          /\ task' \in [Shards -> Tasks \cup {NoTask}]
          /\ WorkerRouted'
      <3>1. HandlerOf(t) \in WorkerPcs
        BY <2>3 DEF WorkerPcs
      <3> QED
        BY <2>1, <2>2, <2>3, <3>1, MoveFacts
    <2> QED
      BY <1>1, <2>1, <2>4 DEF WorkerTake
  <1>2. CASE WorkerExit(s)
    <2>1. /\ worker_pc' \in [Shards -> WorkerPcs]
          /\ task' \in [Shards -> Tasks \cup {NoTask}]
          /\ WorkerRouted'
      BY <1>2, MoveOnFacts DEF WorkerExit, WorkerPcs, AckPcs, SourcePcs, Serves
    <2> QED
      BY <1>2, <2>1 DEF WorkerExit, QueueRouted
  <1>3. CASE LocalSend(s) \/ Step1Send(s) \/ Step2Send(s)
    <2>1. task[s] \in Tasks
      BY <1>3 DEF LocalSend, Step1Send, Step2Send, WorkerRouted
    <2>2. chan' \in Channels
      BY <1>3, <2>1, SendOrderFacts DEF LocalSend, Step1Send, Step2Send
    <2>3. /\ worker_pc' \in [Shards -> WorkerPcs]
          /\ task' \in [Shards -> Tasks \cup {NoTask}]
          /\ WorkerRouted'
      <3>1. CASE LocalSend(s)
        BY <2>1, <3>1, MoveOnFacts
        DEF LocalSend, WorkerPcs, AckPcs, SourcePcs, Serves, WorkerRouted
      <3>2. CASE Step1Send(s)
        BY <2>1, <3>2, MoveOnFacts
        DEF Step1Send, WorkerPcs, AckPcs, SourcePcs, Serves, WorkerRouted
      <3>3. CASE Step2Send(s)
        BY <2>1, <3>3, MoveOnFacts
        DEF Step2Send, WorkerPcs, AckPcs, SourcePcs, Serves, WorkerRouted
      <3> QED
        BY <1>3, <3>1, <3>2, <3>3
    <2> QED
      BY <1>3, <2>2, <2>3 DEF LocalSend, Step1Send, Step2Send, QueueRouted
  <1>4. CASE LocalAck(s)
    <2>1. task[s] \in Tasks
      BY <1>4 DEF LocalAck, WorkerRouted
    <2>2. chan' \in Channels
      BY <1>4, <2>1, AckFacts DEF LocalAck
    <2>3. /\ worker_pc' \in [Shards -> WorkerPcs]
          /\ task' \in [Shards -> Tasks \cup {NoTask}]
          /\ WorkerRouted'
      BY <1>4, ReturnFacts DEF LocalAck
    <2>4. /\ local_transfers' \in [Shards -> Nat]
          /\ failed_transfers' \in [Shards -> Nat]
      <3>1. \/ /\ local_transfers' = Count(local_transfers, s)
               /\ UNCHANGED failed_transfers
            \/ /\ failed_transfers' = Count(failed_transfers, s)
               /\ UNCHANGED local_transfers
        BY <1>4, Zenon DEF LocalAck
      <3> QED
        BY <3>1, CountFacts
    <2> QED
      BY <1>4, <2>2, <2>3, <2>4 DEF LocalAck, QueueRouted
  <1>5. CASE Step2Ack(s)
    <2>1. task[s] \in Tasks /\ GetShardId(Dst(task[s].order)) = s
      BY <1>5 DEF Step2Ack, WorkerRouted, AckPcs, Serves
    <2>2. chan' \in Channels
      BY <1>5, <2>1, AckFacts DEF Step2Ack
    <2>3. /\ worker_pc' \in [Shards -> WorkerPcs]
          /\ task' \in [Shards -> Tasks \cup {NoTask}]
          /\ WorkerRouted'
      BY <1>5, <2>1, MoveOnFacts
      DEF Step2Ack, WorkerPcs, AckPcs, SourcePcs, Serves
    <2>4. /\ cross_shard_transfers' \in [Shards -> Nat]
          /\ failed_transfers' \in [Shards -> Nat]
      <3>1. \/ /\ cross_shard_transfers' = Count(cross_shard_transfers, s)
               /\ UNCHANGED failed_transfers
            \/ /\ failed_transfers' = Count(failed_transfers, s)
               /\ UNCHANGED cross_shard_transfers
        BY <1>5, Zenon DEF Step2Ack
      <3> QED
        BY <3>1, CountFacts
    <2> QED
      BY <1>5, <2>2, <2>3, <2>4 DEF Step2Ack, QueueRouted
  <1>6. CASE Step1Found(s)
    <2>1. task[s] \in Tasks
      BY <1>6 DEF Step1Found, WorkerRouted
    <2>2. PICK c \in ContextOf(task[s].correlation_id) :
            task' = [task EXCEPT ![s] =
                       Step2Task(c.task.order, task[s].correlation_id)]
      BY <1>6 DEF Step1Found
    <2>3. c.task \in Tasks
      BY DEF ContextOf, Contexts
    <2>4. Step2Task(c.task.order, task[s].correlation_id) \in Tasks
      BY <2>1, <2>3, TaskFacts
    <2>5. /\ worker_pc' \in [Shards -> WorkerPcs]
          /\ task' \in [Shards -> Tasks \cup {NoTask}]
          /\ WorkerRouted'
      <3>1. worker_pc' = [worker_pc EXCEPT ![s] = "step2_push"]
        BY <1>6 DEF Step1Found, WorkerGoTo
      <3>2. Serves("step2_push", Step2Task(c.task.order, task[s].correlation_id), s)
        BY DEF Serves, AckPcs, SourcePcs, Step2Task, Task
      <3> QED
        BY <2>2, <2>4, <3>1, <3>2, MoveFacts DEF WorkerPcs
    <2> QED
      BY <1>6, <2>5 DEF Step1Found, QueueRouted
  <1>7. CASE Step1NotFound(s)
    <2>1. /\ worker_pc' \in [Shards -> WorkerPcs]
          /\ task' \in [Shards -> Tasks \cup {NoTask}]
          /\ WorkerRouted'
      BY <1>7, ReturnFacts DEF Step1NotFound
    <2> QED
      BY <1>7, <2>1 DEF Step1NotFound, QueueRouted
  <1>8. CASE Step2Push(s)
    <2> DEFINE d == GetShardId(Dst(task[s].order))
    <2>1. task[s] \in Tasks /\ d \in Shards /\ Leads(task[s], d)
      BY <1>8, TaskFacts, OrderFacts, ShardFacts
      DEF Step2Push, WorkerRouted, Serves, Leads
    <2>2. task_queue' \in [Shards -> Seq(Tasks)] /\ QueueRouted'
      <3>1. CASE Push(d, task[s])
        BY <2>1, <3>1, PushFacts
      <3>2. CASE UNCHANGED task_queue
        BY <3>2 DEF QueueRouted
      <3> QED
        BY <1>8, <3>1, <3>2 DEF Step2Push
    <2>3. /\ worker_pc' \in [Shards -> WorkerPcs]
          /\ task' \in [Shards -> Tasks \cup {NoTask}]
          /\ WorkerRouted'
      BY <1>8, <2>1, MoveOnFacts
      DEF Step2Push, WorkerPcs, AckPcs, SourcePcs, Serves
    <2> QED
      BY <1>8, <2>2, <2>3 DEF Step2Push
  <1>11. CASE Step2Notify(s)
    <2>1. /\ worker_pc' \in [Shards -> WorkerPcs]
          /\ task' \in [Shards -> Tasks \cup {NoTask}]
          /\ WorkerRouted'
      BY <1>11, ReturnFacts DEF Step2Notify
    <2> QED
      BY <1>11, <2>1 DEF Step2Notify, QueueRouted
  <1>9. CASE Step2Cleanup(s)
    <2>1. /\ worker_pc' \in [Shards -> WorkerPcs]
          /\ task' \in [Shards -> Tasks \cup {NoTask}]
          /\ WorkerRouted'
      BY <1>9, ReturnFacts DEF Step2Cleanup
    <2> QED
      BY <1>9, <2>1 DEF Step2Cleanup, QueueRouted
  <1>10. CASE Crash(s)
    BY <1>10 DEF Crash, QueueRouted, WorkerRouted
  <1> QED
    BY <1>1, <1>2, <1>3, <1>4, <1>5, <1>6, <1>7, <1>8, <1>9, <1>10, <1>11
    DEF WorkerStep

-----------------------------------------------------------------------------
(***************************************************************************)
(* Steps of the main thread.                                               *)
(***************************************************************************)
\* No worker has begun before the first submission, and the destructor joins
\* the workers first to last.
PhaseInv ==
  /\ main_pc = "phase1" =>
       \A s \in Shards : /\ worker_pc[s] = "wait"
                         /\ task_queue[s] = << >>
                         /\ stop_flag[s] = FALSE
  /\ main_pc \in {"stop_shard", "join_shard"} =>
       \A s \in Shards : s < cursor => worker_pc[s] = "exited"
  /\ main_pc \in {"phase3_stop", "phase3", "phase4", "finished"} =>
       \A s \in Shards : worker_pc[s] = "exited"

IInv == TypeOK /\ Routed /\ PhaseInv

\* Routed depends on the pool only.
LEMMA RoutedUnchanged ==
  ASSUME Routed, UNCHANGED <<task_queue, worker_pc, task>>
  PROVE  Routed'
  BY DEF Routed, WorkerRouted, QueueRouted

LEMMA PoolTypeUnchanged ==
  ASSUME PoolTypeOK, UNCHANGED poolVars
  PROVE  PoolTypeOK'
  BY DEF PoolTypeOK, poolVars, statVars, lifeVars

\* submit_transfer queues a task of the right shard.
LEMMA SubmitType ==
  ASSUME PoolTypeOK, Routed, NEW i \in Orders, SubmitTransfer(i)
  PROVE  PoolTypeOK' /\ Routed'
  <1> USE DEF PoolTypeOK, Routed
  <1>1. GetShardId(Src(i)) \in Shards
    BY OrderFacts, ShardFacts
  <1>2. WorkerRouted'
    BY DEF SubmitTransfer, WorkerRouted
  <1>3. CASE SubmitLocal(i)
    <2>1. task_queue' \in [Shards -> Seq(Tasks)] /\ QueueRouted'
      <3>1. LocalTask(i) \in Tasks
        BY TaskFacts
      <3>2. Leads(LocalTask(i), GetShardId(Src(i)))
        BY <1>3 DEF SubmitLocal, IsLocal, LocalTask, Task, Leads
      <3> QED
        BY <1>1, <1>3, <3>1, <3>2, PushFacts DEF SubmitLocal
    <2> QED
      BY <1>2, <1>3, <2>1 DEF SubmitTransfer, SubmitLocal, statVars, lifeVars
  <1>4. CASE SubmitCrossShard(i)
    <2> DEFINE t == Step1Task(i, next_correlation_id)
    <2>1. t \in Tasks /\ Context(i, next_correlation_id) \in Contexts
      BY TaskFacts
    <2>2. task_queue' \in [Shards -> Seq(Tasks)] /\ QueueRouted'
      <3>1. Leads(t, GetShardId(Src(i)))
        BY DEF Step1Task, Task, Leads
      <3>2. Push(GetShardId(Src(i)), t)
        BY <1>4 DEF SubmitCrossShard
      <3> HIDE DEF t
      <3> QED
        BY <1>1, <2>1, <3>1, <3>2, PushFacts
    <2>3. contexts' \in SUBSET Contexts /\ next_correlation_id' \in Nat \ {0}
      BY <1>4, <2>1 DEF SubmitCrossShard
    <2> QED
      BY <1>2, <2>2, <2>3 DEF SubmitTransfer, statVars, lifeVars
  <1> QED
    BY <1>3, <1>4 DEF SubmitTransfer

\* The main thread receives from the account its loop is at.
LEMMA ReceiveNextFacts ==
  ASSUME chan \in Channels, cursor \in Accounts, ReceiveNext
  PROVE  chan' \in Channels /\ Oldest(cursor, Parent) \in Message
  <1>1. cursor \in Procs /\ Parent \in Procs
    BY ProcFacts
  <1> QED
    BY <1>1, ReceiveType DEF ReceiveNext

LEMMA MainInvariant ==
  ASSUME IInv, MainStep
  PROVE  chan' \in Channels /\ PoolTypeOK' /\ MainTypeOK' /\ Routed' /\ PhaseInv'
  <1> USE DEF IInv, TypeOK, MainTypeOK, MainAt
  <1>0. N \in Nat /\ NumShards \in Nat /\ Len(Workload) \in Nat
    BY ProcFacts, ShardFacts, WorkloadAssumption, LenProperties
  <1>1. CASE Phase1WaitStartup
    <2>1. cursor \in Accounts
      BY <1>1 DEF Phase1WaitStartup, CursorRange
    <2>2. chan' \in Channels
      BY <1>1, <2>1, ReceiveNextFacts DEF Phase1WaitStartup
    <2>3. PoolTypeOK'
      BY <1>1, PoolTypeUnchanged DEF Phase1WaitStartup
    <2>4. Routed'
      BY <1>1, RoutedUnchanged DEF Phase1WaitStartup, poolVars
    <2>5. \/ main_pc' = "phase1" /\ cursor' \in Accounts
          \/ main_pc' = "submit" /\ cursor' \in Orders
          \/ main_pc' = "wait_all" /\ cursor' \in Shards
      BY <1>0, <1>1, <2>1, ShardFacts DEF Phase1WaitStartup, Iterate, Accounts, Orders
    <2>6. MainTypeOK'
      BY <1>1, <2>5 DEF Phase1WaitStartup, MainPcs, CursorRange
    <2>7. PhaseInv'
      BY <1>1, <2>5 DEF Phase1WaitStartup, PhaseInv, poolVars, lifeVars
    <2> QED
      BY <2>2, <2>3, <2>4, <2>6, <2>7
  <1>2. CASE Phase2Submit
    <2>1. cursor \in Orders
      BY <1>2 DEF Phase2Submit, CursorRange
    <2>2. chan' \in Channels
      BY <1>2 DEF Phase2Submit, SubmitTransfer
    <2>3. PoolTypeOK' /\ Routed'
      BY <1>2, <2>1, SubmitType DEF Phase2Submit
    <2>4. \/ main_pc' = "submit" /\ cursor' \in Orders
          \/ main_pc' = "wait_all" /\ cursor' \in Shards
      BY <1>0, <1>2, <2>1, ShardFacts DEF Phase2Submit, Iterate, Orders
    <2>5. MainTypeOK'
      BY <1>2, <2>4 DEF Phase2Submit, MainPcs, CursorRange
    <2>6. PhaseInv'
      BY <2>4 DEF PhaseInv
    <2> QED
      BY <2>2, <2>3, <2>5, <2>6
  <1>3. CASE WaitAllComplete
    <2>1. cursor \in Shards
      BY <1>3 DEF WaitAllComplete, CursorRange
    <2>2. PoolTypeOK'
      BY <1>3, PoolTypeUnchanged DEF WaitAllComplete
    <2>3. Routed'
      BY <1>3, RoutedUnchanged DEF WaitAllComplete, poolVars
    <2>4. \/ main_pc' = "wait_all" /\ cursor' \in Shards
          \/ main_pc' = "destroy_contexts" /\ cursor' = 0
      BY <1>0, <1>3, <2>1, ShardFacts DEF WaitAllComplete, Iterate, Shards
    <2>5. MainTypeOK'
      BY <1>3, <2>4 DEF WaitAllComplete, MainPcs, CursorRange
    <2>6. PhaseInv'
      BY <2>4 DEF PhaseInv
    <2> QED
      BY <1>3, <2>2, <2>3, <2>5, <2>6 DEF WaitAllComplete
  <1>4. CASE DestroyContexts
    <2>1. PoolTypeOK'
      BY <1>4 DEF DestroyContexts, PoolTypeOK, statVars
    <2>2. Routed'
      BY <1>4, RoutedUnchanged DEF DestroyContexts
    <2>3. MainTypeOK'
      BY <1>4, ShardFacts DEF DestroyContexts, MainPcs, CursorRange
    <2>4. cursor = 0
      BY <1>4 DEF DestroyContexts, CursorRange
    <2>5. PhaseInv'
      BY <1>4, <2>4 DEF DestroyContexts, PhaseInv, Shards
    <2> QED
      BY <1>4, <2>1, <2>2, <2>3, <2>5 DEF DestroyContexts
  <1>5. CASE StopShard
    <2>1. PoolTypeOK'
      BY <1>5 DEF StopShard, PoolTypeOK, statVars
    <2>2. Routed'
      BY <1>5, RoutedUnchanged DEF StopShard
    <2>3. MainTypeOK'
      BY <1>5 DEF StopShard, MainPcs, CursorRange
    <2>4. PhaseInv'
      BY <1>5 DEF StopShard, PhaseInv
    <2> QED
      BY <1>5, <2>1, <2>2, <2>3, <2>4 DEF StopShard
  <1>6. CASE JoinShard
    <2>1. cursor \in Shards
      BY <1>6 DEF JoinShard, CursorRange
    <2>2. PoolTypeOK'
      BY <1>6 DEF JoinShard, PoolTypeOK, statVars
    <2>3. Routed'
      BY <1>6, RoutedUnchanged DEF JoinShard
    <2>4. \/ main_pc' = "stop_shard" /\ cursor' = cursor + 1 /\ cursor' \in Shards
          \/ main_pc' = "phase3_stop" /\ cursor' = 1 /\ cursor = NumShards - 1
      BY <1>0, <1>6, <2>1 DEF JoinShard, Iterate, Shards
    <2>5. MainTypeOK'
      BY <1>6, <2>4 DEF JoinShard, MainPcs, CursorRange
    <2>6. \A s \in Shards : s <= cursor => worker_pc'[s] = "exited"
      BY <1>6, <2>1 DEF JoinShard, PhaseInv, Shards
    <2>7. PhaseInv'
      BY <1>0, <2>1, <2>4, <2>6 DEF PhaseInv, Shards
    <2> QED
      BY <1>6, <2>2, <2>3, <2>5, <2>7 DEF JoinShard
  <1>7. CASE Phase3Stop
    <2>1. chan' \in Channels
      BY <1>7, ProcFacts, MulticastType, MessageFacts DEF Phase3Stop
    <2>2. PoolTypeOK'
      BY <1>7, PoolTypeUnchanged DEF Phase3Stop
    <2>3. Routed'
      BY <1>7, RoutedUnchanged DEF Phase3Stop, poolVars
    <2>4. MainTypeOK'
      BY <1>7, ProcFacts DEF Phase3Stop, MainPcs, CursorRange
    <2>5. PhaseInv'
      BY <1>7 DEF Phase3Stop, PhaseInv, poolVars
    <2> QED
      BY <2>1, <2>2, <2>3, <2>4, <2>5
  <1>8. CASE Phase3WaitDone
    <2>1. cursor \in Accounts
      BY <1>8 DEF Phase3WaitDone, CursorRange
    <2>2. chan' \in Channels
      BY <1>8, <2>1, ReceiveNextFacts DEF Phase3WaitDone
    <2>3. PoolTypeOK'
      BY <1>8, PoolTypeUnchanged DEF Phase3WaitDone
    <2>4. Routed'
      BY <1>8, RoutedUnchanged DEF Phase3WaitDone, poolVars
    <2>5. main_pc' \in {"phase3", "phase4"} /\ cursor' \in Accounts
      BY <1>0, <1>8, <2>1 DEF Phase3WaitDone, Iterate, Accounts
    <2>6. MainTypeOK'
      BY <1>8, <2>5 DEF Phase3WaitDone, MainPcs, CursorRange
    <2>7. PhaseInv'
      BY <1>8, <2>5 DEF Phase3WaitDone, PhaseInv, poolVars
    <2> QED
      BY <2>2, <2>3, <2>4, <2>6, <2>7
  <1>9. CASE Phase4CollectHistory
    <2>1. cursor \in Accounts
      BY <1>9 DEF Phase4CollectHistory, CursorRange
    <2>2. chan' \in Channels /\ Oldest(cursor, Parent).val \in Int
      BY <1>9, <2>1, ReceiveNextFacts, MessageFacts DEF Phase4CollectHistory
    <2>3. PoolTypeOK'
      BY <1>9, PoolTypeUnchanged DEF Phase4CollectHistory
    <2>4. Routed'
      BY <1>9, RoutedUnchanged DEF Phase4CollectHistory, poolVars
    <2>5. \/ main_pc' = "phase4" /\ cursor' \in Accounts
          \/ main_pc' = "finished" /\ cursor' = 1
      BY <1>0, <1>9, <2>1 DEF Phase4CollectHistory, Iterate, Accounts
    <2>6. collected' \in [Accounts -> Int \cup {NoHistory}]
      <3>1. \/ UNCHANGED collected
            \/ collected' = [collected EXCEPT ![cursor] = Oldest(cursor, Parent).val]
            \/ collected' = [collected EXCEPT ![cursor] = @]
        BY <1>9, Zenon DEF Phase4CollectHistory
      <3> QED
        BY <2>1, <2>2, <3>1
    <2>7. MainTypeOK'
      BY <2>5, <2>6 DEF MainPcs, CursorRange
    <2>8. PhaseInv'
      BY <1>9, <2>5 DEF Phase4CollectHistory, PhaseInv, poolVars
    <2> QED
      BY <2>2, <2>3, <2>4, <2>7, <2>8
  <1> QED
    BY <1>1, <1>2, <1>3, <1>4, <1>5, <1>6, <1>7, <1>8, <1>9 DEF MainStep

-----------------------------------------------------------------------------
(***************************************************************************)
(* The invariant.                                                          *)
(***************************************************************************)
LEMMA Initial == Init => IInv
  <1> SUFFICES ASSUME Init PROVE IInv
    OBVIOUS
  <1>1. chan \in Channels
    <2>1. << >> \in Seq(Message)
      BY EmptySeq
    <2> QED
      BY <2>1 DEF Init, NetworkInit, Channels
  <1>2. ChildTypeOK
    <2>1. \A a \in Accounts : PeerFrom(a, 1) \in Nat \ {0}
      BY DEF PeerFrom, Accounts
    <2>2. /\ child_pc \in [Accounts -> ChildPcs]
          /\ \A a \in Accounts : child_pc[a] = "started"
      BY DEF Init, ChildInit, ChildPcs
    <2>3. peer \in [Accounts -> Nat \ {0}]
      BY <2>1 DEF Init, ChildInit
    <2>4. balance \in [Accounts -> Int]
      BY InitialBalanceAssumption DEF Init, ChildInit
    <2>5. /\ done_count \in [Accounts -> Nat]
          /\ debited \in [Orders -> Nat]
          /\ credited \in [Orders -> Nat]
      BY DEF Init, ChildInit
    <2> QED
      BY <2>2, <2>3, <2>4, <2>5 DEF ChildTypeOK
  <1>3. PoolTypeOK
    <2>1. << >> \in Seq(Tasks)
      BY EmptySeq
    <2>2. /\ task_queue \in [Shards -> Seq(Tasks)]
          /\ stop_flag \in [Shards -> BOOLEAN]
          /\ worker_pc \in [Shards -> WorkerPcs]
          /\ task \in [Shards -> Tasks \cup {NoTask}]
          /\ shard_alive \in [Shards -> BOOLEAN]
      BY <2>1 DEF Init, PoolInit, WorkerPcs
    <2>3. /\ local_transfers \in [Shards -> Nat]
          /\ cross_shard_transfers \in [Shards -> Nat]
          /\ failed_transfers \in [Shards -> Nat]
      BY DEF Init, PoolInit
    <2>4. contexts = {} /\ next_correlation_id \in Nat \ {0}
      BY DEF Init, PoolInit
    <2>5. contexts_alive = TRUE /\ crashed = FALSE
      BY DEF Init, PoolInit
    <2> QED
      BY <2>2, <2>3, <2>4, <2>5 DEF PoolTypeOK
  <1>4. MainTypeOK
    BY ProcFacts DEF Init, MainInit, MainTypeOK, MainPcs, CursorRange
  <1>5. Routed
    <2>1. Len(<< >>) = 0
      OBVIOUS
    <2> QED
      BY <2>1 DEF Init, PoolInit, Routed, WorkerRouted, QueueRouted,
                  Serves, AckPcs, SourcePcs
  <1>6. PhaseInv
    BY DEF Init, PoolInit, MainInit, PhaseInv
  <1> QED
    BY <1>1, <1>2, <1>3, <1>4, <1>5, <1>6 DEF IInv, TypeOK

\* A worker begins nothing in phase 1, and nothing once it has exited.
LEMMA WorkerPhase ==
  ASSUME PoolTypeOK, PhaseInv, NEW s \in Shards, Worker(s)
  PROVE  PhaseInv'
  <1> USE DEF WorkerAt, PhaseInv
  <1>1. UNCHANGED mainVars
    BY DEF Worker
  <1>2. ~ crashed
    BY DEF Worker, WorkerStep, WorkerTake, WorkerExit, LocalSend, LocalAck,
           Step1Send, Step1Found, Step1NotFound, Step2Push, Step2Notify, Step2Send,
           Step2Ack, Step2Cleanup, Crash, UsesDestroyed
  <1>3. /\ worker_pc[s] # "exited"
        /\ worker_pc[s] = "wait" => task_queue[s] # << >> \/ stop_flag[s]
    BY DEF Worker, WorkerStep, WorkerTake, WorkerExit, LocalSend, LocalAck,
           Step1Send, Step1Found, Step1NotFound, Step2Push, Step2Notify, Step2Send,
           Step2Ack, Step2Cleanup, Crash, UsesDestroyed
  <1>4. main_pc # "phase1"
    BY <1>3
  <1>5. \A r \in Shards \ {s} : worker_pc'[r] = worker_pc[r]
    BY DEF Worker, WorkerStep, WorkerTake, WorkerExit, LocalSend, LocalAck,
           Step1Send, Step1Found, Step1NotFound, Step2Push, Step2Notify, Step2Send,
           Step2Ack, Step2Cleanup, Crash, WorkerGoTo, HandlerReturns, PoolTypeOK
  <1> QED
    BY <1>1, <1>3, <1>4, <1>5 DEF mainVars

LEMMA Inductive == IInv /\ [Next]_vars => IInv'
  <1> SUFFICES ASSUME IInv, [Next]_vars PROVE IInv'
    OBVIOUS
  <1> USE DEF IInv, TypeOK
  <1>1. CASE Main
    <2>1. ChildTypeOK'
      BY <1>1 DEF Main, childVars, ChildTypeOK
    <2> QED
      BY <1>1, <2>1, MainInvariant DEF Main
  <1>2. ASSUME NEW s \in Shards, Worker(s)
        PROVE  IInv'
    <2>1. chan' \in Channels /\ PoolTypeOK' /\ Routed'
      BY <1>2, WorkerType DEF Worker
    <2>2. ChildTypeOK' /\ MainTypeOK'
      BY <1>2 DEF Worker, childVars, mainVars, ChildTypeOK, MainTypeOK, CursorRange
    <2>3. PhaseInv'
      BY <1>2, WorkerPhase
    <2> QED
      BY <2>1, <2>2, <2>3
  <1>3. ASSUME NEW a \in Accounts, Account(a)
        PROVE  IInv'
    <2>1. chan' \in Channels /\ ChildTypeOK'
      BY <1>3, AccountType DEF Account
    <2>2. UNCHANGED poolVars /\ UNCHANGED mainVars
      BY <1>3 DEF Account, parentVars
    <2>3. PoolTypeOK' /\ Routed'
      BY <2>2, PoolTypeUnchanged, RoutedUnchanged DEF poolVars
    <2>4. MainTypeOK'
      BY <2>2 DEF mainVars, MainTypeOK, CursorRange
    <2>5. PhaseInv'
      BY <2>2 DEF poolVars, lifeVars, mainVars, PhaseInv
    <2> QED
      BY <2>1, <2>3, <2>4, <2>5
  <1>4. CASE UNCHANGED vars
    <2>1. UNCHANGED chan /\ UNCHANGED childVars /\ UNCHANGED poolVars /\ UNCHANGED mainVars
      BY <1>4 DEF vars, parentVars
    <2>2. PoolTypeOK' /\ Routed'
      BY <2>1, PoolTypeUnchanged, RoutedUnchanged DEF poolVars
    <2>3. ChildTypeOK' /\ MainTypeOK'
      BY <2>1 DEF childVars, mainVars, ChildTypeOK, MainTypeOK, CursorRange
    <2>4. PhaseInv'
      BY <2>1 DEF poolVars, lifeVars, mainVars, PhaseInv
    <2> QED
      BY <2>1, <2>2, <2>3, <2>4
  <1> QED
    BY <1>1, <1>2, <1>3, <1>4 DEF Next, Terminated

\* The inductive invariant holds in every reachable state.
THEOREM Invariance == Spec => []IInv
  BY Initial, Inductive, PTL DEF Spec

\* Every variable keeps its type: in particular every TRANSFER an account
\* receives names an order, every queue holds only tasks,
\* and the main thread's loop variable stays in the range of its loop.
THEOREM TypeCorrect == Spec => []TypeOK
  <1>1. IInv => TypeOK
    BY DEF IInv
  <1> QED
    BY Invariance, <1>1, PTL

\* No two threads of the parent receive from the same account at the same
\* time (account_shard.cpp:110 and :172, parent_controller.cpp:29, :73
\* and :87).
THEOREM OneReceiver == Spec => []OneReceiverPerChannel
  <1>1. IInv => OneReceiverPerChannel
    <2> SUFFICES ASSUME IInv PROVE OneReceiverPerChannel
      OBVIOUS
    <2>1. ASSUME NEW s \in Shards, Receiving(s)
          PROVE  GetShardId(AwaitedBy(s)) = s
      BY <2>1
      DEF IInv, Routed, WorkerRouted, Serves, Receiving, WorkerAt, AckPcs, AwaitedBy
    <2>2. ASSUME MainReceives, NEW s \in Shards
          PROVE  ~ Receiving(s)
      BY <2>2 DEF IInv, PhaseInv, MainReceives, Receiving, WorkerAt
    <2> QED
      BY <2>1, <2>2 DEF OneReceiverPerChannel
  <1> QED
    BY Invariance, <1>1, PTL
=============================================================================
