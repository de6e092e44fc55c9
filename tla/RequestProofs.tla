--------------------------- MODULE RequestProofs ---------------------------
(***************************************************************************)
(* The way of a submitted order to its source account, and of the answers  *)
(* back to the parent, for any number of accounts and shards, any workload *)
(* and either version of the account process.  A request is never lost and *)
(* never doubled, not even by the destruction of the ShardManager; and     *)
(* every answer is an ACK, counted once by the shard it is for.            *)
(***************************************************************************)
EXTENDS ChannelProofs

-----------------------------------------------------------------------------
(***************************************************************************)
(* The three places of a request, as counts.                               *)
(***************************************************************************)
\* The tasks whose handler sends order i to its source.
FirstSteps(i) == {t \in Tasks : t.order = i /\ t.task_type # "CROSS_SHARD_STEP2"}

Sending(i) == {s \in Shards : /\ worker_pc[s] \in {"local_send", "step1_send"}
                              /\ task[s].order = i}

LEMMA QueueCount ==
  ASSUME NEW q \in Seq(Tasks), NEW i
  PROVE  Cardinality({j \in DOMAIN q : /\ q[j].order = i
                                       /\ q[j].task_type # "CROSS_SHARD_STEP2"})
           = HowMany(q, FirstSteps(i))
  <1>1. DOMAIN q = 1 .. Len(q) /\ \A j \in 1 .. Len(q) : q[j] \in Tasks
    BY LenProperties, ElementOfSeq
  <1>2. {j \in DOMAIN q : /\ q[j].order = i
                          /\ q[j].task_type # "CROSS_SHARD_STEP2"}
          = Places(q, FirstSteps(i))
    BY <1>1 DEF Places, FirstSteps
  <1> QED
    BY <1>2 DEF HowMany

LEMMA MessageCount ==
  ASSUME NEW c \in Seq(Message), NEW i
  PROVE  Cardinality({j \in DOMAIN c : c[j] = Msg("TRANSFER", i)})
           = HowMany(c, {Msg("TRANSFER", i)})
  <1>1. DOMAIN c = 1 .. Len(c)
    BY LenProperties
  <1>2. {j \in DOMAIN c : c[j] = Msg("TRANSFER", i)}
          = Places(c, {Msg("TRANSFER", i)})
    BY <1>1 DEF Places
  <1> QED
    BY <1>2 DEF HowMany

LEMMA RequestType ==
  ASSUME IInv, NEW i \in Orders
  PROVE  /\ GetShardId(Src(i)) \in Shards
         /\ task_queue[GetShardId(Src(i))] \in Seq(Tasks)
         /\ chan[Parent][Src(i)] \in Seq(Message)
         /\ QueuedRequests(i) =
              HowMany(task_queue[GetShardId(Src(i))], FirstSteps(i))
         /\ RunningRequests(i) = Cardinality(Sending(i))
         /\ MessagesOf(i, Parent, Src(i)) =
              HowMany(chan[Parent][Src(i)], {Msg("TRANSFER", i)})
         /\ QueuedRequests(i) \in Nat
         /\ RunningRequests(i) \in Nat
         /\ MessagesOf(i, Parent, Src(i)) \in Nat
         /\ debited[i] \in Nat
         /\ IsFiniteSet(Sending(i))
  <1>1. /\ Src(i) \in Accounts /\ Src(i) \in Procs /\ Parent \in Procs
        /\ GetShardId(Src(i)) \in Shards
    BY OrderFacts, ProcFacts, ShardFacts
  <1>2. /\ task_queue[GetShardId(Src(i))] \in Seq(Tasks)
        /\ chan \in Channels
        /\ debited[i] \in Nat
    BY <1>1 DEF IInv, TypeOK, PoolTypeOK, ChildTypeOK
  <1>3. chan[Parent][Src(i)] \in Seq(Message)
    BY <1>1, <1>2, ChannelType
  <1>4. QueuedRequests(i) = HowMany(task_queue[GetShardId(Src(i))], FirstSteps(i))
    BY <1>2, QueueCount DEF QueuedRequests
  <1>5. MessagesOf(i, Parent, Src(i)) =
          HowMany(chan[Parent][Src(i)], {Msg("TRANSFER", i)})
    BY <1>3, MessageCount DEF MessagesOf
  <1>6. RunningRequests(i) = Cardinality(Sending(i))
    BY DEF RunningRequests, Sending
  <1>7. IsFiniteSet(Sending(i))
    <2>1. NumShards - 1 \in Int /\ 0 \in Int
      BY ShardFacts
    <2>2. IsFiniteSet(Shards)
      BY <2>1, FS_Interval DEF Shards
    <2>3. Sending(i) \in SUBSET Shards
      BY DEF Sending
    <2> QED
      BY <2>2, <2>3, FS_Subset
  <1> QED
    BY <1>1, <1>2, <1>3, <1>4, <1>5, <1>6, <1>7, HowManyType, FS_CardinalityType

\* The same in the next state.
LEMMA RequestTypeNext ==
  ASSUME IInv', NEW i \in Orders
  PROVE  /\ QueuedRequests(i)' =
              HowMany(task_queue'[GetShardId(Src(i))], FirstSteps(i))
         /\ RunningRequests(i)' = Cardinality(Sending(i)')
         /\ MessagesOf(i, Parent, Src(i))' =
              HowMany(chan'[Parent][Src(i)], {Msg("TRANSFER", i)})
  <1>1. /\ Src(i) \in Procs /\ Parent \in Procs
        /\ GetShardId(Src(i)) \in Shards
    BY OrderFacts, ProcFacts, ShardFacts
  <1>2. task_queue'[GetShardId(Src(i))] \in Seq(Tasks) /\ chan' \in Channels
    BY <1>1 DEF IInv, TypeOK, PoolTypeOK
  <1>3. chan'[Parent][Src(i)] \in Seq(Message)
    BY <1>1, <1>2, ChannelType
  <1> QED
    BY <1>2, <1>3, QueueCount, MessageCount
    DEF QueuedRequests, MessagesOf, RunningRequests, Sending

\* A worker changes its own program counter and task only.
LEMMA WorkerAlone ==
  ASSUME PoolTypeOK, NEW s \in Shards, Worker(s), NEW r \in Shards \ {s}
  PROVE  worker_pc'[r] = worker_pc[r] /\ task'[r] = task[r]
  BY DEF Worker, WorkerStep, WorkerTake, WorkerExit, LocalSend, LocalAck,
         Step1Send, Step1Found, Step1NotFound, Step2Push, Step2Notify, Step2Send,
         Step2Ack, Step2Cleanup, Crash, WorkerGoTo, HandlerReturns, PoolTypeOK

\* One worker joins or leaves those that send order i.
LEMMA SendingChange ==
  ASSUME IInv, NEW i \in Orders, NEW s \in Shards,
         \A r \in Shards \ {s} : worker_pc'[r] = worker_pc[r] /\ task'[r] = task[r]
  PROVE  Cardinality(Sending(i)') =
           Cardinality(Sending(i)) + (IF s \in Sending(i)' THEN 1 ELSE 0)
                                   - (IF s \in Sending(i) THEN 1 ELSE 0)
  <1>1. IsFiniteSet(Sending(i))
    BY RequestType
  <1>2. Sending(i)' \ {s} = Sending(i) \ {s}
    BY DEF Sending
  <1> QED
    BY <1>1, <1>2, CardinalityChange

\* No step of a worker loses or doubles a request.
LEMMA WorkerRequests ==
  ASSUME IInv, IInv', NEW s \in Shards, Worker(s), NEW i \in Orders
  PROVE  QueuedRequests(i)' + RunningRequests(i)' + MessagesOf(i, Parent, Src(i))'
           = QueuedRequests(i) + RunningRequests(i) + MessagesOf(i, Parent, Src(i))
  <1> DEFINE d == GetShardId(Src(i))
             q == task_queue[d]
             c == chan[Parent][Src(i)]
             F == FirstSteps(i)
             T == {Msg("TRANSFER", i)}
             Q == QueuedRequests(i)
             R == RunningRequests(i)
             M == MessagesOf(i, Parent, Src(i))
             in(x) == IF x THEN 1 ELSE 0
  <1>1. /\ d \in Shards /\ q \in Seq(Tasks) /\ c \in Seq(Message)
        /\ Q = HowMany(q, F) /\ Q \in Nat
        /\ R \in Nat
        /\ M = HowMany(c, T) /\ M \in Nat
        /\ Q' = HowMany(task_queue'[d], F)
        /\ M' = HowMany(chan'[Parent][Src(i)], T)
    BY RequestType, RequestTypeNext
  <1>2. PoolTypeOK /\ chan \in Channels
    BY DEF IInv, TypeOK
  <1>3. R' = R + in(s \in Sending(i)') - in(s \in Sending(i))
    BY <1>2, WorkerAlone, SendingChange, RequestType, RequestTypeNext
  <1>4. /\ Parent \in Procs /\ Src(i) \in Procs
        /\ \A a \in Accounts : a \in Procs /\ a # Parent
    BY ProcFacts, OrderFacts
  <1>5. s \in Sending(i) <=> /\ worker_pc[s] \in {"local_send", "step1_send"}
                             /\ task[s].order = i
    BY DEF Sending
  <1>6. s \in Sending(i)' <=> /\ worker_pc'[s] \in {"local_send", "step1_send"}
                              /\ task'[s].order = i
    BY DEF Sending
  <1> SUFFICES Q' + R' + M' = Q + R + M
    OBVIOUS
  <1> HIDE DEF q, c, F, T, Q, R, M
  <1>7. ASSUME UNCHANGED task_queue, UNCHANGED chan,
               s \notin Sending(i), s \notin Sending(i)'
        PROVE  Q' + R' + M' = Q + R + M
    BY <1>1, <1>3, <1>7 DEF q, c
  <1>8. CASE WorkerTake(s)
    <2> DEFINE t == Head(task_queue[s])
    <2>1. /\ worker_pc[s] = "wait"
          /\ task_queue[s] # << >>
          /\ task_queue' = [task_queue EXCEPT ![s] = Tail(@)]
          /\ worker_pc'[s] = HandlerOf(t)
          /\ task'[s] = t
          /\ UNCHANGED chan
      BY <1>2, <1>8 DEF WorkerTake, WorkerAt, WorkerGoTo, PoolTypeOK
    <2>2. t \in Tasks /\ Leads(t, s)
      BY <1>2, <2>1, TakeFacts DEF IInv, Routed, PoolTypeOK
    <2> HIDE DEF t
    <2>3. HandlerOf(t) \in {"local_send", "step1_send"} <=>
            t.task_type # "CROSS_SHARD_STEP2"
      BY <2>2 DEF HandlerOf, Tasks, TaskTypes
    <2>4. s \in Sending(i)' <=> t \in F
      BY <1>6, <2>1, <2>2, <2>3 DEF F, FirstSteps
    <2>5. s \notin Sending(i)
      BY <1>5, <2>1
    <2>6. Q' = Q - in(t \in F)
      <3>1. CASE s = d
        <4>1. task_queue'[d] = Tail(q) /\ q # << >> /\ t = Head(q)
          BY <1>2, <2>1, <3>1 DEF PoolTypeOK, q, t
        <4> QED
          BY <1>1, <4>1, HowManyTail
      <3>2. CASE s # d
        <4>1. task_queue'[d] = q
          BY <1>1, <1>2, <2>1, <3>2 DEF PoolTypeOK, q
        <4>2. t \notin F
          BY <2>2, <3>2 DEF Leads, F, FirstSteps
        <4> QED
          BY <1>1, <4>1, <4>2
      <3> QED
        BY <3>1, <3>2
    <2>7. M' = M
      BY <1>1, <2>1 DEF c
    <2> QED
      BY <1>1, <1>3, <2>4, <2>5, <2>6, <2>7
  <1>9. CASE LocalSend(s) \/ Step1Send(s) \/ Step2Send(s)
    <2> DEFINE o == task[s].order
               to == IF Step2Send(s) THEN Dst(o) ELSE Src(o)
    <2>1. /\ worker_pc[s] \in SourcePcs \cup AckPcs
          /\ worker_pc[s] \in {"local_send", "step1_send"} <=> ~ Step2Send(s)
          /\ worker_pc'[s] \notin {"local_send", "step1_send"}
          /\ UNCHANGED task_queue
          /\ chan' = Send(chan, Parent, to, Msg("TRANSFER", o))
      BY <1>2, <1>9 DEF LocalSend, Step1Send, Step2Send, SendOrder, WorkerAt,
                        WorkerGoTo, SourcePcs, AckPcs, PoolTypeOK
    <2>2. o \in Orders
      BY <2>1, TaskFacts DEF IInv, Routed, WorkerRouted, SourcePcs, AckPcs
    <2>3. /\ to \in Procs
          /\ Msg("TRANSFER", o) \in Message
          /\ Msg("TRANSFER", o) \in T <=> o = i
      BY <1>4, <2>2, OrderFacts, MessageFacts DEF T, Msg
    <2>4. chan'[Parent][Src(i)] = IF Src(i) = to THEN Append(c, Msg("TRANSFER", o))
                                                 ELSE c
      <3>1. Send(chan, Parent, to, Msg("TRANSFER", o))[Parent][Src(i)] =
              IF Parent = Parent /\ Src(i) = to
              THEN Append(chan[Parent][to], Msg("TRANSFER", o))
              ELSE chan[Parent][Src(i)]
        BY <1>2, <1>4, <2>3, SendAt
      <3> QED
        BY <2>1, <3>1 DEF c
    <2>5. Q' = Q
      BY <1>1, <2>1 DEF q
    <2>6. s \notin Sending(i)' /\ (s \in Sending(i) <=> o = i /\ ~ Step2Send(s))
      BY <1>5, <1>6, <2>1
    <2>7. M' = M + in(o = i /\ ~ Step2Send(s))
      <3>1. CASE Src(i) = to
        <4>1. M' = M + in(o = i)
          BY <1>1, <2>3, <2>4, <3>1, HowManyAppend
        <4>2. o = i => ~ Step2Send(s)
          BY <3>1, OrderEnds
        <4> QED
          BY <4>1, <4>2
      <3>2. CASE Src(i) # to
        BY <1>1, <2>4, <3>2
      <3> QED
        BY <3>1, <3>2
    <2> QED
      BY <1>1, <1>3, <2>5, <2>6, <2>7
  <1>10. CASE LocalAck(s) \/ Step2Ack(s)
    <2> DEFINE o == task[s].order
    <2>1. /\ worker_pc[s] \in {"local_ack", "step2_ack"}
          /\ worker_pc'[s] \in {"wait", "step2_cleanup"}
          /\ UNCHANGED task_queue
          /\ chan' = Receive(chan, Dst(o), Parent)
      BY <1>2, <1>10 DEF LocalAck, Step2Ack, WorkerAt, WorkerGoTo, HandlerReturns,
                         PoolTypeOK
    <2>2. o \in Orders
      BY <2>1, TaskFacts DEF IInv, Routed, WorkerRouted
    <2>3. Dst(o) \in Procs /\ Dst(o) # Parent
      BY <1>4, <2>2, OrderFacts
    <2> HIDE DEF o
    <2>4. chan'[Parent][Src(i)] = c
      BY <1>2, <1>4, <2>1, <2>3, ReceiveAt DEF c
    <2>5. Q' = Q /\ M' = M
      BY <1>1, <2>1, <2>4 DEF q
    <2>6. R' = R
      BY <1>1, <1>3, <1>5, <1>6, <2>1
    <2> QED
      BY <2>5, <2>6
  <1>11. CASE Step2Push(s)
    <2> DEFINE e == GetShardId(Dst(task[s].order))
    <2>1. /\ worker_pc[s] = "step2_push"
          /\ worker_pc'[s] = "step2_notify"
          /\ UNCHANGED chan
          /\ Push(e, task[s]) \/ UNCHANGED task_queue
      BY <1>2, <1>11 DEF Step2Push, WorkerAt, WorkerGoTo, PoolTypeOK
    <2>2. task[s] \in Tasks /\ task[s] \notin F /\ e \in Shards
      BY <2>1, TaskFacts, OrderFacts, ShardFacts
      DEF IInv, Routed, WorkerRouted, Serves, F, FirstSteps
    <2> HIDE DEF e
    <2>3. task_queue'[d] = q \/ task_queue'[d] = Append(q, task[s])
      BY <1>1, <1>2, <2>1, <2>2 DEF Push, PoolTypeOK, q
    <2>4. Q' = Q
      <3>1. HowMany(Append(q, task[s]), F) = HowMany(q, F)
        BY <1>1, <2>2, HowManyAppend
      <3>2. CASE task_queue'[d] = q
        BY <1>1, <3>2
      <3>3. CASE task_queue'[d] = Append(q, task[s])
        BY <1>1, <3>1, <3>3
      <3> QED
        BY <2>3, <3>2, <3>3
    <2>5. M' = M
      BY <1>1, <2>1 DEF c
    <2>6. R' = R
      BY <1>1, <1>3, <1>5, <1>6, <2>1
    <2> QED
      BY <2>4, <2>5, <2>6
  <1>12. CASE \/ WorkerExit(s) \/ Step1Found(s) \/ Step1NotFound(s)
              \/ Step2Notify(s) \/ Step2Cleanup(s)
    <2>1. /\ worker_pc[s] \notin {"local_send", "step1_send"}
          /\ worker_pc'[s] \notin {"local_send", "step1_send"}
          /\ UNCHANGED <<task_queue, chan>>
      BY <1>2, <1>12 DEF WorkerExit, Step1Found, Step1NotFound, Step2Notify,
                         Step2Cleanup, WorkerAt, WorkerGoTo, HandlerReturns,
                         PoolTypeOK
    <2> QED
      BY <1>5, <1>6, <1>7, <2>1
  <1>13. CASE Crash(s)
    <2>1. UNCHANGED <<task_queue, chan, worker_pc, task>>
      BY <1>13 DEF Crash
    <2>2. s \in Sending(i)' <=> s \in Sending(i)
      BY <1>5, <1>6, <2>1
    <2>3. R' = R
      BY <1>1, <1>3, <2>2
    <2>4. Q' = Q /\ M' = M
      BY <1>1, <2>1 DEF q, c
    <2> QED
      BY <2>3, <2>4
  <1> QED
    BY <1>8, <1>9, <1>10, <1>11, <1>12, <1>13 DEF Worker, WorkerStep

-----------------------------------------------------------------------------
(***************************************************************************)
(* Steps of an account and of the main thread.                             *)
(***************************************************************************)
\* An account that takes a request out of its channel debits the order.
LEMMA AccountRequests ==
  ASSUME IInv, IInv', ChannelInv, NEW a \in Accounts, Account(a), NEW i \in Orders
  PROVE  /\ QueuedRequests(i)' = QueuedRequests(i)
         /\ RunningRequests(i)' = RunningRequests(i)
         /\ MessagesOf(i, Parent, Src(i))' + debited'[i]
              = MessagesOf(i, Parent, Src(i)) + debited[i]
  <1> DEFINE c == chan[Parent][Src(i)]
             T == {Msg("TRANSFER", i)}
             M == MessagesOf(i, Parent, Src(i))
             Goal == M' + debited'[i] = M + debited[i]
  <1>1. /\ c \in Seq(Message)
        /\ M = HowMany(c, T) /\ M \in Nat
        /\ M' = HowMany(chan'[Parent][Src(i)], T)
        /\ debited[i] \in Nat
    BY RequestType, RequestTypeNext
  <1>2. UNCHANGED poolVars
    BY DEF Account, parentVars
  <1>3. /\ QueuedRequests(i)' = QueuedRequests(i)
        /\ RunningRequests(i)' = RunningRequests(i)
    BY <1>2 DEF poolVars, QueuedRequests, RunningRequests
  <1>4. /\ Parent \in Procs /\ Src(i) \in Procs /\ Parent # Src(i)
        /\ a \in Procs /\ a # Parent
        /\ debited \in [Orders -> Nat]
    BY ProcFacts, OrderFacts DEF IInv, TypeOK, ChildTypeOK
  <1>5. KindInv /\ StopInv
    BY DEF ChannelInv
  <1> SUFFICES Goal
    BY <1>3
  <1> HIDE DEF c, T, M
  <1>6. ASSUME chan'[Parent][Src(i)] = c, debited'[i] = debited[i]
        PROVE  Goal
    BY <1>1, <1>6
  <1>7. CASE SendStarted(a) \/ WaitStarted(a)
    <2>1. chan'[Parent][Src(i)] = c
      BY <1>4, <1>7, StartupChannels, ProcFacts DEF c
    <2> QED
      BY <1>6, <1>7, <2>1 DEF SendStarted, WaitStarted
  <1>8. CASE SendHistory(a)
    <2>1. chan'[Parent][Src(i)] = c
      BY <1>4, <1>8, HistoryChannels DEF c
    <2> QED
      BY <1>6, <1>8, <2>1 DEF SendHistory
  <1>9. ASSUME NEW p \in Procs \ {a}, LoopStep(a, p), ~ (p = Parent /\ a = Src(i))
        PROVE  Goal
    <2>1. chan'[Parent][Src(i)] = c
      BY <1>4, <1>5, <1>9, LoopChannels DEF c
    <2>2. debited'[i] = debited[i]
      <3>1. CASE HandleTransferAsSource(a, p)
        <4>1. Oldest(p, a).val # i
          BY <1>5, <1>9, <3>1, SourceTurn
        <4> QED
          BY <1>4, <3>1, <4>1 DEF HandleTransferAsSource
      <3>2. CASE ~ HandleTransferAsSource(a, p)
        BY <1>9, <3>2 DEF LoopStep, HandleTransferAsDestination, HandleStop,
                          HandleOther, WaitAllDone
      <3> QED
        BY <3>1, <3>2
    <2> QED
      BY <1>6, <2>1, <2>2
  <1>10. ASSUME LoopStep(a, Parent), a = Src(i)
         PROVE  Goal
    <2>1. c # << >> /\ chan'[Parent][Src(i)] = Tail(c)
      BY <1>4, <1>5, <1>10, LoopChannels DEF c
    <2>2. M' = M - (IF Head(c) \in T THEN 1 ELSE 0)
      BY <1>1, <2>1, HowManyTail
    <2>3. Oldest(Parent, a) = Head(c)
      BY <1>10 DEF Oldest, c
    <2>4. CASE HandleTransferAsSource(a, Parent)
      <3> DEFINE k == Oldest(Parent, a).val
      <3>1. k \in Orders /\ Head(c) = Msg("TRANSFER", k)
        BY <1>4, <1>5, <1>10, <2>4, SourceTurn DEF c
      <3>2. debited' = [debited EXCEPT ![k] = @ + 1]
        BY <2>4 DEF HandleTransferAsSource
      <3> HIDE DEF k
      <3>3. Head(c) \in T <=> k = i
        BY <3>1 DEF T, Msg
      <3>4. debited'[i] = debited[i] + (IF k = i THEN 1 ELSE 0)
        BY <1>4, <3>1, <3>2
      <3> QED
        BY <1>1, <2>2, <3>3, <3>4
    <2>5. ASSUME Head(c) \notin T, UNCHANGED debited
          PROVE  Goal
      BY <1>1, <2>2, <2>5
    <2>6. CASE HandleTransferAsDestination(a, Parent)
      <3> DEFINE k == Oldest(Parent, a).val
      <3>1. k \in Orders /\ Head(c) = Msg("TRANSFER", k) /\ Dst(k) = a
        BY <1>4, <1>5, <1>10, <2>6, DestinationTurn DEF c
      <3>2. k # i
        BY <1>10, <3>1, OrderEnds
      <3> HIDE DEF k
      <3>3. Head(c) \notin T
        BY <3>1, <3>2 DEF T, Msg
      <3> QED
        BY <2>5, <2>6, <3>3 DEF HandleTransferAsDestination
    <2>7. CASE HandleStop(a, Parent)
      <3>1. Head(c).type = "STOP"
        BY <2>3, <2>7 DEF HandleStop, ReceivedInLoop
      <3>2. Head(c) \notin T
        BY <3>1 DEF T, Msg
      <3> QED
        BY <2>5, <2>7, <3>2 DEF HandleStop
    <2>8. CASE HandleOther(a, Parent)
      <3>1. Head(c).type = "TRANSFER" => a # Src(Head(c).val)
        BY <2>3, <2>8 DEF HandleOther
      <3>2. Head(c) \notin T
        BY <1>10, <3>1 DEF T, Msg
      <3> QED
        BY <2>5, <2>8, <3>2 DEF HandleOther
    <2>9. CASE WaitAllDone(a, Parent)
      <3>1. Stopped(a)
        BY <2>9 DEF WaitAllDone, Stopped
      <3>2. c = << >>
        BY <1>5, <1>10, <3>1 DEF StopInv, StopChannel, c
      <3> QED
        BY <2>1, <3>2
    <2> QED
      BY <1>10, <2>4, <2>6, <2>7, <2>8, <2>9 DEF LoopStep
  <1> QED
    BY <1>4, <1>7, <1>8, <1>9, <1>10, AccountSteps

Requested(i) == QueuedRequests(i) + RunningRequests(i)
                  + MessagesOf(i, Parent, Src(i)) + debited[i]

\* A submission makes one request.
LEMMA SubmitRequests ==
  ASSUME IInv, IInv', Phase2Submit, UNCHANGED childVars, NEW i \in Orders
  PROVE  Requested(i)' = Requested(i) + (IF i = cursor THEN 1 ELSE 0)
  <1> DEFINE d == GetShardId(Src(i))
             e == GetShardId(Src(cursor))
             q == task_queue[d]
             F == FirstSteps(i)
             Q == QueuedRequests(i)
  <1>1. /\ d \in Shards /\ q \in Seq(Tasks)
        /\ Q = HowMany(q, F) /\ Q \in Nat
        /\ Q' = HowMany(task_queue'[d], F)
        /\ RunningRequests(i) \in Nat
        /\ MessagesOf(i, Parent, Src(i)) \in Nat
        /\ debited[i] \in Nat
    BY RequestType, RequestTypeNext
  <1>2. /\ UNCHANGED <<chan, worker_pc, task, debited>>
        /\ cursor \in Orders
    BY DEF Phase2Submit, SubmitTransfer, childVars, MainAt, IInv, TypeOK,
           MainTypeOK, CursorRange
  <1>3. /\ RunningRequests(i)' = RunningRequests(i)
        /\ MessagesOf(i, Parent, Src(i))' = MessagesOf(i, Parent, Src(i))
        /\ debited'[i] = debited[i]
    BY <1>2 DEF RunningRequests, MessagesOf
  <1>4. PICK t : /\ t \in {LocalTask(cursor), Step1Task(cursor, next_correlation_id)}
                 /\ Push(e, t)
    BY DEF Phase2Submit, SubmitTransfer, SubmitLocal, SubmitCrossShard
  <1>5. /\ t \in Tasks /\ t.order = cursor /\ t.task_type # "CROSS_SHARD_STEP2"
        /\ next_correlation_id \in Nat
    <2>1. next_correlation_id \in Nat
      BY DEF IInv, TypeOK, PoolTypeOK
    <2> QED
      BY <1>2, <1>4, <2>1, TaskFacts DEF LocalTask, Step1Task, Task
  <1>6. t \in F <=> i = cursor
    BY <1>5 DEF FirstSteps
  <1>7. e \in Shards /\ task_queue \in [Shards -> Seq(Tasks)]
    BY <1>2, OrderFacts, ShardFacts DEF IInv, TypeOK, PoolTypeOK
  <1> HIDE DEF F, q, Q
  <1>8. Q' = Q + (IF i = cursor THEN 1 ELSE 0)
    <2>1. CASE d = e
      <3>1. task_queue'[d] = Append(q, t)
        BY <1>1, <1>4, <1>7, <2>1 DEF Push, q
      <3> QED
        BY <1>1, <1>5, <1>6, <3>1, HowManyAppend
    <2>2. CASE d # e
      <3>1. task_queue'[d] = q
        BY <1>1, <1>4, <1>7, <2>2 DEF Push, q
      <3>2. i # cursor
        BY <2>2
      <3> QED
        BY <1>1, <3>1, <3>2
    <2> QED
      BY <2>1, <2>2
  <1> QED
    BY <1>1, <1>3, <1>8 DEF Requested, Q

\* The other steps of the main thread move no request.
LEMMA MainRequests ==
  ASSUME IInv, IInv', MainStep, ~ Phase2Submit, UNCHANGED childVars,
         NEW i \in Orders
  PROVE  Requested(i)' = Requested(i) /\ (Submitted(i)' <=> Submitted(i))
  <1> DEFINE c == chan[Parent][Src(i)]
             T == {Msg("TRANSFER", i)}
             M == MessagesOf(i, Parent, Src(i))
  <1>1. UNCHANGED <<task_queue, worker_pc, task, debited>>
    BY DEF MainStep, Phase1WaitStartup, WaitAllComplete, DestroyContexts,
           StopShard, JoinShard, Phase3Stop, Phase3WaitDone,
           Phase4CollectHistory, poolVars, childVars
  <1>2. /\ QueuedRequests(i)' = QueuedRequests(i)
        /\ RunningRequests(i)' = RunningRequests(i)
    BY <1>1 DEF QueuedRequests, RunningRequests
  <1>3. /\ c \in Seq(Message)
        /\ M = HowMany(c, T)
        /\ M' = HowMany(chan'[Parent][Src(i)], T)
        /\ M \in Nat
    BY RequestType, RequestTypeNext
  <1>4. /\ Parent \in Procs /\ Src(i) \in Procs /\ Parent # Src(i)
        /\ \A a \in Accounts : a \in Procs /\ a # Parent
        /\ chan \in Channels
        /\ i \in Nat \ {0}
    BY ProcFacts, OrderFacts DEF IInv, TypeOK
  <1> HIDE DEF c, T, M
  <1>5. M' = M
    <2>1. CASE Phase1WaitStartup \/ Phase3WaitDone \/ Phase4CollectHistory
      <3>1. chan'[Parent][Src(i)] = c
        BY <1>4, <2>1, MainReceive, ReceiveAt DEF c
      <3> QED
        BY <1>3, <3>1
    <2>2. CASE Phase3Stop
      <3>1. chan'[Parent][Src(i)] = Append(c, Msg("STOP", 0))
        BY <1>4, <2>2 DEF Phase3Stop, SendMulticast, Channels, c
      <3>2. Msg("STOP", 0) \in Message /\ Msg("STOP", 0) \notin T
        BY MessageFacts DEF Msg, T
      <3> QED
        BY <1>3, <3>1, <3>2, HowManyAppend
    <2>3. CASE WaitAllComplete \/ DestroyContexts \/ StopShard \/ JoinShard
      <3>1. chan'[Parent][Src(i)] = c
        BY <2>3 DEF WaitAllComplete, DestroyContexts, StopShard, JoinShard, c
      <3> QED
        BY <1>3, <3>1
    <2> QED
      BY <2>1, <2>2, <2>3 DEF MainStep
  <1>6. Requested(i)' = Requested(i)
    BY <1>1, <1>2, <1>5 DEF Requested, M
  <1>7. Submitted(i)' <=> Submitted(i)
    <2>1. CASE Phase1WaitStartup
      <3>1. Orders # {}
        OBVIOUS
      <3>2. /\ main_pc = "phase1"
            /\ main_pc' = "phase1" \/ (main_pc' = "submit" /\ cursor' = 1)
        BY <2>1, <3>1 DEF Phase1WaitStartup, MainAt, Iterate
      <3>3. ~ Submitted(i) /\ ~ Submitted(i)'
        BY <1>4, <3>2 DEF Submitted
      <3> QED
        BY <3>3
    <2>2. CASE ~ Phase1WaitStartup
      <3>1. /\ main_pc \notin {"phase1", "submit"}
            /\ main_pc' \notin {"phase1", "submit"}
        BY <2>2 DEF MainStep, WaitAllComplete, DestroyContexts, StopShard,
                    JoinShard, Phase3Stop, Phase3WaitDone,
                    Phase4CollectHistory, MainAt, Iterate
      <3>2. Submitted(i) /\ Submitted(i)'
        BY <3>1 DEF Submitted
      <3> QED
        BY <3>2
    <2> QED
      BY <2>1, <2>2
  <1> QED
    BY <1>6, <1>7

LEMMA RequestsInitial == Init => RequestedOnce
  <1> SUFFICES ASSUME Init, NEW i \in Orders
               PROVE  Requested(i) = IF Submitted(i) THEN 1 ELSE 0
    BY DEF RequestedOnce, Requested
  <1>1. IInv
    BY Initial
  <1>2. /\ GetShardId(Src(i)) \in Shards /\ Src(i) \in Procs /\ Parent \in Procs
    BY OrderFacts, ShardFacts, ProcFacts
  <1>3. QueuedRequests(i) = 0
    <2>1. task_queue[GetShardId(Src(i))] = << >>
      BY <1>2 DEF Init, PoolInit
    <2> QED
      BY <1>1, <2>1, RequestType, HowManyEmpty
  <1>4. MessagesOf(i, Parent, Src(i)) = 0
    <2>1. chan[Parent][Src(i)] = << >>
      BY <1>2 DEF Init, NetworkInit
    <2> QED
      BY <1>1, <2>1, RequestType, HowManyEmpty
  <1>5. RunningRequests(i) = 0
    <2>1. Sending(i) = {}
      BY DEF Init, PoolInit, Sending
    <2> QED
      BY <1>1, <2>1, RequestType, FS_EmptySet
  <1>6. debited[i] = 0 /\ ~ Submitted(i)
    BY DEF Init, ChildInit, MainInit, Submitted
  <1> QED
    BY <1>3, <1>4, <1>5, <1>6 DEF Requested

LEMMA RequestsInductive ==
  IInv /\ ChannelInv /\ RequestedOnce /\ [Next]_vars => RequestedOnce'
  <1> SUFFICES ASSUME IInv, ChannelInv, RequestedOnce, [Next]_vars, NEW i \in Orders
               PROVE  Requested(i)' = IF Submitted(i)' THEN 1 ELSE 0
    BY DEF RequestedOnce, Requested
  <1>0. IInv'
    BY Inductive
  <1>1. Requested(i) = IF Submitted(i) THEN 1 ELSE 0
    BY DEF RequestedOnce, Requested
  <1>2. /\ QueuedRequests(i) \in Nat
        /\ RunningRequests(i) \in Nat
        /\ MessagesOf(i, Parent, Src(i)) \in Nat
        /\ debited[i] \in Nat
    BY RequestType
  <1>3. /\ MessagesOf(i, Parent, Src(i))' \in Nat
        /\ debited'[i] \in Nat
        /\ QueuedRequests(i)' \in Nat
        /\ RunningRequests(i)' \in Nat
    <2>1. /\ Src(i) \in Procs /\ Parent \in Procs
          /\ GetShardId(Src(i)) \in Shards
      BY OrderFacts, ProcFacts, ShardFacts
    <2>2. /\ task_queue'[GetShardId(Src(i))] \in Seq(Tasks)
          /\ chan'[Parent][Src(i)] \in Seq(Message)
          /\ debited'[i] \in Nat
      BY <1>0, <2>1 DEF IInv, TypeOK, PoolTypeOK, ChildTypeOK, Channels
    <2>3. IsFiniteSet(Shards) /\ Sending(i)' \in SUBSET Shards
      <3>1. NumShards - 1 \in Int /\ 0 \in Int
        BY ShardFacts
      <3> QED
        BY <3>1, FS_Interval DEF Shards, Sending
    <2>4. Cardinality(Sending(i)') \in Nat
      BY <2>3, FS_Subset, FS_CardinalityType
    <2>5. /\ HowMany(task_queue'[GetShardId(Src(i))], FirstSteps(i)) \in Nat
          /\ HowMany(chan'[Parent][Src(i)], {Msg("TRANSFER", i)}) \in Nat
      BY <2>2, HowManyType
    <2>6. /\ QueuedRequests(i)' =
               HowMany(task_queue'[GetShardId(Src(i))], FirstSteps(i))
          /\ RunningRequests(i)' = Cardinality(Sending(i)')
          /\ MessagesOf(i, Parent, Src(i))' =
               HowMany(chan'[Parent][Src(i)], {Msg("TRANSFER", i)})
      BY <1>0, RequestTypeNext
    <2> QED
      BY <2>2, <2>4, <2>5, <2>6
  <1>4. CASE Main /\ Phase2Submit
    <2>1. Requested(i)' = Requested(i) + (IF i = cursor THEN 1 ELSE 0)
      BY <1>0, <1>4, SubmitRequests DEF Main
    <2>2. /\ main_pc = "submit" /\ cursor \in Orders
          /\ \/ main_pc' = "submit" /\ cursor' = cursor + 1
             \/ main_pc' = "wait_all" /\ cursor = Len(Workload)
      BY <1>4, WorkloadAssumption, LenProperties
      DEF Phase2Submit, MainAt, Iterate, IInv, TypeOK, MainTypeOK, CursorRange,
          Orders
    <2>3. i \in 1 .. Len(Workload) /\ cursor \in 1 .. Len(Workload)
          /\ Len(Workload) \in Nat
      BY <2>2, WorkloadAssumption, LenProperties DEF Orders
    <2>4. Submitted(i)' <=> Submitted(i) \/ i = cursor
      BY <2>2, <2>3 DEF Submitted
    <2>5. Submitted(i) => i # cursor
      BY <2>2, <2>3 DEF Submitted
    <2> QED
      BY <1>1, <2>1, <2>4, <2>5
  <1>5. CASE Main /\ ~ Phase2Submit
    <2>1. Requested(i)' = Requested(i) /\ (Submitted(i)' <=> Submitted(i))
      BY <1>0, <1>5, MainRequests DEF Main
    <2> QED
      BY <1>1, <2>1
  <1>6. ASSUME NEW s \in Shards, Worker(s)
        PROVE  Requested(i)' = IF Submitted(i)' THEN 1 ELSE 0
    <2>1. UNCHANGED debited /\ Submitted(i)' = Submitted(i)
      BY <1>6 DEF Worker, childVars, mainVars, Submitted
    <2>2. Requested(i)' = Requested(i)
      BY <1>0, <1>2, <1>3, <1>6, <2>1, WorkerRequests DEF Requested
    <2> QED
      BY <1>1, <2>1, <2>2
  <1>7. ASSUME NEW a \in Accounts, Account(a)
        PROVE  Requested(i)' = IF Submitted(i)' THEN 1 ELSE 0
    <2>1. Submitted(i)' = Submitted(i)
      BY <1>7 DEF Account, parentVars, mainVars, Submitted
    <2>2. Requested(i)' = Requested(i)
      BY <1>0, <1>2, <1>3, <1>7, AccountRequests DEF Requested
    <2> QED
      BY <1>1, <2>1, <2>2
  <1>8. CASE UNCHANGED vars
    <2>1. Requested(i)' = Requested(i) /\ Submitted(i)' = Submitted(i)
      BY <1>8 DEF vars, parentVars, poolVars, childVars, mainVars, Requested,
                  QueuedRequests, RunningRequests, MessagesOf, Submitted
    <2> QED
      BY <1>1, <2>1
  <1> QED
    BY <1>4, <1>5, <1>6, <1>7, <1>8 DEF Next, Terminated

\* A submitted order is in exactly one of: the queue of its shard, the
\* worker of its shard, the channel to its source account, and the account's
\* past (account_shard.cpp:59-98, child_worker.cpp:143-158).
THEOREM RequestedExactlyOnce == Spec => []RequestedOnce
  BY RequestsInitial, RequestsInductive, Invariance, ChannelInvariance, PTL DEF Spec

-----------------------------------------------------------------------------
(***************************************************************************)
(* What a worker leaves behind.                                            *)
(***************************************************************************)
Destroying == main_pc \in {"stop_shard", "join_shard", "phase3_stop"} \/ AfterStop

\* A worker leaves once it was told to stop, which happens in the destructor,
\* and leaves nothing queued; only step 2 is queued with it after that.
ExitInv ==
  \A s \in Shards :
    /\ stop_flag[s] => Destroying
    /\ worker_pc[s] = "exited" =>
         /\ stop_flag[s]
         /\ \A j \in 1 .. Len(task_queue[s]) :
              task_queue[s][j].task_type = "CROSS_SHARD_STEP2"

LEMMA ExitInductive ==
  /\ Init => ExitInv
  /\ IInv /\ ExitInv /\ [Next]_vars => ExitInv'
  <1>1. Init => ExitInv
    BY DEF Init, PoolInit, ExitInv
  <1> SUFFICES ASSUME IInv, ExitInv, [Next]_vars PROVE ExitInv'
    BY <1>1
  <1>2. PoolTypeOK /\ WorkerRouted
    BY DEF IInv, TypeOK, Routed
  <1>3. ASSUME UNCHANGED <<stop_flag, worker_pc, task_queue>>,
               Destroying => Destroying'
        PROVE  ExitInv'
    BY <1>3 DEF ExitInv
  <1>4. CASE Main
    <2>1. CASE Phase2Submit
      <3>1. ~ Destroying /\ UNCHANGED <<stop_flag, worker_pc>>
        BY <2>1 DEF Phase2Submit, MainAt, SubmitTransfer, lifeVars, Destroying,
                    AfterStop
      <3>2. \A s \in Shards : ~ stop_flag[s] /\ worker_pc[s] # "exited"
        BY <3>1 DEF ExitInv
      <3> QED
        BY <3>1, <3>2 DEF ExitInv
    <2>2. CASE StopShard
      <3>1. Destroying' /\ UNCHANGED <<worker_pc, task_queue>>
        BY <2>2 DEF StopShard, Destroying
      <3>2. \A s \in Shards : stop_flag[s] => stop_flag'[s]
        BY <1>2, <2>2 DEF StopShard, PoolTypeOK
      <3> QED
        BY <3>1, <3>2 DEF ExitInv
    <2>3. CASE MainStep /\ ~ Phase2Submit /\ ~ StopShard
      <3>1. UNCHANGED <<stop_flag, worker_pc, task_queue>>
        BY <2>3 DEF MainStep, Phase1WaitStartup, WaitAllComplete,
                    DestroyContexts, JoinShard, Phase3Stop, Phase3WaitDone,
                    Phase4CollectHistory, poolVars, lifeVars
      <3>2. Destroying => Destroying'
        BY <2>3 DEF MainStep, Phase1WaitStartup, WaitAllComplete,
                    DestroyContexts, JoinShard, Phase3Stop, Phase3WaitDone,
                    Phase4CollectHistory, MainAt, Iterate, Destroying, AfterStop
      <3> QED
        BY <1>3, <3>1, <3>2
    <2> QED
      BY <1>4, <2>1, <2>2, <2>3 DEF Main
  <1>5. ASSUME NEW s \in Shards, Worker(s)
        PROVE  ExitInv'
    <2>1. Destroying' = Destroying
      BY <1>5 DEF Worker, mainVars, Destroying, AfterStop
    <2>2. CASE WorkerTake(s)
      <3>1. /\ UNCHANGED stop_flag
            /\ worker_pc'[s] # "exited"
            /\ \A r \in Shards \ {s} : /\ task_queue'[r] = task_queue[r]
                                       /\ worker_pc'[r] = worker_pc[r]
        <4>1. Head(task_queue[s]) \in Tasks
          BY <1>2, <2>2, TakeFacts DEF WorkerTake, IInv, Routed, PoolTypeOK
        <4> QED
          BY <1>2, <2>2, <4>1 DEF WorkerTake, WorkerGoTo, HandlerOf, lifeVars,
                                  PoolTypeOK, Tasks, TaskTypes
      <3> QED
        BY <2>1, <3>1 DEF ExitInv
    <2>3. CASE WorkerExit(s)
      <3>1. /\ UNCHANGED <<stop_flag, task_queue>>
            /\ stop_flag[s]
            /\ Len(task_queue[s]) = 0
            /\ \A r \in Shards \ {s} : worker_pc'[r] = worker_pc[r]
        BY <1>2, <2>3, EmptySeq DEF WorkerExit, WorkerGoTo, lifeVars, PoolTypeOK
      <3> QED
        BY <2>1, <3>1 DEF ExitInv
    <2>4. CASE Step2Push(s)
      <3> DEFINE d == GetShardId(Dst(task[s].order))
      <3>1. /\ UNCHANGED stop_flag
            /\ worker_pc' = [worker_pc EXCEPT ![s] = "step2_notify"]
            /\ worker_pc[s] = "step2_push"
            /\ \/ UNCHANGED task_queue
               \/ task_queue' = [task_queue EXCEPT ![d] = Append(@, task[s])]
        BY <2>4 DEF Step2Push, Push, WorkerGoTo, WorkerAt, lifeVars
      <3>2. task[s] \in Tasks /\ task[s].task_type = "CROSS_SHARD_STEP2"
        BY <1>2, <3>1 DEF WorkerRouted, Serves
      <3> HIDE DEF d
      <3> SUFFICES ASSUME NEW r \in Shards, worker_pc'[r] = "exited"
                   PROVE  /\ stop_flag'[r]
                          /\ \A j \in 1 .. Len(task_queue'[r]) :
                               task_queue'[r][j].task_type = "CROSS_SHARD_STEP2"
        BY <2>1, <3>1 DEF ExitInv
      <3>3. r # s /\ worker_pc[r] = "exited"
        BY <1>2, <3>1 DEF PoolTypeOK
      <3>4. \/ task_queue'[r] = task_queue[r]
            \/ task_queue'[r] = Append(task_queue[r], task[s])
        BY <1>2, <3>1 DEF PoolTypeOK
      <3>5. task_queue[r] \in Seq(Tasks)
        BY <1>2 DEF PoolTypeOK
      <3>6. /\ stop_flag[r]
            /\ \A j \in 1 .. Len(task_queue[r]) :
                 task_queue[r][j].task_type = "CROSS_SHARD_STEP2"
        BY <3>3 DEF ExitInv
      <3>7. CASE task_queue'[r] = Append(task_queue[r], task[s])
        <4> DEFINE q == task_queue[r]
                   t == task[s]
        <4>1. /\ Len(q) \in Nat
              /\ Len(Append(q, t)) = Len(q) + 1
              /\ \A j \in 1 .. Len(q) : Append(q, t)[j] = q[j]
              /\ Append(q, t)[Len(q) + 1] = t
          BY <3>2, <3>5, AppendFacts
        <4> HIDE DEF q, t
        <4>2. \A j \in 1 .. Len(q) + 1 : j \in 1 .. Len(q) \/ j = Len(q) + 1
          BY <4>1
        <4> QED
          BY <3>1, <3>2, <3>6, <3>7, <4>1, <4>2 DEF q, t
      <3> QED
        BY <3>1, <3>4, <3>6, <3>7
    <2>5. CASE WorkerStep(s) /\ ~ WorkerTake(s) /\ ~ WorkerExit(s) /\ ~ Step2Push(s)
      <3>1. /\ UNCHANGED <<stop_flag, task_queue>>
            /\ worker_pc'[s] = "exited" => worker_pc[s] = "exited"
            /\ \A r \in Shards \ {s} : worker_pc'[r] = worker_pc[r]
        BY <1>2, <2>5
        DEF WorkerStep, LocalSend, LocalAck, Step1Send, Step1Found,
            Step1NotFound, Step2Notify, Step2Send, Step2Ack, Step2Cleanup, Crash,
            WorkerGoTo, HandlerReturns, lifeVars, PoolTypeOK
      <3> QED
        BY <2>1, <3>1 DEF ExitInv
    <2> QED
      BY <1>5, <2>2, <2>3, <2>4, <2>5 DEF Worker
  <1>6. CASE UNCHANGED parentVars
    BY <1>3, <1>6 DEF parentVars, poolVars, mainVars, lifeVars, Destroying, AfterStop
  <1> QED
    BY <1>4, <1>5, <1>6 DEF Next, Terminated, Account, vars

\* Once the ShardManager is gone each order was debited, or its request is on
\* its way to the source account (account_shard.cpp:66-75).
THEOREM NoneAbandoned == Spec => []DestroyedMeansRequested
  <1>1. ASSUME IInv, RequestedOnce, ExitInv PROVE DestroyedMeansRequested
    <2> SUFFICES ASSUME main_pc \in {"phase3_stop", "phase3", "phase4", "finished"},
                        NEW i \in Orders
                 PROVE  debited[i] + MessagesOf(i, Parent, Src(i)) = 1
      BY DEF DestroyedMeansRequested
    <2> DEFINE d == GetShardId(Src(i))
    <2>1. /\ d \in Shards /\ task_queue[d] \in Seq(Tasks)
          /\ QueuedRequests(i) = HowMany(task_queue[d], FirstSteps(i))
          /\ RunningRequests(i) = Cardinality(Sending(i))
          /\ MessagesOf(i, Parent, Src(i)) \in Nat
          /\ debited[i] \in Nat
      BY <1>1, RequestType
    <2>2. \A s \in Shards : worker_pc[s] = "exited"
      BY <1>1 DEF IInv, PhaseInv
    <2>3. Sending(i) = {}
      BY <2>2 DEF Sending
    <2>4. RunningRequests(i) = 0
      BY <2>1, <2>3, FS_EmptySet
    <2>5. \A j \in 1 .. Len(task_queue[d]) : task_queue[d][j] \notin FirstSteps(i)
      BY <1>1, <2>1, <2>2 DEF ExitInv, FirstSteps
    <2>6. QueuedRequests(i) = 0
      BY <2>1, <2>5, HowManyType
    <2>7. Submitted(i)
      BY DEF Submitted
    <2> QED
      BY <1>1, <2>1, <2>4, <2>6, <2>7 DEF RequestedOnce
  <1>2. Init => ExitInv
    BY ExitInductive
  <1>3. IInv /\ ExitInv /\ [Next]_vars => ExitInv'
    BY ExitInductive
  <1>4. IInv /\ RequestedOnce /\ ExitInv => DestroyedMeansRequested
    BY <1>1
  <1> QED
    BY <1>2, <1>3, <1>4, Invariance, RequestedExactlyOnce, PTL DEF Spec
-----------------------------------------------------------------------------
(***************************************************************************)
(* The answers: the channels from the accounts to the parent, and what a   *)
(* step does to them, to the credits and to the shards' statistics.        *)
(***************************************************************************)
ReadFrom(a) ==
  /\ chan[a][Parent] # << >>
  /\ \A b \in Accounts :
       chan'[b][Parent] = IF b = a THEN Tail(chan[b][Parent]) ELSE chan[b][Parent]

SentBy(a, m) ==
  \A b \in Accounts :
    chan'[b][Parent] = IF b = a THEN Append(chan[b][Parent], m) ELSE chan[b][Parent]

\* A worker reads the answer of the account it waits for.
AnswerRead(s) ==
  /\ LocalAck(s) \/ Step2Ack(s)
  /\ ReadFrom(Dst(task[s].order))
  /\ UNCHANGED credited

\* A destination credits an order and acknowledges it.
AnswerSent(a, i) ==
  /\ Dst(i) = a
  /\ SentBy(a, Msg("ACK", 0))
  /\ credited' = [credited EXCEPT ![i] = @ + 1]
  /\ UNCHANGED statVars

\* Any other step reads, sends or does nothing that concerns an answer.
NoAnswer ==
  /\ UNCHANGED <<credited, statVars>>
  /\ \/ \A b \in Accounts : chan'[b][Parent] = chan[b][Parent]
     \/ /\ Phase1WaitStartup \/ Phase3WaitDone \/ Phase4CollectHistory
        /\ cursor \in Accounts /\ ReadFrom(cursor)
     \/ \E a \in Accounts, m \in Message :
          /\ SentBy(a, m)
          /\ \/ m.type = "STARTED"
             \/ m.type \in {"DONE", "BALANCE_HISTORY"} /\ Stopped(a)'

LEMMA AnswerAccount ==
  ASSUME IInv, KindInv, NEW a \in Accounts, Account(a)
  PROVE  NoAnswer \/ \E i \in Orders : AnswerSent(a, i)
  <1>1. /\ chan \in Channels
        /\ a \in Procs /\ a # Parent /\ Parent \in Procs
        /\ \A b \in Accounts : b \in Procs /\ b # Parent
        /\ UNCHANGED statVars
    BY ProcFacts DEF IInv, TypeOK, Account, parentVars, poolVars, statVars
  <1>2. ASSUME UNCHANGED credited,
               \A b \in Accounts : chan'[b][Parent] = chan[b][Parent]
        PROVE  NoAnswer
    BY <1>1, <1>2 DEF NoAnswer
  <1>3. ASSUME UNCHANGED credited, NEW m \in Message, SentBy(a, m),
               m.type \in {"DONE", "BALANCE_HISTORY"}, Stopped(a)'
        PROVE  NoAnswer
    BY <1>1, <1>3 DEF NoAnswer
  <1>4. CASE SendStarted(a)
    <2>1. SentBy(a, Msg("STARTED", 0)) /\ UNCHANGED credited
      BY <1>1, <1>4, StartupChannels DEF SentBy, SendStarted
    <2> DEFINE m == Msg("STARTED", 0)
    <2>2. m \in Message /\ m.type = "STARTED"
      BY MessageFacts DEF Msg
    <2>3. SentBy(a, m)
      BY <2>1
    <2> HIDE DEF m
    <2> QED
      BY <1>1, <2>1, <2>2, <2>3 DEF NoAnswer
  <1>5. CASE WaitStarted(a)
    <2>1. ~ SendStarted(a) /\ UNCHANGED credited
      BY <1>5 DEF SendStarted, WaitStarted
    <2>2. \A b \in Accounts : chan'[b][Parent] = chan[b][Parent]
      BY <1>1, <1>5, <2>1, StartupChannels
    <2> QED
      BY <1>2, <2>1, <2>2
  <1>6. CASE SendHistory(a)
    <2>1. SentBy(a, Msg("BALANCE_HISTORY", balance[a])) /\ UNCHANGED credited
      BY <1>1, <1>6, HistoryChannels DEF SentBy, SendHistory
    <2>2. Stopped(a)'
      BY <1>6, HistoryChannels DEF Stopped
    <2>3. /\ Msg("BALANCE_HISTORY", balance[a]) \in Message
          /\ Msg("BALANCE_HISTORY", balance[a]).type = "BALANCE_HISTORY"
      <3>1. balance[a] \in Int
        BY DEF IInv, TypeOK, ChildTypeOK
      <3> QED
        BY <3>1, MessageFacts DEF Msg, Message
    <2> QED
      BY <1>3, <2>1, <2>2, <2>3
  <1>7. ASSUME NEW p \in Procs \ {a}, LoopStep(a, p)
        PROVE  NoAnswer \/ \E i \in Orders : AnswerSent(a, i)
    <2> DEFINE r == Receive(chan, p, a)
               i == Oldest(p, a).val
    <2>1. HasMessage(p, a)
      BY <1>7, LoopChannels DEF HasMessage
    <2>2. r \in Channels
      BY <1>1, <2>1, ReceiveType
    <2>3. \A b \in Accounts : r[b][Parent] = chan[b][Parent]
      BY <1>1, ReceiveAt
    <2> HIDE DEF r
    <2>4. CASE HandleTransferAsSource(a, p)
      <3>1. /\ i \in Orders
            /\ chan' = Send(r, a, Dst(i), Msg("TRANSFER", i))
            /\ UNCHANGED credited
        BY <2>4, SourceTurn DEF HandleTransferAsSource, r
      <3>2. Dst(i) \in Procs /\ Dst(i) # Parent
        BY <1>1, <3>1, OrderFacts
      <3> HIDE DEF i
      <3>3. \A b \in Accounts : chan'[b][Parent] = r[b][Parent]
        BY <1>1, <2>2, <3>1, <3>2, SendAt
      <3> QED
        BY <1>2, <2>3, <3>1, <3>3
    <2>5. CASE HandleTransferAsDestination(a, p)
      <3>1. /\ i \in Orders /\ Dst(i) = a
            /\ chan' = Send(r, a, Parent, Msg("ACK", 0))
            /\ credited' = [credited EXCEPT ![i] = @ + 1]
        BY <2>5, DestinationTurn DEF HandleTransferAsDestination, r
      <3> HIDE DEF i
      <3>2. \A b \in Accounts :
              chan'[b][Parent] = IF b = a THEN Append(r[a][Parent], Msg("ACK", 0))
                                          ELSE r[b][Parent]
        BY <1>1, <2>2, <3>1, SendAt
      <3>3. SentBy(a, Msg("ACK", 0))
        BY <2>3, <3>2 DEF SentBy
      <3> QED
        BY <1>1, <3>1, <3>3 DEF AnswerSent
    <2>6. CASE HandleStop(a, p)
      <3>1. /\ chan' = SendMulticast(r, a, Msg("DONE", 0))
            /\ UNCHANGED credited
        BY <2>6 DEF HandleStop, r
      <3>2. \A b \in Accounts :
              chan'[b][Parent] = IF b = a THEN Append(r[b][Parent], Msg("DONE", 0))
                                          ELSE r[b][Parent]
        BY <1>1, <2>2, <3>1, MulticastAt
      <3>3. SentBy(a, Msg("DONE", 0))
        BY <2>3, <3>2 DEF SentBy
      <3>4. Stopped(a)'
        BY <1>7, <2>6, LoopPc DEF Stopped
      <3>5. Msg("DONE", 0) \in Message /\ Msg("DONE", 0).type = "DONE"
        BY MessageFacts DEF Msg
      <3> QED
        BY <1>3, <3>1, <3>3, <3>4, <3>5
    <2>7. CASE HandleOther(a, p) \/ WaitAllDone(a, p)
      <3>1. chan' = r /\ UNCHANGED credited
        BY <2>7 DEF HandleOther, WaitAllDone, r
      <3> QED
        BY <1>2, <2>3, <3>1
    <2> QED
      BY <1>7, <2>4, <2>5, <2>6, <2>7 DEF LoopStep
  <1> QED
    BY <1>4, <1>5, <1>6, <1>7, AccountSteps

LEMMA AnswerWorker ==
  ASSUME IInv, NEW s \in Shards, Worker(s)
  PROVE  NoAnswer \/ AnswerRead(s)
  <1>1. /\ chan \in Channels /\ Parent \in Procs
        /\ \A b \in Accounts : b \in Procs /\ b # Parent
        /\ UNCHANGED credited
    BY ProcFacts DEF IInv, TypeOK, Worker, childVars
  <1>2. CASE UNCHANGED <<chan, statVars>>
    BY <1>1, <1>2 DEF NoAnswer
  <1>3. CASE LocalSend(s) \/ Step1Send(s) \/ Step2Send(s)
    <2> DEFINE i == task[s].order
    <2>1. worker_pc[s] \in SourcePcs \cup AckPcs /\ UNCHANGED statVars
      BY <1>3 DEF LocalSend, Step1Send, Step2Send, WorkerAt, SourcePcs, AckPcs
    <2>2. i \in Orders
      BY <2>1, TaskFacts DEF IInv, Routed, WorkerRouted, SourcePcs, AckPcs
    <2>3. Src(i) \in Procs /\ Dst(i) \in Procs
      BY <1>1, <2>2, OrderFacts
    <2>4. \E q \in Procs : chan' = Send(chan, Parent, q, Msg("TRANSFER", i))
      BY <1>3, <2>3 DEF LocalSend, Step1Send, Step2Send, SendOrder
    <2> HIDE DEF i
    <2>5. \A b \in Accounts : chan'[b][Parent] = chan[b][Parent]
      BY <1>1, <2>4, SendAt
    <2> QED
      BY <1>1, <2>1, <2>5 DEF NoAnswer
  <1>4. CASE LocalAck(s) \/ Step2Ack(s)
    <2> DEFINE d == Dst(task[s].order)
    <2>1. /\ worker_pc[s] \in AckPcs
          /\ chan[d][Parent] # << >>
          /\ chan' = Receive(chan, d, Parent)
      BY <1>4 DEF LocalAck, Step2Ack, WorkerAt, AckPcs, HasMessage
    <2>2. d \in Accounts
      BY <2>1, TaskFacts, OrderFacts DEF IInv, Routed, WorkerRouted, AckPcs
    <2>3. ReadFrom(d)
      <3> HIDE DEF d
      <3> QED
        BY <1>1, <2>1, <2>2, ReceiveAt DEF ReadFrom
    <2> QED
      BY <1>1, <1>4, <2>3 DEF AnswerRead
  <1> QED
    BY <1>2, <1>3, <1>4
    DEF Worker, WorkerStep, WorkerTake, WorkerExit, Step1Found, Step1NotFound,
        Step2Push, Step2Notify, Step2Cleanup, Crash

LEMMA AnswerMain ==
  ASSUME IInv, MainStep, UNCHANGED childVars
  PROVE  NoAnswer
  <1>1. /\ chan \in Channels /\ Parent \in Procs
        /\ \A b \in Accounts : b \in Procs /\ b # Parent
        /\ UNCHANGED <<credited, statVars>>
    BY ProcFacts
    DEF IInv, TypeOK, childVars, MainStep, Phase1WaitStartup, Phase2Submit,
        SubmitTransfer, WaitAllComplete, DestroyContexts, StopShard, JoinShard,
        Phase3Stop, Phase3WaitDone, Phase4CollectHistory, poolVars, statVars
  <1>2. CASE Phase1WaitStartup \/ Phase3WaitDone \/ Phase4CollectHistory
    <2>1. ReadFrom(cursor) /\ cursor \in Accounts
      BY <1>1, <1>2, MainReceive, ReceiveAt DEF ReadFrom
    <2> QED
      BY <1>1, <1>2, <2>1 DEF NoAnswer
  <1>3. CASE Phase3Stop
    <2>1. \A b \in Accounts : chan'[b][Parent] = chan[b][Parent]
      BY <1>1, <1>3, MulticastAt DEF Phase3Stop
    <2> QED
      BY <1>1, <2>1 DEF NoAnswer
  <1>4. CASE UNCHANGED chan
    BY <1>1, <1>4 DEF NoAnswer
  <1> QED
    BY <1>2, <1>3, <1>4
    DEF MainStep, Phase2Submit, SubmitTransfer, WaitAllComplete,
        DestroyContexts, StopShard, JoinShard

\* Every step of the system.
LEMMA AnswerSteps ==
  ASSUME IInv, KindInv, [Next]_vars
  PROVE  \/ NoAnswer
         \/ \E s \in Shards : Worker(s) /\ AnswerRead(s)
         \/ \E a \in Accounts, i \in Orders : Account(a) /\ AnswerSent(a, i)
  <1>1. CASE UNCHANGED vars
    BY <1>1 DEF vars, childVars, parentVars, poolVars, NoAnswer
  <1> QED
    BY <1>1, AnswerAccount, AnswerWorker, AnswerMain DEF Next, Main, Terminated

-----------------------------------------------------------------------------
(***************************************************************************)
(* Between phase 1 and phase 3 an account sends the parent nothing but     *)
(* ACKs, so that no worker takes another message for its answer.           *)
(***************************************************************************)
\* An account says DONE and reports its history after STOP.
QuietChannel(c, stopped) ==
  ~ stopped => \A j \in 1 .. Len(c) : c[j].type \notin {"DONE", "BALANCE_HISTORY"}

QuietInv == \A a \in Accounts : QuietChannel(chan[a][Parent], Stopped(a))

LEMMA StoppedForEver ==
  ASSUME IInv, [Next]_vars, NEW a \in Accounts, Stopped(a)
  PROVE  Stopped(a)'
  <1>1. CASE UNCHANGED childVars
    BY <1>1 DEF childVars, Stopped
  <1>2. ASSUME NEW b \in Accounts, Account(b)
        PROVE  Stopped(a)'
    <2>1. CASE b # a
      BY <1>2, <2>1, AccountAlone DEF Stopped
    <2>2. CASE SendStarted(a) \/ WaitStarted(a)
      BY <2>2 DEF SendStarted, WaitStarted, Stopped
    <2>3. ASSUME NEW p \in Procs \ {a}, LoopStep(a, p)
          PROVE  Stopped(a)'
      BY <2>3, LoopPc DEF Stopped
    <2>4. CASE SendHistory(a)
      BY <2>4, HistoryChannels DEF Stopped
    <2> QED
      BY <1>2, <2>1, <2>2, <2>3, <2>4, AccountSteps
  <1> QED
    BY <1>1, <1>2 DEF Next, Main, Worker, Terminated, vars

LEMMA QuietInductive ==
  /\ Init => QuietInv
  /\ IInv /\ KindInv /\ QuietInv /\ [Next]_vars => QuietInv'
  <1>0. Parent \in Procs /\ \A a \in Accounts : a \in Procs
    BY ProcFacts
  <1>1. Init => QuietInv
    <2>1. Len(<< >>) = 0
      BY EmptySeq
    <2> QED
      BY <1>0, <2>1 DEF Init, NetworkInit, QuietInv, QuietChannel
  <1> SUFFICES ASSUME IInv, KindInv, QuietInv, [Next]_vars,
                      NEW a \in Accounts, ~ Stopped(a)'
               PROVE  \A j \in 1 .. Len(chan'[a][Parent]) :
                        chan'[a][Parent][j].type \notin {"DONE", "BALANCE_HISTORY"}
    BY <1>1 DEF QuietInv, QuietChannel
  <1> DEFINE c == chan[a][Parent]
             Told == {"DONE", "BALANCE_HISTORY"}
  <1>2. ~ Stopped(a) /\ c \in Seq(Message)
    BY <1>0, StoppedForEver, ChannelType DEF IInv, TypeOK
  <1>3. \A j \in 1 .. Len(c) : c[j].type \notin Told
    BY <1>2 DEF QuietInv, QuietChannel
  <1> HIDE DEF c, Told
  <1>4. CASE chan'[a][Parent] = c
    BY <1>3, <1>4 DEF Told
  <1>5. CASE c # << >> /\ chan'[a][Parent] = Tail(c)
    BY <1>2, <1>3, <1>5, TakeHeadFacts DEF Told
  <1>6. ASSUME NEW m \in Message, m.type \notin Told,
               chan'[a][Parent] = Append(c, m)
        PROVE  \A j \in 1 .. Len(chan'[a][Parent]) :
                 chan'[a][Parent][j].type \notin {"DONE", "BALANCE_HISTORY"}
    BY <1>2, <1>3, <1>6, AppendFacts DEF Told
  <1>7. ASSUME NEW b \in Accounts, NEW m \in Message, SentBy(b, m),
               b = a => m.type \notin Told
        PROVE  \A j \in 1 .. Len(chan'[a][Parent]) :
                 chan'[a][Parent][j].type \notin {"DONE", "BALANCE_HISTORY"}
    <2>1. CASE b = a
      BY <1>6, <1>7, <2>1 DEF SentBy, c
    <2>2. CASE b # a
      BY <1>4, <1>7, <2>2 DEF SentBy, c
    <2> QED
      BY <2>1, <2>2
  <1>8. ASSUME NEW b \in Accounts, ReadFrom(b)
        PROVE  \A j \in 1 .. Len(chan'[a][Parent]) :
                 chan'[a][Parent][j].type \notin {"DONE", "BALANCE_HISTORY"}
    BY <1>4, <1>5, <1>8 DEF ReadFrom, c
  <1>9. CASE NoAnswer
    <2>1. CASE \A b \in Accounts : chan'[b][Parent] = chan[b][Parent]
      BY <1>4, <2>1 DEF c
    <2>2. CASE cursor \in Accounts /\ ReadFrom(cursor)
      BY <1>8, <2>2
    <2>3. ASSUME NEW b \in Accounts, NEW m \in Message, SentBy(b, m),
                 \/ m.type = "STARTED"
                 \/ m.type \in {"DONE", "BALANCE_HISTORY"} /\ Stopped(b)'
          PROVE  b = a => m.type \notin Told
      BY <2>3 DEF Told
    <2> QED
      BY <1>7, <1>9, <2>1, <2>2, <2>3 DEF NoAnswer
  <1>10. ASSUME NEW s \in Shards, Worker(s), AnswerRead(s)
         PROVE  \A j \in 1 .. Len(chan'[a][Parent]) :
                  chan'[a][Parent][j].type \notin {"DONE", "BALANCE_HISTORY"}
    <2>1. \/ chan'[a][Parent] = c
          \/ c # << >> /\ chan'[a][Parent] = Tail(c)
      BY <1>10 DEF AnswerRead, ReadFrom, c
    <2> QED
      BY <1>4, <1>5, <2>1
  <1>11. ASSUME NEW b \in Accounts, NEW i \in Orders, AnswerSent(b, i)
         PROVE  \A j \in 1 .. Len(chan'[a][Parent]) :
                  chan'[a][Parent][j].type \notin {"DONE", "BALANCE_HISTORY"}
    <2> DEFINE m == Msg("ACK", 0)
    <2>1. m \in Message /\ m.type \notin Told
      BY MessageFacts DEF Msg, Told
    <2>2. SentBy(b, m)
      BY <1>11 DEF AnswerSent
    <2> HIDE DEF m
    <2> QED
      BY <1>7, <2>1, <2>2
  <1> QED
    BY <1>9, <1>10, <1>11, AnswerSteps

LEMMA QuietInvariance == Spec => []QuietInv
  <1>1. IInv /\ ChannelInv /\ QuietInv /\ [Next]_vars => QuietInv'
    BY QuietInductive DEF ChannelInv
  <1> QED
    BY <1>1, QuietInductive, Invariance, ChannelInvariance, PTL DEF Spec

LEMMA AnswersOnly ==
  ASSUME IInv, ChannelInv, QuietInv, Serving, NEW a \in Accounts
  PROVE  \A j \in 1 .. Len(chan[a][Parent]) : chan[a][Parent][j] = Msg("ACK", 0)
  <1> DEFINE c == chan[a][Parent]
  <1>1. Parent \in Procs /\ a \in Procs /\ a # Parent
    BY ProcFacts
  <1>2. c \in Seq(Carries(a, Parent))
    BY <1>1 DEF ChannelInv, KindInv, Kinds
  <1>3. ~ Stopped(a)
    BY DEF ChannelInv, StopInv, StopChannel, Serving
  <1>4. \A j \in 1 .. Len(c) : c[j].type \notin {"DONE", "BALANCE_HISTORY"}
    BY <1>3 DEF QuietInv, QuietChannel
  <1>5. \A j \in 1 .. Len(c) : c[j].type # "STARTED"
    <2>1. ~ Unread(a, Parent)
      BY DEF Unread, Serving
    <2>2. StartedChannel(c, Unread(a, Parent), Begun(a))
      BY <1>1 DEF ChannelInv, StartInv
    <2> QED
      BY <2>1, <2>2 DEF StartedChannel
  <1> SUFFICES ASSUME NEW j \in 1 .. Len(c) PROVE c[j] = Msg("ACK", 0)
    OBVIOUS
  <1>6. c[j] \in Carries(a, Parent)
    BY <1>2, ElementOfSeq
  <1>7. /\ c[j] \in Message
        /\ c[j].type # "STOP"
        /\ c[j].type = "TRANSFER" => c[j].val \in Orders /\ Parent = Dst(c[j].val)
    BY <1>1, <1>6, MessageFacts DEF Carries
  <1>8. c[j].type # "TRANSFER"
    BY <1>7, OrderFacts, ProcFacts
  <1>9. c[j].type \in MessageTypes
    BY <1>7 DEF Message, MessageTypes
  <1> QED
    BY <1>4, <1>5, <1>7, <1>8, <1>9, PlainFacts DEF MessageTypes

\* What the worker of shard s reads for the order it executes.
LEMMA AnswerFacts ==
  ASSUME IInv, ChannelInv, QuietInv, NEW s \in Shards, AnswerRead(s)
  PROVE  LET i == task[s].order IN
         /\ i \in Orders
         /\ GetShardId(Dst(i)) = s
         /\ Serving
         /\ Oldest(Dst(i), Parent) = Msg("ACK", 0)
         /\ Head(chan[Dst(i)][Parent]) = Msg("ACK", 0)
         /\ Oldest(Dst(i), Parent).type = "ACK"
  <1> DEFINE i == task[s].order
             d == Dst(i)
  <1>1. worker_pc[s] \in AckPcs /\ worker_pc[s] \notin {"wait", "exited"}
    BY DEF AnswerRead, LocalAck, Step2Ack, WorkerAt, AckPcs
  <1>2. /\ task[s] \in Tasks /\ Serving /\ GetShardId(d) = s
    BY <1>1 DEF IInv, Routed, WorkerRouted, Serves, PhaseInv, Serving, AfterStop,
                AckPcs
  <1>3. i \in Orders /\ d \in Accounts
    BY <1>2, TaskFacts, OrderFacts
  <1>4. chan[d][Parent] \in Seq(Message) /\ chan[d][Parent] # << >>
    <2>1. d \in Procs /\ Parent \in Procs
      BY <1>3, ProcFacts
    <2> QED
      BY <1>3, <2>1, ChannelType DEF IInv, TypeOK, AnswerRead, ReadFrom
  <1>5. \A j \in 1 .. Len(chan[d][Parent]) : chan[d][Parent][j] = Msg("ACK", 0)
    BY <1>2, <1>3, AnswersOnly
  <1>6. Head(chan[d][Parent]) = Msg("ACK", 0)
    <2> DEFINE c == chan[d][Parent]
    <2>1. c \in Seq(Message) /\ c # << >> /\ \A j \in 1 .. Len(c) : c[j] = Msg("ACK", 0)
      BY <1>4, <1>5
    <2> HIDE DEF c
    <2>2. 1 \in 1 .. Len(c) /\ Head(c) = c[1]
      BY <2>1, TakeHeadFacts
    <2>3. Head(c) = Msg("ACK", 0)
      BY <2>1, <2>2
    <2> QED
      BY <2>3 DEF c
  <1>7. Oldest(d, Parent) = Msg("ACK", 0) /\ Msg("ACK", 0).type = "ACK"
    BY <1>6 DEF Oldest, Msg
  <1> QED
    BY <1>2, <1>3, <1>6, <1>7

\* What a worker takes for its answer is an ACK, never a STARTED, a DONE or a
\* history (account_shard.cpp:110-127, :172-189).
THEOREM EveryAnswerIsAnAck == Spec => []NoInvalidAck
  <1>1. Init => NoInvalidAck
    BY DEF Init, PoolInit, NoInvalidAck
  <1>2. IInv /\ ChannelInv /\ QuietInv /\ NoInvalidAck /\ [Next]_vars => NoInvalidAck'
    <2> SUFFICES ASSUME IInv, ChannelInv, QuietInv, NoInvalidAck, [Next]_vars
                 PROVE  UNCHANGED failed_transfers
      BY DEF NoInvalidAck
    <2>1. ASSUME NEW s \in Shards, AnswerRead(s)
          PROVE  UNCHANGED failed_transfers
      <3>1. Oldest(Dst(task[s].order), Parent).type = "ACK"
        BY <2>1, AnswerFacts
      <3> QED
        BY <2>1, <3>1 DEF AnswerRead, LocalAck, Step2Ack
    <2> QED
      BY <2>1, AnswerSteps DEF NoAnswer, AnswerSent, statVars, ChannelInv
  <1> QED
    BY <1>1, <1>2, Invariance, ChannelInvariance, QuietInvariance, PTL DEF Spec

-----------------------------------------------------------------------------
(***************************************************************************)
(* The books of the answers: what the workers of a shard have counted and  *)
(* have still to read is what the accounts of the shard have credited.     *)
(***************************************************************************)
LEMMA FiniteData == IsFiniteSet(Accounts) /\ IsFiniteSet(Orders)
  <1>1. Len(Workload) \in Nat
    BY WorkloadAssumption, LenProperties
  <1>2. N \in Nat
    BY NAssumption
  <1>3. IsFiniteSet(1 .. N) /\ IsFiniteSet(1 .. Len(Workload))
    BY <1>1, <1>2, FS_Interval
  <1> QED
    BY <1>3 DEF Accounts, Orders

AccountsOf(s) == {a \in Accounts : GetShardId(a) = s}
OrdersTo(s) == {i \in Orders : GetShardId(Dst(i)) = s}

Ack == Msg("ACK", 0)
AcksOf(c, a) == HowMany(c[a][Parent], {Ack})
AcksIn(c, s) == [a \in AccountsOf(s) |-> AcksOf(c, a)]
AckSum(c, s) == SumOf(AcksIn(c, s), AccountsOf(s))
CreditsIn(n, s) == [i \in OrdersTo(s) |-> n[i]]
CreditSum(n, s) == SumOf(CreditsIn(n, s), OrdersTo(s))

\* Successes l and x counted, channels c, credits n.
AnswersAdd(l, x, c, n, s) == l + x + AckSum(c, s) = CreditSum(n, s)

CountedInv ==
  ~ AfterStop =>
    \A s \in Shards :
      AnswersAdd(local_transfers[s], cross_shard_transfers[s], chan, credited, s)

LEMMA FiniteShard ==
  ASSUME NEW s
  PROVE  IsFiniteSet(AccountsOf(s)) /\ IsFiniteSet(OrdersTo(s))
  <1>1. AccountsOf(s) \in SUBSET Accounts /\ OrdersTo(s) \in SUBSET Orders
    BY DEF AccountsOf, OrdersTo
  <1> QED
    BY <1>1, FiniteData, FS_Subset

LEMMA AcksType ==
  ASSUME NEW c \in Channels, NEW s
  PROVE  /\ \A a \in Accounts : AcksOf(c, a) \in Nat
         /\ AcksIn(c, s) \in [AccountsOf(s) -> Int]
         /\ \A a \in AccountsOf(s) : AcksIn(c, s)[a] = AcksOf(c, a)
         /\ AckSum(c, s) \in Int
  <1>1. ASSUME NEW a \in Accounts
        PROVE  AcksOf(c, a) \in Nat
    <2>1. c[a][Parent] \in Seq(Message)
      BY ChannelType, ProcFacts
    <2> QED
      BY <2>1, HowManyType DEF AcksOf
  <1>2. AcksIn(c, s) \in [AccountsOf(s) -> Int]
    BY <1>1 DEF AcksIn, AccountsOf
  <1>3. AckSum(c, s) \in Int
    BY <1>2, FiniteShard, SumOfType DEF AckSum
  <1> QED
    BY <1>1, <1>2, <1>3 DEF AcksIn

LEMMA CreditsType ==
  ASSUME NEW n \in [Orders -> Nat], NEW s
  PROVE  /\ CreditsIn(n, s) \in [OrdersTo(s) -> Int]
         /\ \A i \in OrdersTo(s) : CreditsIn(n, s)[i] = n[i]
         /\ CreditSum(n, s) \in Int
  <1>1. CreditsIn(n, s) \in [OrdersTo(s) -> Int]
    BY DEF CreditsIn, OrdersTo
  <1>2. CreditSum(n, s) \in Int
    BY <1>1, FiniteShard, SumOfType DEF CreditSum
  <1> QED
    BY <1>1, <1>2 DEF CreditsIn

\* The ACKs of one account that are to be read become one more.
LEMMA AcksChange ==
  ASSUME NEW c \in Channels, NEW d \in Channels, NEW a \in Accounts,
         AcksOf(d, a) = AcksOf(c, a) + 1,
         \A b \in Accounts : b # a => AcksOf(d, b) = AcksOf(c, b),
         NEW s
  PROVE  /\ GetShardId(a) = s => AckSum(d, s) = AckSum(c, s) + 1
         /\ GetShardId(a) # s => AckSum(d, s) = AckSum(c, s)
  <1> DEFINE f == AcksIn(c, s)
             h == AcksIn(d, s)
             S == AccountsOf(s)
  <1>1. /\ f \in [S -> Int] /\ h \in [S -> Int]
        /\ \A b \in S : f[b] = AcksOf(c, b) /\ h[b] = AcksOf(d, b)
        /\ SumOf(f, S) \in Int
    BY AcksType DEF AckSum
  <1>2. \A b \in S : b # a => h[b] = f[b]
    BY <1>1 DEF AccountsOf
  <1>3. IsFiniteSet(S)
    BY FiniteShard
  <1>4. ASSUME GetShardId(a) = s
        PROVE  SumOf(h, S) = SumOf(f, S) + 1
    <2>1. a \in S
      BY <1>4 DEF AccountsOf
    <2>2. h[a] = f[a] + 1 /\ f[a] \in Int
      BY <1>1, <2>1
    <2> HIDE DEF f, h, S
    <2>3. SumOf(h, S) = SumOf(f, S) - f[a] + h[a]
      BY <1>1, <1>2, <1>3, <2>1, SumOfChange
    <2> QED
      BY <1>1, <2>2, <2>3
  <1>5. ASSUME GetShardId(a) # s
        PROVE  SumOf(h, S) = SumOf(f, S)
    <2>1. a \notin S
      BY <1>5 DEF AccountsOf
    <2> HIDE DEF f, h, S
    <2> QED
      BY <1>1, <1>2, <1>3, <2>1, SumOfSame
  <1> QED
    BY <1>4, <1>5 DEF AckSum

LEMMA AcksSame ==
  ASSUME NEW c \in Channels, NEW d \in Channels,
         \A a \in Accounts : AcksOf(d, a) = AcksOf(c, a),
         NEW s
  PROVE  AckSum(d, s) = AckSum(c, s)
  <1>1. AcksIn(d, s) = AcksIn(c, s)
    BY DEF AcksIn, AccountsOf
  <1> QED
    BY <1>1 DEF AckSum

\* An order is credited once more.
LEMMA CreditsChange ==
  ASSUME NEW n \in [Orders -> Nat], NEW i \in Orders, NEW s
  PROVE  LET m == [n EXCEPT ![i] = @ + 1] IN
         /\ GetShardId(Dst(i)) = s => CreditSum(m, s) = CreditSum(n, s) + 1
         /\ GetShardId(Dst(i)) # s => CreditSum(m, s) = CreditSum(n, s)
  <1> DEFINE m == [n EXCEPT ![i] = @ + 1]
             f == CreditsIn(n, s)
             h == CreditsIn(m, s)
             S == OrdersTo(s)
  <1>1. /\ m \in [Orders -> Nat] /\ m[i] = n[i] + 1 /\ n[i] \in Nat
        /\ \A j \in Orders : j # i => m[j] = n[j]
    OBVIOUS
  <1> HIDE DEF m
  <1>2. /\ f \in [S -> Int] /\ h \in [S -> Int]
        /\ \A j \in S : f[j] = n[j] /\ h[j] = m[j]
        /\ SumOf(f, S) \in Int
    BY <1>1, CreditsType DEF CreditSum
  <1>3. \A j \in S : j # i => h[j] = f[j]
    BY <1>1, <1>2 DEF OrdersTo
  <1>4. IsFiniteSet(S)
    BY FiniteShard
  <1>5. i \in S <=> GetShardId(Dst(i)) = s
    BY DEF OrdersTo
  <1> HIDE DEF f, h, S
  <1>6. ASSUME GetShardId(Dst(i)) = s
        PROVE  SumOf(h, S) = SumOf(f, S) + 1
    <2>1. i \in S /\ h[i] = f[i] + 1 /\ f[i] \in Int
      BY <1>1, <1>2, <1>5, <1>6
    <2>2. SumOf(h, S) = SumOf(f, S) - f[i] + h[i]
      BY <1>2, <1>3, <1>4, <2>1, SumOfChange
    <2> QED
      BY <1>2, <2>1, <2>2
  <1>7. ASSUME GetShardId(Dst(i)) # s
        PROVE  SumOf(h, S) = SumOf(f, S)
    BY <1>2, <1>3, <1>4, <1>5, <1>7, SumOfSame
  <1> QED
    BY <1>6, <1>7 DEF CreditSum, f, h, S, m

LEMMA AfterStopForEver ==
  ASSUME IInv, [Next]_vars, AfterStop
  PROVE  AfterStop'
  <1>1. CASE UNCHANGED mainVars
    BY <1>1 DEF mainVars, AfterStop
  <1>2. CASE MainStep
    BY <1>2
    DEF MainStep, Phase1WaitStartup, Phase2Submit, WaitAllComplete,
        DestroyContexts, StopShard, JoinShard, Phase3Stop, Phase3WaitDone,
        Phase4CollectHistory, MainAt, Iterate, AfterStop
  <1> QED
    BY <1>1, <1>2 DEF Next, Main, Worker, Account, Terminated, vars, parentVars

\* The message that phase 1 takes from an account is its STARTED.
LEMMA StartupAnswer ==
  ASSUME IInv, ChannelInv, Phase1WaitStartup
  PROVE  Head(chan[cursor][Parent]) # Ack
  <1> DEFINE c == chan[cursor][Parent]
  <1>1. cursor \in Accounts /\ c # << >> /\ main_pc = "phase1"
    BY MainReceive DEF Phase1WaitStartup, MainAt
  <1>2. Parent \in Procs /\ cursor \in Procs /\ cursor # Parent /\ cursor <= cursor
    BY <1>1, ProcFacts DEF Accounts
  <1>3. StartedChannel(c, Unread(cursor, Parent), Begun(cursor))
    BY <1>1, <1>2 DEF ChannelInv, StartInv
  <1>4. Unread(cursor, Parent)
    BY <1>1, <1>2 DEF Unread
  <1>5. c \in Seq(Message)
    BY <1>2, ChannelType DEF IInv, TypeOK
  <1> HIDE DEF c
  <1>6. c[1] = Head(c) /\ 1 \in 1 .. Len(c)
    BY <1>1, <1>5, TakeHeadFacts
  <1>7. c[1].type = "STARTED"
    BY <1>3, <1>4, <1>6 DEF StartedChannel
  <1> QED
    BY <1>6, <1>7 DEF Ack, Msg, c

LEMMA AnswersInductive ==
  IInv /\ ChannelInv /\ QuietInv /\ CountedInv /\ [Next]_vars => CountedInv'
  <1> SUFFICES ASSUME IInv, ChannelInv, QuietInv, CountedInv, [Next]_vars,
                      ~ AfterStop', NEW s \in Shards
               PROVE  AnswersAdd(local_transfers'[s], cross_shard_transfers'[s],
                                 chan', credited', s)
    BY DEF CountedInv
  <1> DEFINE l == local_transfers[s]
             x == cross_shard_transfers[s]
             U == AckSum(chan, s)
             C == CreditSum(credited, s)
             Goal == AnswersAdd(local_transfers'[s], cross_shard_transfers'[s],
                                chan', credited', s)
  <1>1. ~ AfterStop /\ IInv'
    BY AfterStopForEver, Inductive
  <1>2. /\ chan \in Channels /\ chan' \in Channels
        /\ credited \in [Orders -> Nat]
        /\ local_transfers \in [Shards -> Nat]
        /\ cross_shard_transfers \in [Shards -> Nat]
        /\ \A a \in Accounts : chan[a][Parent] \in Seq(Message)
    <2>1. chan \in Channels /\ chan' \in Channels
      BY <1>1 DEF IInv, TypeOK
    <2> QED
      BY <2>1, ProcFacts, ChannelType DEF IInv, TypeOK, ChildTypeOK, PoolTypeOK
  <1>3. /\ l + x + U = C
        /\ l \in Nat /\ x \in Nat /\ U \in Int /\ C \in Int
        /\ \A a \in Accounts : AcksOf(chan, a) \in Nat
    BY <1>1, <1>2, AcksType, CreditsType DEF CountedInv, AnswersAdd
  <1> HIDE DEF l, x, U, C
  <1>4. ASSUME AckSum(chan', s) = U, CreditSum(credited', s) = C,
               UNCHANGED <<local_transfers, cross_shard_transfers>>
        PROVE  Goal
    BY <1>3, <1>4 DEF AnswersAdd, l, x
  <1>5. CASE NoAnswer
    <2>1. /\ CreditSum(credited', s) = C
          /\ UNCHANGED <<local_transfers, cross_shard_transfers>>
      BY <1>5 DEF NoAnswer, statVars, C
    <2>2. AckSum(chan', s) = U
      <3> SUFFICES \A a \in Accounts : AcksOf(chan', a) = AcksOf(chan, a)
        BY <1>2, AcksSame DEF U
      <3>1. CASE \A b \in Accounts : chan'[b][Parent] = chan[b][Parent]
        BY <3>1 DEF AcksOf
      <3>2. CASE /\ Phase1WaitStartup \/ Phase3WaitDone \/ Phase4CollectHistory
                 /\ cursor \in Accounts /\ ReadFrom(cursor)
        <4>1. Phase1WaitStartup
          BY <1>1, <3>2 DEF Phase3WaitDone, Phase4CollectHistory, MainAt, AfterStop
        <4>2. Head(chan[cursor][Parent]) \notin {Ack}
          BY <4>1, StartupAnswer
        <4>3. AcksOf(chan', cursor) = AcksOf(chan, cursor) - 0
          BY <1>2, <3>2, <4>2, HowManyTail DEF ReadFrom, AcksOf
        <4>4. \A b \in Accounts : b # cursor => AcksOf(chan', b) = AcksOf(chan, b)
          BY <3>2 DEF ReadFrom, AcksOf
        <4> QED
          BY <1>3, <3>2, <4>3, <4>4
      <3>3. CASE \E a \in Accounts, m \in Message :
                   /\ SentBy(a, m)
                   /\ \/ m.type = "STARTED"
                      \/ m.type \in {"DONE", "BALANCE_HISTORY"} /\ Stopped(a)'
        <4>1. PICK a \in Accounts, m \in Message :
                     /\ SentBy(a, m)
                     /\ m.type \in {"STARTED", "DONE", "BALANCE_HISTORY"}
          BY <3>3
        <4>2. m \notin {Ack}
          BY <4>1 DEF Ack, Msg
        <4>3. AcksOf(chan', a) = AcksOf(chan, a) + 0
          BY <1>2, <4>1, <4>2, HowManyAppend DEF SentBy, AcksOf
        <4>4. \A b \in Accounts : b # a => AcksOf(chan', b) = AcksOf(chan, b)
          BY <4>1 DEF SentBy, AcksOf
        <4> QED
          BY <1>3, <4>3, <4>4
      <3> QED
        BY <1>5, <3>1, <3>2, <3>3 DEF NoAnswer
    <2> QED
      BY <1>4, <2>1, <2>2
  <1>6. ASSUME NEW r \in Shards, AnswerRead(r)
        PROVE  Goal
    <2> DEFINE a == Dst(task[r].order)
    <2>1. /\ a \in Accounts /\ GetShardId(a) = r
          /\ Oldest(a, Parent).type = "ACK"
          /\ Head(chan[a][Parent]) \in {Ack}
      BY <1>6, AnswerFacts, OrderFacts DEF Ack
    <2>2. /\ chan[a][Parent] # << >>
          /\ chan'[a][Parent] = Tail(chan[a][Parent])
          /\ \A b \in Accounts : b # a => chan'[b][Parent] = chan[b][Parent]
          /\ UNCHANGED credited
      BY <1>6, <2>1 DEF AnswerRead, ReadFrom
    <2>3. \/ /\ local_transfers' = Count(local_transfers, r)
             /\ UNCHANGED cross_shard_transfers
          \/ /\ cross_shard_transfers' = Count(cross_shard_transfers, r)
             /\ UNCHANGED local_transfers
      BY <1>6, <2>1 DEF AnswerRead, LocalAck, Step2Ack
    <2> HIDE DEF a
    <2>4. AcksOf(chan, a) = AcksOf(chan', a) + 1
      <3>1. AcksOf(chan', a) = AcksOf(chan, a) - 1
        BY <1>2, <2>1, <2>2, HowManyTail DEF AcksOf
      <3> QED
        BY <1>3, <2>1, <3>1
    <2>5. \A b \in Accounts : b # a => AcksOf(chan, b) = AcksOf(chan', b)
      BY <2>2 DEF AcksOf
    <2>6. /\ r = s => U = AckSum(chan', s) + 1
          /\ r # s => U = AckSum(chan', s)
          /\ AckSum(chan', s) \in Int
      <3>1. AckSum(chan', s) \in Int
        BY <1>2, AcksType
      <3>2. /\ GetShardId(a) = s => AckSum(chan, s) = AckSum(chan', s) + 1
            /\ GetShardId(a) # s => AckSum(chan, s) = AckSum(chan', s)
        BY <1>2, <2>1, <2>4, <2>5, AcksChange
      <3> QED
        BY <2>1, <3>1, <3>2 DEF U
    <2>7. CreditSum(credited', s) = C
      BY <2>2 DEF C
    <2>8. /\ local_transfers'[s] \in Nat /\ cross_shard_transfers'[s] \in Nat
          /\ r = s => local_transfers'[s] + cross_shard_transfers'[s] = l + x + 1
          /\ r # s => local_transfers'[s] + cross_shard_transfers'[s] = l + x
      <3>1. ASSUME NEW stat \in [Shards -> Nat]
            PROVE  /\ stat[s] \in Nat
                   /\ r = s => Count(stat, r)[s] = stat[s] + 1
                   /\ r # s => Count(stat, r)[s] = stat[s]
        BY DEF Count
      <3>2. CASE local_transfers' = Count(local_transfers, r)
                 /\ cross_shard_transfers' = cross_shard_transfers
        <4>1. /\ cross_shard_transfers'[s] = x /\ x \in Nat /\ l \in Nat
              /\ r = s => local_transfers'[s] = l + 1
              /\ r # s => local_transfers'[s] = l
          BY <1>2, <3>1, <3>2 DEF l, x
        <4> QED
          BY <4>1
      <3>3. CASE cross_shard_transfers' = Count(cross_shard_transfers, r)
                 /\ local_transfers' = local_transfers
        <4>1. /\ local_transfers'[s] = l /\ x \in Nat /\ l \in Nat
              /\ r = s => cross_shard_transfers'[s] = x + 1
              /\ r # s => cross_shard_transfers'[s] = x
          BY <1>2, <3>1, <3>3 DEF l, x
        <4> QED
          BY <4>1
      <3> QED
        BY <2>3, <3>2, <3>3
    <2> QED
      BY <1>3, <2>6, <2>7, <2>8 DEF AnswersAdd
  <1>7. ASSUME NEW a \in Accounts, NEW i \in Orders, AnswerSent(a, i)
        PROVE  Goal
    <2>1. /\ Dst(i) = a
          /\ chan'[a][Parent] = Append(chan[a][Parent], Ack)
          /\ \A b \in Accounts : b # a => chan'[b][Parent] = chan[b][Parent]
          /\ credited' = [credited EXCEPT ![i] = @ + 1]
          /\ UNCHANGED <<local_transfers, cross_shard_transfers>>
      BY <1>7 DEF AnswerSent, SentBy, Ack, statVars
    <2>2. Ack \in Message
      BY MessageFacts DEF Ack
    <2>3. AcksOf(chan', a) = AcksOf(chan, a) + 1
      BY <1>2, <2>1, <2>2, HowManyAppend DEF AcksOf
    <2>4. \A b \in Accounts : b # a => AcksOf(chan', b) = AcksOf(chan, b)
      BY <2>1 DEF AcksOf
    <2>5. /\ GetShardId(a) = s => AckSum(chan', s) = U + 1
          /\ GetShardId(a) # s => AckSum(chan', s) = U
      BY <1>2, <2>3, <2>4, AcksChange DEF U
    <2>6. /\ GetShardId(a) = s => CreditSum(credited', s) = C + 1
          /\ GetShardId(a) # s => CreditSum(credited', s) = C
      BY <1>2, <2>1, CreditsChange DEF C
    <2> QED
      BY <1>3, <2>1, <2>5, <2>6 DEF AnswersAdd, l, x
  <1> QED
    BY <1>5, <1>6, <1>7, AnswerSteps DEF ChannelInv

\* What AnswersMatchCredits adds up.
LEMMA UnreadIsSum ==
  ASSUME IInv, NEW s \in Shards
  PROVE  MapThenSumSet(LAMBDA a : UnreadAcks(s)[a], DOMAIN UnreadAcks(s))
           = AckSum(chan, s)
  <1>1. \A a \in Accounts :
          Cardinality({j \in DOMAIN chan[a][Parent] : chan[a][Parent][j] = Msg("ACK", 0)})
            = AcksOf(chan, a)
    <2> TAKE a \in Accounts
    <2> DEFINE c == chan[a][Parent]
    <2>1. c \in Seq(Message)
      BY ProcFacts, ChannelType DEF IInv, TypeOK
    <2> HIDE DEF c
    <2>2. DOMAIN c = 1 .. Len(c)
      BY <2>1, LenProperties
    <2>3. {j \in DOMAIN c : c[j] = Msg("ACK", 0)} = Places(c, {Ack})
      BY <2>2 DEF Places, Ack
    <2> QED
      BY <2>3 DEF AcksOf, HowMany, c
  <1>2. UnreadAcks(s) = AcksIn(chan, s)
    BY <1>1 DEF UnreadAcks, AcksIn, AccountsOf
  <1>3. DOMAIN AcksIn(chan, s) = AccountsOf(s)
    BY DEF AcksIn
  <1>4. MapThenSumSet(LAMBDA a : AcksIn(chan, s)[a], AccountsOf(s))
          = SumOf(AcksIn(chan, s), AccountsOf(s))
    BY DEF MapThenSumSet, MapThenFoldSet, SumOf, IsSum, PartialSum, First
  <1> QED
    BY <1>2, <1>3, <1>4 DEF AckSum

LEMMA CreditsIsSum ==
  ASSUME NEW s \in Shards
  PROVE  MapThenSumSet(LAMBDA i : Credits(s)[i], DOMAIN Credits(s))
           = CreditSum(credited, s)
  <1>1. Credits(s) = CreditsIn(credited, s) /\ DOMAIN CreditsIn(credited, s) = OrdersTo(s)
    BY DEF Credits, CreditsIn, OrdersTo
  <1>2. MapThenSumSet(LAMBDA i : CreditsIn(credited, s)[i], OrdersTo(s))
          = SumOf(CreditsIn(credited, s), OrdersTo(s))
    BY DEF MapThenSumSet, MapThenFoldSet, SumOf, IsSum, PartialSum, First
  <1> QED
    BY <1>1, <1>2 DEF CreditSum

LEMMA AnswersInitial == Init => CountedInv
  <1> SUFFICES ASSUME Init, NEW s \in Shards
               PROVE  AnswersAdd(local_transfers[s], cross_shard_transfers[s],
                                 chan, credited, s)
    BY DEF CountedInv
  <1>1. chan \in Channels /\ credited \in [Orders -> Nat]
    BY Initial DEF IInv, TypeOK, ChildTypeOK
  <1>2. AckSum(chan, s) = 0
    <2>1. \A a \in Accounts : AcksOf(chan, a) = 0
      BY ProcFacts, HowManyEmpty DEF Init, NetworkInit, AcksOf
    <2>2. \A a \in AccountsOf(s) : AcksIn(chan, s)[a] = 0
      BY <1>1, <2>1, AcksType DEF AccountsOf
    <2> QED
      BY <1>1, <2>2, AcksType, FiniteShard, SumOfZeroes DEF AckSum
  <1>3. CreditSum(credited, s) = 0
    <2>0. credited = [i \in Orders |-> 0]
      BY DEF Init, ChildInit
    <2>1. \A i \in OrdersTo(s) : CreditsIn(credited, s)[i] = 0
      BY <2>0 DEF CreditsIn, OrdersTo
    <2> QED
      BY <1>1, <2>1, CreditsType, FiniteShard, SumOfZeroes DEF CreditSum
  <1>4. local_transfers[s] = 0 /\ cross_shard_transfers[s] = 0
    BY DEF Init, PoolInit
  <1> QED
    BY <1>2, <1>3, <1>4 DEF AnswersAdd

\* For every workload, the successes a shard has counted and the ACKs it has
\* still to read add up to the credits of its accounts
\* (account_shard.cpp:109-115, :171-177, child_worker.cpp:160-177).
THEOREM AnswersAreCounted == Spec => []AnswersMatchCredits
  <1>1. IInv /\ CountedInv => AnswersMatchCredits
    BY UnreadIsSum, CreditsIsSum
    DEF CountedInv, AnswersAdd, AnswersMatchCredits, AfterStop
  <1> QED
    BY <1>1, AnswersInitial, AnswersInductive, Invariance, ChannelInvariance,
       QuietInvariance, PTL DEF Spec

-----------------------------------------------------------------------------
(***************************************************************************)
(* When no two orders pay the same account, an ACK is that of its order.   *)
(***************************************************************************)
PaidOnce == \A i, j \in Orders : Dst(i) = Dst(j) => i = j

\* An ACK on its way says that an order that pays the account was credited.
AckInv ==
  \A a \in Accounts : \A j \in 1 .. Len(chan[a][Parent]) :
    chan[a][Parent][j].type = "ACK" => \E i \in Orders : Dst(i) = a /\ credited[i] > 0

LEMMA AckInductive ==
  /\ Init => AckInv
  /\ IInv /\ KindInv /\ AckInv /\ [Next]_vars => AckInv'
  <1>0. Parent \in Procs /\ \A a \in Accounts : a \in Procs
    BY ProcFacts
  <1>1. Init => AckInv
    <2>1. Len(<< >>) = 0
      BY EmptySeq
    <2> QED
      BY <1>0, <2>1 DEF Init, NetworkInit, AckInv
  <1> SUFFICES ASSUME IInv, KindInv, AckInv, [Next]_vars, NEW a \in Accounts
               PROVE  \A j \in 1 .. Len(chan'[a][Parent]) :
                        chan'[a][Parent][j].type = "ACK" =>
                          \E i \in Orders : Dst(i) = a /\ credited'[i] > 0
    BY <1>1 DEF AckInv
  <1> DEFINE c == chan[a][Parent]
             Was == \E i \in Orders : Dst(i) = a /\ credited[i] > 0
             Is == \E i \in Orders : Dst(i) = a /\ credited'[i] > 0
             Goal == \A j \in 1 .. Len(chan'[a][Parent]) :
                       chan'[a][Parent][j].type = "ACK" => Is
  <1> SUFFICES Goal
    OBVIOUS
  <1>2. c \in Seq(Message) /\ credited \in [Orders -> Nat]
    BY <1>0, ChannelType DEF IInv, TypeOK, ChildTypeOK
  <1>3. \A j \in 1 .. Len(c) : c[j].type = "ACK" => Was
    BY DEF AckInv
  <1>4. Was => Is
    <2>1. CASE UNCHANGED credited
      BY <2>1
    <2>2. ASSUME NEW b \in Accounts, NEW k \in Orders, AnswerSent(b, k)
          PROVE  Was => Is
      <3>1. \A i \in Orders : credited'[i] >= credited[i] /\ credited'[i] \in Nat
        BY <1>2, <2>2 DEF AnswerSent
      <3> QED
        BY <1>2, <3>1
    <2> QED
      BY <2>1, <2>2, AnswerSteps DEF NoAnswer, AnswerRead
  <1> HIDE DEF c, Was, Is
  <1>5. CASE chan'[a][Parent] = c
    BY <1>3, <1>4, <1>5
  <1>6. CASE c # << >> /\ chan'[a][Parent] = Tail(c)
    BY <1>2, <1>3, <1>4, <1>6, TakeHeadFacts
  <1>7. ASSUME NEW m \in Message, m.type = "ACK" => Is,
               chan'[a][Parent] = Append(c, m)
        PROVE  Goal
    BY <1>2, <1>3, <1>4, <1>7, AppendFacts
  <1> HIDE DEF Goal
  <1>8. ASSUME NEW b \in Accounts, NEW m \in Message, SentBy(b, m),
               b = a /\ m.type = "ACK" => Is
        PROVE  Goal
    <2>1. CASE b = a
      <3>1. (m.type = "ACK" => Is) /\ chan'[a][Parent] = Append(c, m)
        BY <1>8, <2>1 DEF SentBy, c
      <3> QED
        BY <1>7, <3>1
    <2>2. CASE b # a
      BY <1>5, <1>8, <2>2 DEF SentBy, c
    <2> QED
      BY <2>1, <2>2
  <1>9. CASE NoAnswer
    <2>1. CASE \A b \in Accounts : chan'[b][Parent] = chan[b][Parent]
      BY <1>5, <2>1 DEF c
    <2>2. CASE cursor \in Accounts /\ ReadFrom(cursor)
      BY <1>5, <1>6, <2>2 DEF ReadFrom, c
    <2>3. CASE \E b \in Accounts, m \in Message :
                 SentBy(b, m) /\ m.type \in {"STARTED", "DONE", "BALANCE_HISTORY"}
      <3>1. PICK b \in Accounts, m \in Message :
              SentBy(b, m) /\ m.type \in {"STARTED", "DONE", "BALANCE_HISTORY"}
        BY <2>3
      <3>2. m.type # "ACK"
        BY <3>1
      <3> QED
        BY <1>8, <3>1, <3>2
    <2> QED
      BY <1>9, <2>1, <2>2, <2>3 DEF NoAnswer
  <1>10. ASSUME NEW s \in Shards, AnswerRead(s)
         PROVE  Goal
    <2>1. \/ chan'[a][Parent] = c
          \/ c # << >> /\ chan'[a][Parent] = Tail(c)
      BY <1>10 DEF AnswerRead, ReadFrom, c
    <2> QED
      BY <1>5, <1>6, <2>1
  <1>11. ASSUME NEW b \in Accounts, NEW i \in Orders, AnswerSent(b, i)
         PROVE  Goal
    <2> DEFINE m == Msg("ACK", 0)
    <2>1. m \in Message
      BY MessageFacts
    <2>2. SentBy(b, m) /\ Dst(i) = b /\ credited'[i] > 0
      BY <1>2, <1>11 DEF AnswerSent
    <2>3. b = a => Is
      BY <2>2 DEF Is
    <2> HIDE DEF m
    <2> QED
      BY <1>8, <2>1, <2>2, <2>3
  <1> QED
    BY <1>9, <1>10, <1>11, AnswerSteps

\* Where no account is paid twice, a transfer that a worker counts as a
\* success was credited, cross-shard or not (account_shard.cpp:113-115,
\* :175-177).
THEOREM SuccessIsCreditedPaidOnce ==
  ASSUME PaidOnce
  PROVE  Spec => SuccessMeansCredited
  <1> DEFINE Honest ==
        \A s \in Shards :
          /\ local_transfers'[s] # local_transfers[s] => credited[task[s].order] > 0
          /\ cross_shard_transfers'[s] # cross_shard_transfers[s] =>
               credited[task[s].order] > 0
  <1>1. IInv /\ ChannelInv /\ QuietInv /\ AckInv /\ [Next]_vars => [Honest]_vars
    <2> SUFFICES ASSUME IInv, ChannelInv, QuietInv, AckInv, [Next]_vars PROVE Honest
      OBVIOUS
    <2>1. ASSUME UNCHANGED <<local_transfers, cross_shard_transfers>> PROVE Honest
      BY <2>1
    <2>2. ASSUME NEW r \in Shards, AnswerRead(r) PROVE Honest
      <3> DEFINE i == task[r].order
      <3>1. /\ i \in Orders /\ Dst(i) \in Accounts
            /\ Head(chan[Dst(i)][Parent]) = Msg("ACK", 0)
            /\ chan[Dst(i)][Parent] # << >>
        BY <2>2, AnswerFacts, OrderFacts DEF AnswerRead, ReadFrom
      <3>2. chan[Dst(i)][Parent] \in Seq(Message)
        BY <3>1, ProcFacts, ChannelType DEF IInv, TypeOK
      <3>3. 1 \in 1 .. Len(chan[Dst(i)][Parent]) /\ chan[Dst(i)][Parent][1].type = "ACK"
        BY <3>1, <3>2, TakeHeadFacts DEF Msg
      <3>4. \E k \in Orders : Dst(k) = Dst(i) /\ credited[k] > 0
        BY <3>1, <3>3 DEF AckInv
      <3>5. credited[i] > 0
        BY <3>1, <3>4 DEF PaidOnce
      <3>6. \A s \in Shards \ {r} :
              /\ local_transfers'[s] = local_transfers[s]
              /\ cross_shard_transfers'[s] = cross_shard_transfers[s]
        BY <2>2 DEF AnswerRead, LocalAck, Step2Ack, Count, IInv, TypeOK, PoolTypeOK
      <3> QED
        BY <3>5, <3>6
    <2> HIDE DEF Honest
    <2> QED
      BY <2>1, <2>2, AnswerSteps DEF NoAnswer, AnswerSent, statVars, ChannelInv
  <1>2. IInv /\ ChannelInv /\ AckInv /\ [Next]_vars => AckInv'
    BY AckInductive DEF ChannelInv
  <1> QED
    BY <1>1, <1>2, AckInductive, Invariance, ChannelInvariance, QuietInvariance, PTL
    DEF Spec, SuccessMeansCredited
=============================================================================
