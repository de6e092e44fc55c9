-------------------------- MODULE LocalBankProofs --------------------------
(***************************************************************************)
(* Proofs about BankSystem when every transfer stays in one shard, for any *)
(* number of accounts and shards and either version of the account         *)
(* process: each order is debited once and then credited once, a success   *)
(* means a credit, all orders are settled before the accounts are stopped, *)
(* and money is conserved.                                                 *)
(***************************************************************************)
EXTENDS RequestProofs

\* The hypothesis of this module: no order of the workload takes the two steps
\* of a cross-shard transfer.  With one shard every workload is such.
LocalWorkload == \A i \in Orders : IsLocal(i)

\* It can be met: num_shards is a parameter (shard_manager.h:37), and where one
\* shard serves all accounts no transfer is a cross-shard one.
LEMMA OneShardIsLocal ==
  ASSUME NumShards = 1
  PROVE  LocalWorkload
  <1> SUFFICES ASSUME NEW i \in Orders
               PROVE  IsLocal(i)
    BY DEF LocalWorkload
  <1>1. Src(i) \in Accounts /\ Dst(i) \in Accounts
    BY OrderFacts
  <1>2. GetShardId(Src(i)) \in Shards /\ GetShardId(Dst(i)) \in Shards
    BY <1>1, ShardFacts
  <1>3. Shards = {0}
    BY DEF Shards
  <1> QED
    BY <1>2, <1>3 DEF IsLocal

-----------------------------------------------------------------------------
(***************************************************************************)
(* The TRANSFERs of an order in a channel.                                 *)
(***************************************************************************)
CopiesOf(i, c) == HowMany(c, {Msg("TRANSFER", i)})

\* The requests of order i on their way to its source, and the debits on
\* their way to its destination.
Requests(i) == MessagesOf(i, Parent, Src(i))
Forwards(i) == MessagesOf(i, Src(i), Dst(i))

LEMMA CopiesFacts ==
  ASSUME NEW c \in Seq(Message), NEW i
  PROVE  /\ CopiesOf(i, c) \in Nat
         /\ CopiesOf(i, c) = 0 <=>
              \A j \in 1 .. Len(c) : c[j] # Msg("TRANSFER", i)
  BY HowManyType DEF CopiesOf

\* An order's copies are its own: a send or a receive of another changes
\* nothing.
LEMMA CopiesChange ==
  ASSUME NEW c \in Seq(Message), NEW i
  PROVE  /\ \A m \in Message :
              CopiesOf(i, Append(c, m)) =
                CopiesOf(i, c) + (IF m = Msg("TRANSFER", i) THEN 1 ELSE 0)
         /\ c # << >> =>
              CopiesOf(i, Tail(c)) =
                CopiesOf(i, c) - (IF Head(c) = Msg("TRANSFER", i) THEN 1 ELSE 0)
  <1>1. ASSUME NEW m \in Message
        PROVE  CopiesOf(i, Append(c, m)) =
                 CopiesOf(i, c) + (IF m = Msg("TRANSFER", i) THEN 1 ELSE 0)
    <2>1. HowMany(Append(c, m), {Msg("TRANSFER", i)}) =
            HowMany(c, {Msg("TRANSFER", i)})
              + (IF m \in {Msg("TRANSFER", i)} THEN 1 ELSE 0)
      BY HowManyAppend
    <2> QED
      BY <2>1 DEF CopiesOf
  <1>2. ASSUME c # << >>
        PROVE  CopiesOf(i, Tail(c)) =
                 CopiesOf(i, c) - (IF Head(c) = Msg("TRANSFER", i) THEN 1 ELSE 0)
    <2>1. HowMany(Tail(c), {Msg("TRANSFER", i)}) =
            HowMany(c, {Msg("TRANSFER", i)})
              - (IF Head(c) \in {Msg("TRANSFER", i)} THEN 1 ELSE 0)
      BY <1>2, HowManyTail
    <2> QED
      BY <2>1 DEF CopiesOf
  <1> QED
    BY <1>1, <1>2

\* A channel after a step that is about no TRANSFER.
Passes(c, d) ==
  \/ d = c
  \/ \E m \in Message : m.type # "TRANSFER" /\ d = Append(c, m)
  \/ c # << >> /\ Head(c).type # "TRANSFER" /\ d = Tail(c)

LEMMA CopiesPass ==
  ASSUME NEW c \in Seq(Message), NEW d, Passes(c, d), NEW i
  PROVE  CopiesOf(i, d) = CopiesOf(i, c)
  <1>1. CopiesOf(i, c) \in Nat
    BY CopiesFacts
  <1>2. \A m : m.type # "TRANSFER" => m # Msg("TRANSFER", i)
    BY DEF Msg
  <1>3. CASE d = c
    BY <1>3
  <1>4. ASSUME NEW m \in Message, m.type # "TRANSFER", d = Append(c, m)
        PROVE  CopiesOf(i, d) = CopiesOf(i, c)
    <2>1. CopiesOf(i, Append(c, m)) =
            CopiesOf(i, c) + (IF m = Msg("TRANSFER", i) THEN 1 ELSE 0)
      BY CopiesChange
    <2> QED
      BY <1>1, <1>2, <1>4, <2>1
  <1>5. CASE c # << >> /\ Head(c).type # "TRANSFER" /\ d = Tail(c)
    <2>1. CopiesOf(i, Tail(c)) =
            CopiesOf(i, c) - (IF Head(c) = Msg("TRANSFER", i) THEN 1 ELSE 0)
      BY <1>5, CopiesChange
    <2> QED
      BY <1>1, <1>2, <1>5, <2>1
  <1> QED
    BY <1>3, <1>4, <1>5 DEF Passes

\* MessagesOf counts copies, now and in the next state.
LEMMA CopiesAre ==
  ASSUME IInv, IInv', NEW i \in Orders
  PROVE  /\ \A p, q \in Procs : /\ MessagesOf(i, p, q) = CopiesOf(i, chan[p][q])
                                /\ chan[p][q] \in Seq(Message)
                                /\ chan'[p][q] \in Seq(Message)
         /\ Requests(i) = CopiesOf(i, chan[Parent][Src(i)])
         /\ Requests(i)' = CopiesOf(i, chan'[Parent][Src(i)])
         /\ Forwards(i) = CopiesOf(i, chan[Src(i)][Dst(i)])
         /\ Forwards(i)' = CopiesOf(i, chan'[Src(i)][Dst(i)])
         /\ Requests(i) \in Nat /\ Requests(i)' \in Nat
         /\ Forwards(i) \in Nat /\ Forwards(i)' \in Nat
  <1>1. chan \in Channels /\ chan' \in Channels
    BY DEF IInv, TypeOK
  <1>2. Src(i) \in Procs /\ Dst(i) \in Procs /\ Parent \in Procs
    BY OrderFacts, ProcFacts
  <1>3. \A p, q \in Procs : chan[p][q] \in Seq(Message) /\ chan'[p][q] \in Seq(Message)
    BY <1>1, ChannelType
  <1>4. ASSUME NEW p \in Procs, NEW q \in Procs
        PROVE  /\ MessagesOf(i, p, q) = CopiesOf(i, chan[p][q])
               /\ MessagesOf(i, p, q)' = CopiesOf(i, chan'[p][q])
    BY <1>3, MessageCount DEF MessagesOf, CopiesOf
  <1>5. /\ MessagesOf(i, Parent, Src(i)) = CopiesOf(i, chan[Parent][Src(i)])
        /\ MessagesOf(i, Parent, Src(i))' = CopiesOf(i, chan'[Parent][Src(i)])
        /\ MessagesOf(i, Src(i), Dst(i)) = CopiesOf(i, chan[Src(i)][Dst(i)])
        /\ MessagesOf(i, Src(i), Dst(i))' = CopiesOf(i, chan'[Src(i)][Dst(i)])
    BY <1>2, <1>4
  <1>6. /\ CopiesOf(i, chan[Parent][Src(i)]) \in Nat
        /\ CopiesOf(i, chan'[Parent][Src(i)]) \in Nat
        /\ CopiesOf(i, chan[Src(i)][Dst(i)]) \in Nat
        /\ CopiesOf(i, chan'[Src(i)][Dst(i)]) \in Nat
    BY <1>2, <1>3, CopiesFacts
  <1> QED
    BY <1>3, <1>4, <1>5, <1>6 DEF Requests, Forwards

-----------------------------------------------------------------------------
(***************************************************************************)
(* The pool executes local transfers only.                                 *)
(***************************************************************************)
LocalPcs == {"wait", "local_send", "local_ack", "exited"}

PoolLocal ==
  /\ \A s \in Shards : worker_pc[s] \in LocalPcs
  /\ \A s \in Shards : \A j \in 1 .. Len(task_queue[s]) :
       task_queue[s][j].task_type = "LOCAL_TRANSFER"

\* What a worker then does.
LEMMA LocalSteps ==
  ASSUME PoolLocal, NEW s \in Shards, Worker(s)
  PROVE  /\ WorkerTake(s) \/ WorkerExit(s) \/ LocalSend(s) \/ LocalAck(s)
         /\ ~ UsesDestroyed(s)
  BY DEF PoolLocal, LocalPcs, Worker, WorkerStep, Step1Send, Step1Found,
         Step1NotFound, Step2Push, Step2Notify, Step2Send, Step2Ack,
         Step2Cleanup, Crash, UsesDestroyed, WorkerAt

LEMMA PoolLocalInductive ==
  ASSUME LocalWorkload
  PROVE  /\ Init => PoolLocal
         /\ IInv /\ PoolLocal /\ [Next]_vars => PoolLocal'
  <1>1. Init => PoolLocal
    <2>1. Len(<< >>) = 0
      BY EmptySeq
    <2> QED
      BY <2>1 DEF Init, PoolInit, PoolLocal, LocalPcs
  <1> SUFFICES ASSUME IInv, PoolLocal, [Next]_vars PROVE PoolLocal'
    BY <1>1
  <1>2. PoolTypeOK
    BY DEF IInv, TypeOK
  <1>3. ASSUME UNCHANGED <<worker_pc, task_queue>>
        PROVE  PoolLocal'
    BY <1>3 DEF PoolLocal
  <1>4. CASE Phase2Submit
    <2> DEFINE d == GetShardId(Src(cursor))
    <2>1. cursor \in Orders
      BY <1>4 DEF Phase2Submit, MainAt, IInv, TypeOK, MainTypeOK, CursorRange
    <2>2. /\ task_queue' = [task_queue EXCEPT ![d] = Append(@, LocalTask(cursor))]
          /\ UNCHANGED worker_pc
      BY <1>4, <2>1 DEF Phase2Submit, SubmitTransfer, SubmitLocal,
                        SubmitCrossShard, LocalWorkload, Push
    <2>3. /\ LocalTask(cursor) \in Tasks
          /\ LocalTask(cursor).task_type = "LOCAL_TRANSFER"
      BY <2>1, TaskFacts DEF LocalTask, Task
    <2> HIDE DEF d
    <2>4. ASSUME NEW r \in Shards, NEW j \in 1 .. Len(task_queue'[r])
          PROVE  task_queue'[r][j].task_type = "LOCAL_TRANSFER"
      <3>1. task_queue[r] \in Seq(Tasks)
        BY <1>2 DEF PoolTypeOK
      <3>2. \/ task_queue'[r] = task_queue[r]
            \/ task_queue'[r] = Append(task_queue[r], LocalTask(cursor))
        BY <1>2, <2>2 DEF PoolTypeOK
      <3> QED
        BY <2>3, <2>4, <3>1, <3>2, AppendFacts DEF PoolLocal
    <2> QED
      BY <2>2, <2>4 DEF PoolLocal
  <1>5. CASE MainStep /\ ~ Phase2Submit
    <2>1. UNCHANGED <<worker_pc, task_queue>>
      BY <1>5 DEF MainStep, Phase1WaitStartup, WaitAllComplete, DestroyContexts,
                  StopShard, JoinShard, Phase3Stop, Phase3WaitDone,
                  Phase4CollectHistory, poolVars
    <2> QED
      BY <1>3, <2>1
  <1>6. ASSUME NEW s \in Shards, Worker(s)
        PROVE  PoolLocal'
    <2>1. CASE WorkerTake(s)
      <3>1. task_queue[s] \in Seq(Tasks) /\ task_queue[s] # << >>
        BY <1>2, <2>1 DEF WorkerTake, PoolTypeOK
      <3>2. Head(task_queue[s]).task_type = "LOCAL_TRANSFER"
        BY <3>1, TakeHeadFacts DEF PoolLocal
      <3>3. \A r \in Shards : worker_pc'[r] \in LocalPcs
        BY <1>2, <2>1, <3>2
        DEF WorkerTake, WorkerGoTo, HandlerOf, PoolLocal, LocalPcs, PoolTypeOK
      <3>4. ASSUME NEW r \in Shards, NEW j \in 1 .. Len(task_queue'[r])
            PROVE  task_queue'[r][j].task_type = "LOCAL_TRANSFER"
        <4>1. CASE r # s
          <5>1. task_queue'[r] = task_queue[r]
            BY <1>2, <2>1, <4>1 DEF WorkerTake, PoolTypeOK
          <5> QED
            BY <3>4, <5>1 DEF PoolLocal
        <4>2. CASE r = s
          <5> DEFINE q == task_queue[s]
          <5>1. task_queue'[r] = Tail(q)
            BY <1>2, <2>1, <4>2 DEF WorkerTake, PoolTypeOK
          <5>2. \A k \in 1 .. Len(q) : q[k].task_type = "LOCAL_TRANSFER"
            BY DEF PoolLocal
          <5>3. /\ Len(q) \in Nat \ {0}
                /\ Len(Tail(q)) = Len(q) - 1
                /\ \A k \in 1 .. Len(q) - 1 : Tail(q)[k] = q[k + 1]
            BY <3>1, TakeHeadFacts
          <5> HIDE DEF q
          <5> QED
            BY <3>4, <5>1, <5>2, <5>3
        <4> QED
          BY <4>1, <4>2
      <3> QED
        BY <3>3, <3>4 DEF PoolLocal
    <2>2. CASE WorkerExit(s) \/ LocalSend(s) \/ LocalAck(s)
      <3>1. UNCHANGED task_queue
        BY <2>2 DEF WorkerExit, LocalSend, LocalAck
      <3>2. \E pc \in LocalPcs : WorkerGoTo(s, pc)
        BY <2>2 DEF WorkerExit, LocalSend, LocalAck, HandlerReturns, LocalPcs
      <3> QED
        BY <1>2, <3>1, <3>2 DEF WorkerGoTo, PoolLocal, PoolTypeOK
    <2> QED
      BY <1>6, <2>1, <2>2, LocalSteps
  <1>7. CASE UNCHANGED parentVars
    BY <1>3, <1>7 DEF parentVars, poolVars
  <1> QED
    BY <1>4, <1>5, <1>6, <1>7 DEF Next, Main, Terminated, Account, vars

-----------------------------------------------------------------------------
(***************************************************************************)
(* The way of an order: while the worker of its shard waits for the ACK    *)
(* there is exactly one message of it, the request, the debit or the ACK;  *)
(* otherwise there is none.  Two orders of one account are never on their  *)
(* way at the same time, because they share their shard.                   *)
(***************************************************************************)
Waiting(s, i) == worker_pc[s] = "local_ack" /\ task[s].order = i

Held(i) == Waiting(GetShardId(Src(i)), i)
Replies(i) == Len(chan[Dst(i)][Parent])

Balanced(held, requests, forwards, replies, debits, credits) ==
  /\ debits = forwards + credits
  /\ held => requests + debits = 1 /\ requests + forwards + replies = 1
  /\ ~ held => requests = 0 /\ forwards = 0

OrderInv ==
  \A i \in Orders :
    Balanced(Held(i), Requests(i), Forwards(i), Replies(i), debited[i], credited[i])

\* The parent sends an order to its source only.
SourceOnly ==
  \A a \in Accounts : \A j \in 1 .. Len(chan[Parent][a]) :
    chan[Parent][a][j].type = "TRANSFER" => Src(chan[Parent][a][j].val) = a

\* Before STOP an account tells the parent that it has started, and answers
\* the order that the worker of its shard waits for.
Answered(d) == \E i \in Orders : Dst(i) = d /\ Held(i)

AnswersIn(c, answered) ==
  \A j \in 1 .. Len(c) :
    c[j].type = "STARTED" \/ (c[j].type = "ACK" /\ answered)

AnswersInv ==
  ~ AfterStop => \A d \in Accounts : AnswersIn(chan[d][Parent], Answered(d))

LocalInv == PoolLocal /\ SourceOnly /\ OrderInv /\ AnswersInv

LEMMA AnswersAppend ==
  ASSUME NEW c \in Seq(Message), NEW answered \in BOOLEAN, AnswersIn(c, answered),
         NEW m \in Message, m.type = "STARTED" \/ (m.type = "ACK" /\ answered)
  PROVE  AnswersIn(Append(c, m), answered)
  BY AppendFacts DEF AnswersIn

LEMMA AnswersTail ==
  ASSUME NEW c \in Seq(Message), c # << >>, NEW answered \in BOOLEAN,
         AnswersIn(c, answered)
  PROVE  AnswersIn(Tail(c), answered)
  <1>1. /\ Len(c) \in Nat
        /\ Len(Tail(c)) = Len(c) - 1
        /\ \A j \in 1 .. Len(c) - 1 : Tail(c)[j] = c[j + 1]
    BY TakeHeadFacts
  <1> SUFFICES ASSUME NEW j \in 1 .. Len(Tail(c))
               PROVE  \/ Tail(c)[j].type = "STARTED"
                      \/ Tail(c)[j].type = "ACK" /\ answered
    BY DEF AnswersIn
  <1>2. j \in 1 .. Len(c) - 1 /\ j + 1 \in 1 .. Len(c) /\ Tail(c)[j] = c[j + 1]
    BY <1>1
  <1> QED
    BY <1>2 DEF AnswersIn

\* A worker that waits does so while the parent serves, for an order of its
\* shard.
LEMMA WaitingFacts ==
  ASSUME LocalWorkload, IInv, NEW s \in Shards, NEW i, Waiting(s, i)
  PROVE  /\ Serving
         /\ i \in Orders
         /\ GetShardId(Dst(i)) = s
         /\ GetShardId(Src(i)) = s
  <1>1. task[s] \in Tasks /\ GetShardId(Dst(i)) = s
    BY DEF Waiting, IInv, Routed, WorkerRouted, Serves, AckPcs
  <1>2. i \in Orders
    BY <1>1, TaskFacts DEF Waiting
  <1>3. Serving
    BY DEF Waiting, IInv, PhaseInv, Serving, AfterStop
  <1> QED
    BY <1>1, <1>2, <1>3 DEF LocalWorkload, IsLocal

\* After phase 1 an account is past its STARTED, and none is left.
LEMMA ServingFacts ==
  ASSUME IInv, ChannelInv, main_pc # "phase1", NEW d \in Accounts
  PROVE  /\ Begun(d)
         /\ chan[d][Parent] \in Seq(Message)
         /\ \A j \in 1 .. Len(chan[d][Parent]) : chan[d][Parent][j].type # "STARTED"
  <1>1. d \in Procs /\ Parent \in Procs /\ d # Parent
    BY ProcFacts
  <1>2. StartedChannel(chan[d][Parent], Unread(d, Parent), Begun(d))
    BY <1>1 DEF ChannelInv, StartInv
  <1>3. ~ Unread(d, Parent)
    BY DEF Unread
  <1>4. chan[d][Parent] \in Seq(Message)
    BY <1>1, ChannelType DEF IInv, TypeOK
  <1> QED
    BY <1>2, <1>3, <1>4 DEF StartedChannel

\* A parent that has sent STOP has no worker left.
LEMMA AfterStopFacts ==
  ASSUME IInv, LocalInv, AfterStop
  PROVE  \A i \in Orders : /\ ~ Held(i)
                           /\ Requests(i) = 0
                           /\ Forwards(i) = 0
  <1> SUFFICES ASSUME NEW i \in Orders PROVE ~ Held(i)
    BY DEF LocalInv, OrderInv, Balanced
  <1>1. GetShardId(Src(i)) \in Shards
    BY OrderFacts, ShardFacts
  <1> QED
    BY <1>1 DEF AfterStop, IInv, PhaseInv, Held, Waiting

-----------------------------------------------------------------------------
(***************************************************************************)
(* The steps of an account, by what they do to the orders.                 *)
(***************************************************************************)
\* A receive and a send in one step.
LEMMA ReceiveSendAt ==
  ASSUME NEW c \in Channels, NEW p \in Procs, NEW q \in Procs, NEW r \in Procs,
         NEW t \in Procs, NEW m \in Message, ~ (p = r /\ q = t), c[p][q] # << >>
  PROVE  \A x, y \in Procs :
           Send(Receive(c, p, q), r, t, m)[x][y] =
             IF x = p /\ y = q THEN Tail(c[x][y])
             ELSE IF x = r /\ y = t THEN Append(c[x][y], m)
             ELSE c[x][y]
  <1> DEFINE e == Receive(c, p, q)
  <1>1. e \in Channels
    <2>1. Tail(c[p][q]) \in Seq(Message)
      BY ChannelType, TakeHeadFacts
    <2> QED
      BY <2>1 DEF Receive, Channels
  <1>2. \A x, y \in Procs :
          e[x][y] = IF x = p /\ y = q THEN Tail(c[p][q]) ELSE c[x][y]
    BY ReceiveAt
  <1> HIDE DEF e
  <1>3. \A x, y \in Procs :
          Send(e, r, t, m)[x][y] =
            IF x = r /\ y = t THEN Append(e[r][t], m) ELSE e[x][y]
    BY <1>1, SendAt
  <1> QED
    BY <1>2, <1>3 DEF e

\* The source turns a request into a debit.
LEMMA SourceEffect ==
  ASSUME IInv, IInv', KindInv, NEW a \in Accounts, NEW p \in Procs \ {a},
         HandleTransferAsSource(a, p)
  PROVE  LET i == Oldest(p, a).val IN
         /\ i \in Orders /\ Src(i) = a
         /\ Requests(i) # 0
         /\ \A k \in Orders :
              /\ Requests(k)' = Requests(k) - (IF k = i THEN 1 ELSE 0)
              /\ Forwards(k)' = Forwards(k) + (IF k = i THEN 1 ELSE 0)
         /\ \A d \in Accounts : chan'[d][Parent] = chan[d][Parent]
         /\ debited' = [debited EXCEPT ![i] = @ + 1]
         /\ balance' = [balance EXCEPT ![Src(i)] = @ - Amount(i)]
         /\ UNCHANGED credited
  <1> DEFINE i == Oldest(p, a).val
             m == Msg("TRANSFER", i)
  <1>1. /\ i \in Orders /\ Src(i) = a
        /\ chan[Parent][a] # << >>
        /\ Head(chan[Parent][a]) = m
        /\ chan' = Send(Receive(chan, Parent, a), a, Dst(i), m)
    BY SourceTurn
  <1>2. /\ debited' = [debited EXCEPT ![i] = @ + 1]
        /\ balance' = [balance EXCEPT ![Src(i)] = @ - Amount(i)]
        /\ UNCHANGED credited
    BY <1>1 DEF HandleTransferAsSource
  <1> HIDE DEF i
  <1> SUFFICES /\ Requests(i) # 0
               /\ \A k \in Orders :
                    /\ Requests(k)' = Requests(k) - (IF k = i THEN 1 ELSE 0)
                    /\ Forwards(k)' = Forwards(k) + (IF k = i THEN 1 ELSE 0)
               /\ \A d \in Accounts : chan'[d][Parent] = chan[d][Parent]
    BY <1>1, <1>2 DEF i
  <1>3. /\ a \in Procs /\ Parent \in Procs /\ a # Parent
        /\ Dst(i) \in Procs /\ Dst(i) # Parent /\ Dst(i) # a
        /\ m \in Message /\ chan \in Channels
        /\ \A k \in Orders : m = Msg("TRANSFER", k) <=> k = i
        /\ \A d \in Accounts : d \in Procs /\ d # Parent
        /\ \A k \in Orders : /\ Src(k) \in Procs /\ Dst(k) \in Procs
                             /\ Src(k) # Parent /\ Dst(k) # Parent
    BY <1>1, ProcFacts, OrderFacts, OrderEnds, MessageFacts DEF IInv, TypeOK, Msg
  <1> HIDE DEF m
  <1>4. \A x, y \in Procs :
          chan'[x][y] = IF x = Parent /\ y = a THEN Tail(chan[x][y])
                        ELSE IF x = a /\ y = Dst(i) THEN Append(chan[x][y], m)
                        ELSE chan[x][y]
    BY <1>1, <1>3, ReceiveSendAt
  <1>5. \A d \in Accounts : chan'[d][Parent] = chan[d][Parent]
    BY <1>3, <1>4
  <1>6. Requests(i) # 0
    <2>1. /\ chan[Parent][a] \in Seq(Message)
          /\ Requests(i) = CopiesOf(i, chan[Parent][a])
      BY <1>1, <1>3, CopiesAre
    <2>2. 1 \in 1 .. Len(chan[Parent][a]) /\ chan[Parent][a][1] = m
      BY <1>1, <2>1, TakeHeadFacts
    <2> QED
      BY <1>1, <1>3, <2>1, <2>2, CopiesFacts
  <1>7. ASSUME NEW k \in Orders
        PROVE  Requests(k)' = Requests(k) - (IF k = i THEN 1 ELSE 0)
    <2> DEFINE c == chan[Parent][Src(k)]
    <2>1. /\ c \in Seq(Message)
          /\ Requests(k) = CopiesOf(k, c) /\ Requests(k) \in Nat
          /\ Requests(k)' = CopiesOf(k, chan'[Parent][Src(k)])
      BY <1>3, CopiesAre
    <2>2. CASE Src(k) = a
      <3>1. chan'[Parent][Src(k)] = Tail(c) /\ c # << >> /\ Head(c) = m
        BY <1>1, <1>3, <1>4, <2>2
      <3> HIDE DEF c
      <3>2. CopiesOf(k, Tail(c)) =
              CopiesOf(k, c) - (IF Head(c) = Msg("TRANSFER", k) THEN 1 ELSE 0)
        BY <2>1, <3>1, CopiesChange
      <3> QED
        BY <1>3, <2>1, <3>1, <3>2
    <2>3. CASE Src(k) # a
      <3>1. chan'[Parent][Src(k)] = c /\ k # i
        BY <1>1, <1>3, <1>4, <2>3
      <3> QED
        BY <2>1, <3>1
    <2> QED
      BY <2>2, <2>3
  <1>8. ASSUME NEW k \in Orders
        PROVE  Forwards(k)' = Forwards(k) + (IF k = i THEN 1 ELSE 0)
    <2> DEFINE c == chan[Src(k)][Dst(k)]
    <2>1. /\ c \in Seq(Message)
          /\ Forwards(k) = CopiesOf(k, c) /\ Forwards(k) \in Nat
          /\ Forwards(k)' = CopiesOf(k, chan'[Src(k)][Dst(k)])
      BY <1>3, CopiesAre
    <2>2. CASE Src(k) = a /\ Dst(k) = Dst(i)
      <3>1. chan'[Src(k)][Dst(k)] = Append(c, m)
        BY <1>3, <1>4, <2>2
      <3> HIDE DEF c
      <3>2. CopiesOf(k, Append(c, m)) =
              CopiesOf(k, c) + (IF m = Msg("TRANSFER", k) THEN 1 ELSE 0)
        BY <1>3, <2>1, CopiesChange
      <3> QED
        BY <1>3, <2>1, <3>1, <3>2
    <2>3. CASE ~ (Src(k) = a /\ Dst(k) = Dst(i))
      <3>1. chan'[Src(k)][Dst(k)] = c /\ k # i
        BY <1>1, <1>3, <1>4, <2>3
      <3> QED
        BY <2>1, <3>1
    <2> QED
      BY <2>2, <2>3
  <1> QED
    BY <1>5, <1>6, <1>7, <1>8

\* The destination turns a debit into a credit and an ACK.
LEMMA DestinationEffect ==
  ASSUME IInv, IInv', KindInv, SourceOnly, NEW a \in Accounts,
         NEW p \in Procs \ {a}, HandleTransferAsDestination(a, p)
  PROVE  LET i == Oldest(p, a).val IN
         /\ i \in Orders /\ Dst(i) = a
         /\ Forwards(i) # 0
         /\ \A k \in Orders :
              /\ Requests(k)' = Requests(k)
              /\ Forwards(k)' = Forwards(k) - (IF k = i THEN 1 ELSE 0)
         /\ chan'[a][Parent] = Append(chan[a][Parent], Msg("ACK", 0))
         /\ \A d \in Accounts \ {a} : chan'[d][Parent] = chan[d][Parent]
         /\ \A q \in Procs :
              chan'[Parent][q] = chan[Parent][q]
         /\ credited' = [credited EXCEPT ![i] = @ + 1]
         /\ balance' = [balance EXCEPT ![Dst(i)] = @ + Amount(i)]
         /\ UNCHANGED debited
  <1> DEFINE i == Oldest(p, a).val
             m == Msg("TRANSFER", i)
  <1>1. /\ i \in Orders /\ Dst(i) = a
        /\ p \in {Parent, Src(i)}
        /\ chan[p][a] # << >>
        /\ Head(chan[p][a]) = m
        /\ chan' = Send(Receive(chan, p, a), a, Parent, Msg("ACK", 0))
    BY DestinationTurn
  <1>2. /\ credited' = [credited EXCEPT ![i] = @ + 1]
        /\ balance' = [balance EXCEPT ![Dst(i)] = @ + Amount(i)]
        /\ UNCHANGED debited
    BY <1>1 DEF HandleTransferAsDestination
  <1> HIDE DEF i
  <1>3. /\ a \in Procs /\ Parent \in Procs /\ a # Parent
        /\ Src(i) \in Procs /\ Src(i) # Parent /\ Src(i) # a
        /\ Msg("ACK", 0) \in Message /\ chan \in Channels
        /\ \A k \in Orders : m = Msg("TRANSFER", k) <=> k = i
        /\ \A d \in Accounts : d \in Procs /\ d # Parent
        /\ \A k \in Orders : /\ Src(k) \in Procs /\ Dst(k) \in Procs
                             /\ Src(k) # Parent /\ Dst(k) # Parent
                             /\ Src(k) # Dst(k)
    BY <1>1, ProcFacts, OrderFacts, OrderEnds, MessageFacts DEF IInv, TypeOK, Msg
  <1>4. p = Src(i)
    <2>1. ASSUME p = Parent PROVE FALSE
      <3>1. chan[Parent][a] \in Seq(Message) /\ chan[Parent][a] # << >>
        BY <1>1, <1>3, <2>1, ChannelType
      <3>2. 1 \in 1 .. Len(chan[Parent][a]) /\ chan[Parent][a][1] = m
        BY <1>1, <2>1, <3>1, TakeHeadFacts
      <3>3. m.type = "TRANSFER" /\ m.val = i
        BY DEF Msg
      <3> QED
        BY <1>3, <3>2, <3>3 DEF SourceOnly
    <2> QED
      BY <1>1, <2>1
  <1>5. \A x, y \in Procs :
          chan'[x][y] = IF x = Src(i) /\ y = a THEN Tail(chan[x][y])
                        ELSE IF x = a /\ y = Parent
                             THEN Append(chan[x][y], Msg("ACK", 0))
                        ELSE chan[x][y]
    BY <1>1, <1>3, <1>4, ReceiveSendAt
  <1> HIDE DEF m
  <1>6. /\ chan'[a][Parent] = Append(chan[a][Parent], Msg("ACK", 0))
        /\ \A d \in Accounts \ {a} : chan'[d][Parent] = chan[d][Parent]
        /\ \A q \in Procs : chan'[Parent][q] = chan[Parent][q]
    BY <1>3, <1>5
  <1>7. Forwards(i) # 0
    <2>1. /\ chan[Src(i)][a] \in Seq(Message)
          /\ Forwards(i) = CopiesOf(i, chan[Src(i)][a])
      BY <1>1, <1>3, CopiesAre
    <2>2. 1 \in 1 .. Len(chan[Src(i)][a]) /\ chan[Src(i)][a][1] = m
      BY <1>1, <1>4, <2>1, TakeHeadFacts
    <2> QED
      BY <1>1, <1>3, <2>1, <2>2, CopiesFacts
  <1>8. ASSUME NEW k \in Orders
        PROVE  Requests(k)' = Requests(k)
    BY <1>3, <1>6, CopiesAre
  <1>9. ASSUME NEW k \in Orders
        PROVE  Forwards(k)' = Forwards(k) - (IF k = i THEN 1 ELSE 0)
    <2> DEFINE c == chan[Src(k)][Dst(k)]
    <2>1. /\ c \in Seq(Message)
          /\ Forwards(k) = CopiesOf(k, c) /\ Forwards(k) \in Nat
          /\ Forwards(k)' = CopiesOf(k, chan'[Src(k)][Dst(k)])
      BY <1>3, CopiesAre
    <2>2. CASE Src(k) = Src(i) /\ Dst(k) = a
      <3>1. chan'[Src(k)][Dst(k)] = Tail(c) /\ c # << >> /\ Head(c) = m
        BY <1>1, <1>3, <1>4, <1>5, <2>2
      <3> HIDE DEF c
      <3>2. CopiesOf(k, Tail(c)) =
              CopiesOf(k, c) - (IF Head(c) = Msg("TRANSFER", k) THEN 1 ELSE 0)
        BY <2>1, <3>1, CopiesChange
      <3> QED
        BY <1>3, <2>1, <3>1, <3>2
    <2>3. CASE ~ (Src(k) = Src(i) /\ Dst(k) = a)
      <3>1. chan'[Src(k)][Dst(k)] = c /\ k # i
        BY <1>1, <1>3, <1>5, <2>3
      <3> QED
        BY <2>1, <3>1
    <2> QED
      BY <2>2, <2>3
  <1> QED
    BY <1>1, <1>2, <1>6, <1>7, <1>8, <1>9 DEF i

\* An account that has stopped finds no TRANSFER: every order was settled
\* before the parent sent STOP.
LEMMA NothingForStopped ==
  ASSUME IInv, ChannelInv, LocalInv, NEW a \in Accounts, Stopped(a),
         NEW p \in Procs, p # a
  PROVE  /\ AfterStop
         /\ chan[p][a] \in Seq(Message)
         /\ \A j \in 1 .. Len(chan[p][a]) : chan[p][a][j].type # "TRANSFER"
  <1>1. /\ a \in Procs /\ Parent \in Procs /\ a # Parent
        /\ chan[p][a] \in Seq(Carries(p, a))
        /\ chan[p][a] \in Seq(Message)
    BY ProcFacts, ChannelType DEF IInv, TypeOK, ChannelInv, KindInv, Kinds
  <1>2. AfterStop
    BY DEF ChannelInv, StopInv, StopChannel
  <1>3. ASSUME NEW j \in 1 .. Len(chan[p][a]), chan[p][a][j].type = "TRANSFER"
        PROVE  FALSE
    <2> DEFINE i == chan[p][a][j].val
    <2>1. chan[p][a][j] \in Carries(p, a)
      BY <1>1, ElementOfSeq
    <2>2. /\ i \in Orders /\ chan[p][a][j] = Msg("TRANSFER", i)
          /\ p = Parent \/ (p = Src(i) /\ a = Dst(i))
      BY <1>3, <2>1, MessageFacts, TransferFacts DEF Carries
    <2>3. p # Parent
      <3>1. chan[Parent][a] = << >>
        BY DEF ChannelInv, StopInv, StopChannel
      <3> QED
        BY <3>1, EmptySeq
    <2> HIDE DEF i
    <2>4. Forwards(i) = CopiesOf(i, chan[p][a])
      BY <1>1, <2>2, <2>3, MessageCount DEF Forwards, MessagesOf, CopiesOf
    <2>5. Forwards(i) = 0
      BY <1>2, <2>2, AfterStopFacts
    <2> QED
      BY <1>1, <2>2, <2>4, <2>5, CopiesFacts
  <1> QED
    BY <1>1, <1>2, <1>3

\* The other steps of an account are about no TRANSFER.
LEMMA PassChannels ==
  ASSUME IInv, IInv', ChannelInv, LocalInv, NEW a \in Accounts, Account(a),
         \A p \in Procs \ {a} : /\ ~ HandleTransferAsSource(a, p)
                                /\ ~ HandleTransferAsDestination(a, p)
  PROVE  \A x, y \in Procs : x # y => Passes(chan[x][y], chan'[x][y])
  <1>0. /\ a \in Procs /\ Parent \in Procs /\ a # Parent /\ chan \in Channels
        /\ \A x, y \in Procs : chan[x][y] \in Seq(Message)
        /\ \A x, y \in Procs : chan[x][y] \in Seq(Carries(x, y))
    BY ProcFacts, ChannelType DEF IInv, TypeOK, ChannelInv, KindInv, Kinds
  <1>1. CASE SendStarted(a)
    <2>1. \A x, y \in Procs :
            chan'[x][y] = IF x = a /\ y # a
                          THEN Append(chan[x][y], Msg("STARTED", 0))
                          ELSE chan[x][y]
      BY <1>1, StartupChannels
    <2>2. Msg("STARTED", 0) \in Message /\ Msg("STARTED", 0).type # "TRANSFER"
      BY MessageFacts DEF Msg
    <2> QED
      BY <2>1, <2>2 DEF Passes
  <1>2. CASE WaitStarted(a)
    <2> DEFINE b == peer[a]
    <2>1. b \in Accounts /\ b \in Procs /\ b # a /\ chan[b][a] # << >>
      BY <1>2, StartupChannels, ProcFacts
      DEF ChannelInv, StartInv, PeerInv, WaitStarted
    <2>2. \A x, y \in Procs :
            chan'[x][y] = IF x = b /\ y = a THEN Tail(chan[x][y]) ELSE chan[x][y]
      <3>1. ~ SendStarted(a)
        BY <1>2 DEF WaitStarted, SendStarted
      <3> QED
        BY <1>2, <3>1, StartupChannels
    <2>3. Head(chan[b][a]).type = "STARTED"
      <3>1. StartedChannel(chan[b][a], Unread(b, a), Begun(b))
        BY <1>0, <2>1 DEF ChannelInv, StartInv
      <3>2. Unread(b, a)
        BY <1>0, <1>2, <2>1 DEF Unread, WaitStarted, Accounts
      <3>3. 1 \in 1 .. Len(chan[b][a]) /\ Head(chan[b][a]) = chan[b][a][1]
        BY <1>0, <2>1, TakeHeadFacts
      <3> QED
        BY <3>1, <3>2, <3>3 DEF StartedChannel
    <2> HIDE DEF b
    <2> QED
      BY <2>1, <2>2, <2>3 DEF Passes
  <1>3. ASSUME NEW p \in Procs \ {a}, HandleStop(a, p)
        PROVE  \A x, y \in Procs : x # y => Passes(chan[x][y], chan'[x][y])
    <2>1. /\ p = Parent
          /\ chan[Parent][a] # << >>
          /\ Head(chan[Parent][a]) = Msg("STOP", 0)
          /\ chan' = SendMulticast(Receive(chan, Parent, a), a, Msg("DONE", 0))
      BY <1>3, StopTurn DEF ChannelInv
    <2>2. \A x, y \in Procs :
            Receive(chan, Parent, a)[x][y] =
              IF x = Parent /\ y = a THEN Tail(chan[x][y]) ELSE chan[x][y]
      BY <1>0, ReceiveAt
    <2>3. Receive(chan, Parent, a) \in Channels
      BY <1>0, <2>1, KindsReceive DEF ChannelInv, KindInv
    <2>4. \A x, y \in Procs :
            chan'[x][y] = IF x = a /\ y # a
                          THEN Append(Receive(chan, Parent, a)[x][y], Msg("DONE", 0))
                          ELSE Receive(chan, Parent, a)[x][y]
      BY <1>0, <2>1, <2>3, MulticastAt
    <2>5. /\ Msg("DONE", 0) \in Message /\ Msg("DONE", 0).type # "TRANSFER"
          /\ Msg("STOP", 0).type # "TRANSFER"
      BY MessageFacts DEF Msg
    <2>6. ASSUME NEW x \in Procs, NEW y \in Procs, x # y
          PROVE  Passes(chan[x][y], chan'[x][y])
      <3>1. CASE x = a
        <4>1. chan'[x][y] = Append(chan[x][y], Msg("DONE", 0))
          BY <1>0, <2>2, <2>4, <2>6, <3>1
        <4> QED
          BY <2>5, <4>1 DEF Passes
      <3>2. CASE x = Parent /\ y = a
        <4>1. chan'[x][y] = Tail(chan[x][y])
          BY <1>0, <2>2, <2>4, <3>2
        <4> QED
          BY <2>1, <2>5, <3>2, <4>1 DEF Passes
      <3>3. CASE x # a /\ ~ (x = Parent /\ y = a)
        <4>1. chan'[x][y] = chan[x][y]
          BY <2>2, <2>4, <3>3
        <4> QED
          BY <4>1 DEF Passes
      <3> QED
        BY <3>1, <3>2, <3>3
    <2> QED
      BY <2>6
  <1>4. ASSUME NEW p \in Procs \ {a}, HandleOther(a, p) \/ WaitAllDone(a, p)
        PROVE  \A x, y \in Procs : x # y => Passes(chan[x][y], chan'[x][y])
    <2>1. chan' = Receive(chan, p, a) /\ chan[p][a] # << >>
      BY <1>4 DEF HandleOther, WaitAllDone, HasMessage
    <2>2. \A x, y \in Procs :
            chan'[x][y] = IF x = p /\ y = a THEN Tail(chan[x][y]) ELSE chan[x][y]
      BY <1>0, <2>1, ReceiveAt
    <2>3. Head(chan[p][a]).type # "TRANSFER"
      <3>1. CASE HandleOther(a, p)
        <4>1. Head(chan[p][a]) \in Carries(p, a)
          BY <1>0, <2>1, TakeHeadFacts
        <4> QED
          BY <3>1, <4>1 DEF HandleOther, Oldest, Carries
      <3>2. CASE WaitAllDone(a, p)
        <4>1. Stopped(a)
          BY <3>2 DEF WaitAllDone, Stopped
        <4>2. 1 \in 1 .. Len(chan[p][a]) /\ Head(chan[p][a]) = chan[p][a][1]
          BY <1>0, <2>1, TakeHeadFacts
        <4> QED
          BY <4>1, <4>2, NothingForStopped
      <3> QED
        BY <1>4, <3>1, <3>2
    <2> QED
      BY <2>1, <2>2, <2>3 DEF Passes
  <1>5. CASE SendHistory(a)
    <2>1. \A x, y \in Procs :
            chan'[x][y] = IF x = a /\ y = Parent
                          THEN Append(chan[x][y], Msg("BALANCE_HISTORY", balance[a]))
                          ELSE chan[x][y]
      BY <1>5, HistoryChannels
    <2>2. /\ Msg("BALANCE_HISTORY", balance[a]) \in Message
          /\ Msg("BALANCE_HISTORY", balance[a]).type # "TRANSFER"
      BY MessageFacts DEF Msg, IInv, TypeOK, ChildTypeOK
    <2> QED
      BY <2>1, <2>2 DEF Passes
  <1> QED
    BY <1>1, <1>2, <1>3, <1>4, <1>5, AccountSteps DEF LoopStep

LEMMA PassEffect ==
  ASSUME IInv, IInv', ChannelInv, LocalInv, NEW a \in Accounts, Account(a),
         \A p \in Procs \ {a} : /\ ~ HandleTransferAsSource(a, p)
                                /\ ~ HandleTransferAsDestination(a, p)
  PROVE  /\ \A k \in Orders : /\ Requests(k)' = Requests(k)
                              /\ Forwards(k)' = Forwards(k)
         /\ UNCHANGED <<debited, credited, balance>>
         /\ \A d \in Accounts :
              \/ chan'[d][Parent] = chan[d][Parent]
              \/ AfterStop
              \/ /\ ~ Begun(d)
                 /\ chan'[d][Parent] = Append(chan[d][Parent], Msg("STARTED", 0))
  <1>0. /\ a \in Procs /\ Parent \in Procs /\ a # Parent /\ chan \in Channels
        /\ \A d \in Accounts : d \in Procs /\ d # Parent
        /\ \A k \in Orders : /\ Src(k) \in Procs /\ Dst(k) \in Procs
                             /\ Src(k) # Parent /\ Dst(k) # Src(k)
    BY ProcFacts, OrderFacts, OrderEnds DEF IInv, TypeOK
  <1>1. ASSUME NEW k \in Orders
        PROVE  Requests(k)' = Requests(k) /\ Forwards(k)' = Forwards(k)
    <2>1. /\ Passes(chan[Parent][Src(k)], chan'[Parent][Src(k)])
          /\ Passes(chan[Src(k)][Dst(k)], chan'[Src(k)][Dst(k)])
      BY <1>0, PassChannels
    <2>2. /\ chan[Parent][Src(k)] \in Seq(Message)
          /\ chan[Src(k)][Dst(k)] \in Seq(Message)
      BY <1>0, ChannelType
    <2>3. /\ CopiesOf(k, chan'[Parent][Src(k)]) = CopiesOf(k, chan[Parent][Src(k)])
          /\ CopiesOf(k, chan'[Src(k)][Dst(k)]) = CopiesOf(k, chan[Src(k)][Dst(k)])
      BY <2>1, <2>2, CopiesPass
    <2> QED
      BY <2>3, CopiesAre
  <1>2. UNCHANGED <<debited, credited, balance>>
    BY DEF Account, ChildStep, SendStarted, WaitStarted, HandleStop, HandleOther,
           WaitAllDone, SendHistory
  <1>3. ASSUME NEW d \in Accounts
        PROVE  \/ chan'[d][Parent] = chan[d][Parent]
               \/ AfterStop
               \/ /\ ~ Begun(d)
                  /\ chan'[d][Parent] = Append(chan[d][Parent], Msg("STARTED", 0))
    <2>1. CASE SendStarted(a)
      <3>1. chan'[d][Parent] = IF d = a /\ Parent # a
                               THEN Append(chan[d][Parent], Msg("STARTED", 0))
                               ELSE chan[d][Parent]
        BY <1>0, <2>1, StartupChannels
      <3> QED
        BY <2>1, <3>1 DEF SendStarted, Begun
    <2>2. CASE WaitStarted(a)
      <3>1. ~ SendStarted(a)
        BY <2>2 DEF WaitStarted, SendStarted
      <3> QED
        BY <1>0, <2>2, <3>1, StartupChannels
    <2>3. ASSUME NEW p \in Procs \ {a}, HandleStop(a, p) PROVE AfterStop
      <3>1. /\ chan[Parent][a] # << >>
            /\ Head(chan[Parent][a]) = Msg("STOP", 0)
        BY <2>3, StopTurn DEF ChannelInv
      <3>2. chan[Parent][a] \in Seq(Message)
        BY <1>0, ChannelType
      <3>3. /\ 1 \in 1 .. Len(chan[Parent][a])
            /\ chan[Parent][a][1].type = "STOP"
        BY <3>1, <3>2, TakeHeadFacts DEF Msg
      <3> QED
        BY <3>3 DEF ChannelInv, StopInv, StopChannel
    <2>4. ASSUME NEW p \in Procs \ {a}, HandleOther(a, p) \/ WaitAllDone(a, p)
          PROVE  chan'[d][Parent] = chan[d][Parent]
      <3>1. chan' = Receive(chan, p, a)
        BY <2>4 DEF HandleOther, WaitAllDone
      <3>2. Receive(chan, p, a)[d][Parent] =
              IF d = p /\ Parent = a THEN Tail(chan[p][a]) ELSE chan[d][Parent]
        BY <1>0, ReceiveAt
      <3> QED
        BY <1>0, <3>1, <3>2
    <2>5. CASE SendHistory(a)
      <3>1. Stopped(a)
        BY <2>5 DEF SendHistory, Stopped
      <3> QED
        BY <3>1 DEF ChannelInv, StopInv, StopChannel
    <2> QED
      BY <2>1, <2>2, <2>3, <2>4, <2>5, AccountSteps DEF LoopStep
  <1> QED
    BY <1>1, <1>2, <1>3

-----------------------------------------------------------------------------
(***************************************************************************)
(* A step of an account keeps the invariant.                               *)
(***************************************************************************)
LEMMA SourceOnlyAccount ==
  ASSUME IInv, ChannelInv, SourceOnly, NEW a \in Accounts, Account(a)
  PROVE  SourceOnly'
  <1>0. /\ a \in Procs /\ Parent \in Procs /\ a # Parent
        /\ \A b \in Accounts : b \in Procs /\ b # Parent
        /\ \A b \in Accounts : chan[Parent][b] \in Seq(Message)
    BY ProcFacts, ChannelType DEF IInv, TypeOK
  <1>1. ASSUME NEW b \in Accounts
        PROVE  \/ chan'[Parent][b] = chan[Parent][b]
               \/ chan[Parent][b] # << >> /\ chan'[Parent][b] = Tail(chan[Parent][b])
    <2>1. CASE SendStarted(a) \/ WaitStarted(a)
      <3>1. chan'[Parent][b] =
              IF SendStarted(a)
              THEN IF Parent = a /\ b # a
                   THEN Append(chan[Parent][b], Msg("STARTED", 0))
                   ELSE chan[Parent][b]
              ELSE IF Parent = peer[a] /\ b = a THEN Tail(chan[Parent][b])
                                                ELSE chan[Parent][b]
        BY <1>0, <2>1, StartupChannels
      <3>2. WaitStarted(a) => peer[a] # Parent
        BY <1>0, <2>1, StartupChannels
      <3> QED
        BY <1>0, <2>1, <3>1, <3>2
    <2>2. ASSUME NEW p \in Procs \ {a}, LoopStep(a, p)
          PROVE  \/ chan'[Parent][b] = chan[Parent][b]
                 \/ chan[Parent][b] # << >> /\ chan'[Parent][b] = Tail(chan[Parent][b])
      <3>1. /\ chan[p][a] # << >>
            /\ chan'[p][a] = Tail(chan[p][a])
            /\ ~ (Parent = p /\ b = a) => chan'[Parent][b] = chan[Parent][b]
        BY <1>0, <2>2, LoopChannels DEF ChannelInv
      <3> QED
        BY <3>1
    <2>3. CASE SendHistory(a)
      BY <1>0, <2>3, HistoryChannels
    <2> QED
      BY <2>1, <2>2, <2>3, AccountSteps
  <1>2. ASSUME NEW b \in Accounts, NEW j \in 1 .. Len(chan'[Parent][b]),
               chan'[Parent][b][j].type = "TRANSFER"
        PROVE  Src(chan'[Parent][b][j].val) = b
    <2> DEFINE c == chan[Parent][b]
    <2>1. \A k \in 1 .. Len(c) : c[k].type = "TRANSFER" => Src(c[k].val) = b
      BY DEF SourceOnly
    <2>2. c \in Seq(Message)
      BY <1>0
    <2>3. chan'[Parent][b] = c \/ (c # << >> /\ chan'[Parent][b] = Tail(c))
      BY <1>1
    <2> HIDE DEF c
    <2>4. c # << >> => /\ Len(c) \in Nat
                       /\ Len(Tail(c)) = Len(c) - 1
                       /\ \A k \in 1 .. Len(c) - 1 : Tail(c)[k] = c[k + 1]
      BY <2>2, TakeHeadFacts
    <2>5. CASE chan'[Parent][b] = c
      BY <1>2, <2>1, <2>5
    <2>6. CASE c # << >> /\ chan'[Parent][b] = Tail(c)
      <3>1. j \in 1 .. Len(c) - 1 /\ j + 1 \in 1 .. Len(c)
        BY <1>2, <2>4, <2>6
      <3>2. Tail(c)[j] = c[j + 1]
        BY <2>4, <2>6, <3>1
      <3> QED
        BY <1>2, <2>1, <2>6, <3>1, <3>2
    <2> QED
      BY <2>3, <2>5, <2>6
  <1> QED
    BY <1>2 DEF SourceOnly

\* The numbers of an order, and who waits for it.
LEMMA OrderNumbers ==
  ASSUME LocalWorkload, IInv, NEW i \in Orders
  PROVE  /\ Requests(i) \in Nat /\ Forwards(i) \in Nat /\ Replies(i) \in Nat
         /\ debited[i] \in Nat /\ credited[i] \in Nat
         /\ Src(i) \in Accounts /\ Dst(i) \in Accounts
         /\ GetShardId(Src(i)) \in Shards
         /\ GetShardId(Src(i)) = GetShardId(Dst(i))
         /\ chan[Dst(i)][Parent] \in Seq(Message)
         /\ Held(i) \in BOOLEAN
  <1>1. /\ Src(i) \in Procs /\ Dst(i) \in Procs /\ Parent \in Procs
        /\ chan \in Channels
    BY OrderFacts, ProcFacts DEF IInv, TypeOK
  <1>2. /\ chan[Parent][Src(i)] \in Seq(Message)
        /\ chan[Src(i)][Dst(i)] \in Seq(Message)
        /\ chan[Dst(i)][Parent] \in Seq(Message)
    BY <1>1, ChannelType
  <1>3. Requests(i) \in Nat /\ Forwards(i) \in Nat
    <2>1. /\ MessagesOf(i, Parent, Src(i)) = CopiesOf(i, chan[Parent][Src(i)])
          /\ MessagesOf(i, Src(i), Dst(i)) = CopiesOf(i, chan[Src(i)][Dst(i)])
      BY <1>2, MessageCount DEF MessagesOf, CopiesOf
    <2>2. /\ CopiesOf(i, chan[Parent][Src(i)]) \in Nat
          /\ CopiesOf(i, chan[Src(i)][Dst(i)]) \in Nat
      BY <1>2, CopiesFacts
    <2> QED
      BY <2>1, <2>2 DEF Requests, Forwards
  <1>4. Replies(i) \in Nat
    BY <1>2, LenProperties DEF Replies
  <1>5. debited[i] \in Nat /\ credited[i] \in Nat
    BY DEF IInv, TypeOK, ChildTypeOK
  <1> QED
    BY <1>2, <1>3, <1>4, <1>5, OrderFacts, ShardFacts
    DEF LocalWorkload, IsLocal, Held, Waiting

\* A step of an account decides nothing about who waits.
LEMMA HeldByAccount ==
  ASSUME IInv, NEW a \in Accounts, Account(a)
  PROVE  /\ \A i : Held(i)' <=> Held(i)
         /\ \A d : Answered(d)' <=> Answered(d)
  <1>1. UNCHANGED <<worker_pc, task>>
    BY DEF Account, parentVars, poolVars
  <1> QED
    BY <1>1 DEF Held, Waiting, Answered

\* Of the orders of an account at most one is waited for.
LEMMA HeldAlone ==
  ASSUME LocalWorkload, IInv, NEW i \in Orders, NEW k \in Orders, Held(i), Held(k),
         GetShardId(Dst(i)) = GetShardId(Dst(k))
  PROVE  i = k
  BY OrderNumbers DEF Held, Waiting

LEMMA OrdersAccount ==
  ASSUME LocalWorkload, IInv, IInv', ChannelInv, LocalInv,
         NEW a \in Accounts, Account(a)
  PROVE  OrderInv'
  <1> SUFFICES ASSUME NEW k \in Orders
               PROVE  Balanced(Held(k), Requests(k)', Forwards(k)', Replies(k)',
                               debited'[k], credited'[k])
    BY HeldByAccount DEF OrderInv, Balanced
  <1> DEFINE Goal == Balanced(Held(k), Requests(k)', Forwards(k)', Replies(k)',
                              debited'[k], credited'[k])
  <1> SUFFICES Goal
    OBVIOUS
  <1>1. /\ Requests(k) \in Nat /\ Forwards(k) \in Nat /\ Replies(k) \in Nat
        /\ debited[k] \in Nat /\ credited[k] \in Nat
        /\ Dst(k) \in Accounts
        /\ Held(k) \in BOOLEAN
    BY OrderNumbers
  <1>2. Balanced(Held(k), Requests(k), Forwards(k), Replies(k), debited[k], credited[k])
    BY DEF LocalInv, OrderInv
  <1>3. debited \in [Orders -> Nat] /\ credited \in [Orders -> Nat]
    BY DEF IInv, TypeOK, ChildTypeOK
  <1>4. KindInv /\ SourceOnly
    BY DEF ChannelInv, LocalInv
  <1>5. ASSUME NEW p \in Procs \ {a}, HandleTransferAsSource(a, p)
        PROVE  Goal
    <2> DEFINE i == Oldest(p, a).val
    <2>1. /\ i \in Orders
          /\ Requests(i) # 0
          /\ Requests(k)' = Requests(k) - (IF k = i THEN 1 ELSE 0)
          /\ Forwards(k)' = Forwards(k) + (IF k = i THEN 1 ELSE 0)
          /\ chan'[Dst(k)][Parent] = chan[Dst(k)][Parent]
          /\ debited' = [debited EXCEPT ![i] = @ + 1]
          /\ UNCHANGED credited
      BY <1>1, <1>4, <1>5, SourceEffect
    <2> HIDE DEF i
    <2>2. debited'[k] = debited[k] + (IF k = i THEN 1 ELSE 0)
      BY <1>3, <2>1
    <2>3. Replies(k)' = Replies(k)
      BY <2>1 DEF Replies
    <2>4. k = i => Requests(k) # 0
      BY <2>1
    <2>5. credited'[k] = credited[k]
      BY <2>1
    <2>6. /\ Requests(k)' = Requests(k) - (IF k = i THEN 1 ELSE 0)
          /\ Forwards(k)' = Forwards(k) + (IF k = i THEN 1 ELSE 0)
      BY <2>1
    <2> QED
      BY <1>1, <1>2, <2>2, <2>3, <2>4, <2>5, <2>6 DEF Balanced
  <1>6. ASSUME NEW p \in Procs \ {a}, HandleTransferAsDestination(a, p)
        PROVE  Goal
    <2> DEFINE i == Oldest(p, a).val
               ack == Msg("ACK", 0)
    <2>1. /\ i \in Orders /\ Dst(i) = a
          /\ Forwards(i) # 0
          /\ Requests(k)' = Requests(k)
          /\ Forwards(k)' = Forwards(k) - (IF k = i THEN 1 ELSE 0)
          /\ chan'[a][Parent] = Append(chan[a][Parent], ack)
          /\ Dst(k) # a => chan'[Dst(k)][Parent] = chan[Dst(k)][Parent]
          /\ credited' = [credited EXCEPT ![i] = @ + 1]
          /\ UNCHANGED debited
      BY <1>1, <1>4, <1>6, DestinationEffect
    <2> HIDE DEF i
    <2>2. credited'[k] = credited[k] + (IF k = i THEN 1 ELSE 0)
      BY <1>3, <2>1
    <2>3. Held(i)
      BY <2>1 DEF LocalInv, OrderInv, Balanced
    <2>4. debited'[k] = debited[k]
      BY <2>1
    <2>5. CASE k = i
      <3>1. Replies(k)' = Replies(k) + 1
        <4>1. chan[a][Parent] \in Seq(Message) /\ ack \in Message
          BY <2>1, OrderNumbers, MessageFacts
        <4>2. Len(Append(chan[a][Parent], ack)) = Len(chan[a][Parent]) + 1
          BY <4>1, AppendFacts
        <4> QED
          BY <2>1, <2>5, <4>2 DEF Replies
      <3>2. /\ Forwards(k) # 0 /\ Held(k)
            /\ Requests(k)' = Requests(k)
            /\ Forwards(k)' = Forwards(k) - 1
            /\ credited'[k] = credited[k] + 1
        BY <2>1, <2>2, <2>3, <2>5
      <3> QED
        BY <1>1, <1>2, <2>4, <3>1, <3>2 DEF Balanced
    <2>6. CASE k # i
      <3>1. Held(k) => Replies(k)' = Replies(k)
        <4>1. Held(k) => Dst(k) # a
          BY <2>1, <2>3, <2>6, HeldAlone
        <4> QED
          BY <2>1, <4>1 DEF Replies
      <3>2. /\ Requests(k)' = Requests(k)
            /\ Forwards(k)' = Forwards(k)
            /\ credited'[k] = credited[k]
        BY <1>1, <2>1, <2>2, <2>6
      <3> QED
        BY <1>1, <1>2, <2>4, <3>1, <3>2 DEF Balanced
    <2> QED
      BY <2>5, <2>6
  <1>7. CASE \A p \in Procs \ {a} : /\ ~ HandleTransferAsSource(a, p)
                                    /\ ~ HandleTransferAsDestination(a, p)
    <2>1. /\ Requests(k)' = Requests(k)
          /\ Forwards(k)' = Forwards(k)
          /\ UNCHANGED <<debited, credited, balance>>
          /\ \/ chan'[Dst(k)][Parent] = chan[Dst(k)][Parent]
             \/ AfterStop
             \/ ~ Begun(Dst(k))
      BY <1>1, <1>7, PassEffect
    <2>2. Held(k) => Replies(k)' = Replies(k)
      <3>1. Held(k) => Serving
        BY OrderNumbers, WaitingFacts DEF Held
      <3>2. Serving => Begun(Dst(k)) /\ ~ AfterStop
        BY <1>1, ServingFacts DEF Serving
      <3> QED
        BY <2>1, <3>1, <3>2 DEF Replies
    <2>3. debited'[k] = debited[k] /\ credited'[k] = credited[k]
      BY <2>1
    <2>4. Requests(k)' = Requests(k) /\ Forwards(k)' = Forwards(k)
      BY <2>1
    <2> QED
      BY <1>1, <1>2, <2>2, <2>3, <2>4 DEF Balanced
  <1> QED
    BY <1>5, <1>6, <1>7

LEMMA AnswersAccount ==
  ASSUME LocalWorkload, IInv, IInv', ChannelInv, LocalInv,
         NEW a \in Accounts, Account(a)
  PROVE  AnswersInv'
  <1>0. AfterStop' <=> AfterStop
    BY AccountAlone DEF Account, parentVars, mainVars, AfterStop
  <1> SUFFICES ASSUME ~ AfterStop, NEW d \in Accounts
               PROVE  AnswersIn(chan'[d][Parent], Answered(d))
    BY <1>0, HeldByAccount DEF AnswersInv, AnswersIn
  <1> DEFINE c == chan[d][Parent]
             Goal == AnswersIn(chan'[d][Parent], Answered(d))
  <1> SUFFICES Goal
    OBVIOUS
  <1>1. c \in Seq(Message) /\ Answered(d) \in BOOLEAN /\ KindInv /\ SourceOnly
    BY ProcFacts, ChannelType DEF IInv, TypeOK, Answered, ChannelInv, LocalInv
  <1>2. AnswersIn(c, Answered(d))
    BY DEF LocalInv, AnswersInv
  <1>3. ASSUME NEW m \in Message, m.type = "STARTED" \/ (m.type = "ACK" /\ Answered(d)),
               chan'[d][Parent] = Append(c, m)
        PROVE  Goal
    <2>1. AnswersIn(Append(c, m), Answered(d))
      BY <1>1, <1>2, <1>3, AnswersAppend
    <2> QED
      BY <1>3, <2>1
  <1>4. CASE chan'[d][Parent] = c
    BY <1>2, <1>4
  <1>5. ASSUME NEW p \in Procs \ {a}, HandleTransferAsSource(a, p)
        PROVE  Goal
    BY <1>1, <1>4, <1>5, SourceEffect
  <1>6. ASSUME NEW p \in Procs \ {a}, HandleTransferAsDestination(a, p)
        PROVE  Goal
    <2> DEFINE i == Oldest(p, a).val
    <2>1. /\ i \in Orders /\ Dst(i) = a
          /\ Forwards(i) # 0
          /\ d = a => chan'[d][Parent] = Append(c, Msg("ACK", 0))
          /\ d # a => chan'[d][Parent] = c
      BY <1>1, <1>6, DestinationEffect
    <2> HIDE DEF i
    <2>2. d = a => Answered(d)
      BY <2>1 DEF Answered, LocalInv, OrderInv, Balanced
    <2>3. Msg("ACK", 0) \in Message /\ Msg("ACK", 0).type = "ACK"
      BY MessageFacts DEF Msg
    <2> QED
      BY <1>3, <1>4, <2>1, <2>2, <2>3
  <1>7. CASE \A p \in Procs \ {a} : /\ ~ HandleTransferAsSource(a, p)
                                    /\ ~ HandleTransferAsDestination(a, p)
    <2>1. \/ chan'[d][Parent] = c
          \/ chan'[d][Parent] = Append(c, Msg("STARTED", 0))
      BY <1>7, PassEffect
    <2>2. Msg("STARTED", 0) \in Message /\ Msg("STARTED", 0).type = "STARTED"
      BY MessageFacts DEF Msg
    <2> QED
      BY <1>3, <1>4, <2>1, <2>2
  <1> QED
    BY <1>5, <1>6, <1>7

-----------------------------------------------------------------------------
(***************************************************************************)
(* The steps of a worker.                                                  *)
(***************************************************************************)
\* A worker that sends, or receives the answer, serves an order of its shard.
LEMMA ServedOrder ==
  ASSUME IInv, NEW s \in Shards, worker_pc[s] \in {"local_send", "local_ack"},
         LocalWorkload
  PROVE  /\ task[s].order \in Orders
         /\ GetShardId(Src(task[s].order)) = s
         /\ GetShardId(Dst(task[s].order)) = s
         /\ Serving
  <1>1. task[s] \in Tasks /\ GetShardId(Dst(task[s].order)) = s
    BY DEF IInv, Routed, WorkerRouted, Serves, AckPcs
  <1>2. task[s].order \in Orders
    BY <1>1, TaskFacts
  <1>3. GetShardId(Src(task[s].order)) = GetShardId(Dst(task[s].order))
    BY <1>2 DEF LocalWorkload, IsLocal
  <1>4. Serving
    BY DEF IInv, PhaseInv, Serving, AfterStop
  <1> QED
    BY <1>1, <1>2, <1>3, <1>4

\* Who waits after the step of a worker.
LEMMA HeldByWorker ==
  ASSUME LocalWorkload, IInv, PoolLocal, NEW s \in Shards, Worker(s),
         NEW k \in Orders
  PROVE  /\ WorkerTake(s) \/ WorkerExit(s) => (Held(k)' <=> Held(k))
         /\ LocalSend(s) => /\ GetShardId(Src(k)) = s => ~ Held(k)
                            /\ Held(k)' <=> Held(k) \/ k = task[s].order
         /\ LocalAck(s) => /\ Held(task[s].order)
                           /\ Held(k)' <=> Held(k) /\ k # task[s].order
  <1> DEFINE r == GetShardId(Src(k))
             i == task[s].order
  <1>1. r \in Shards /\ PoolTypeOK
    BY OrderFacts, ShardFacts DEF IInv, TypeOK
  <1>2. CASE r # s
    <2>1. worker_pc'[r] = worker_pc[r] /\ task'[r] = task[r]
      BY <1>1, <1>2, WorkerAlone
    <2>2. Held(k)' <=> Held(k)
      BY <2>1 DEF Held, Waiting
    <2>3. worker_pc[s] \in {"local_send", "local_ack"} =>
            GetShardId(Src(i)) = s /\ k # i
      BY <1>2, ServedOrder
    <2>4. LocalSend(s) \/ LocalAck(s) => worker_pc[s] \in {"local_send", "local_ack"}
      BY DEF LocalSend, LocalAck, WorkerAt
    <2>5. LocalAck(s) => Held(i)
      BY <2>3, <2>4 DEF Held, Waiting, LocalAck, WorkerAt
    <2> QED
      BY <1>2, <2>2, <2>3, <2>4, <2>5
  <1>3. CASE r = s
    <2>1. Held(k) <=> worker_pc[s] = "local_ack" /\ i = k
      BY <1>3 DEF Held, Waiting
    <2>2. Held(k)' <=> worker_pc'[s] = "local_ack" /\ task'[s].order = k
      BY <1>3 DEF Held, Waiting
    <2>3. ASSUME WorkerTake(s) \/ WorkerExit(s) PROVE Held(k)' <=> Held(k)
      <3>1. worker_pc[s] = "wait"
        BY <2>3 DEF WorkerTake, WorkerExit, WorkerAt
      <3>2. \E pc \in {"local_send", "step1_send", "step2_send", "exited"} :
              WorkerGoTo(s, pc)
        <4>1. CASE WorkerExit(s)
          BY <4>1 DEF WorkerExit
        <4>2. CASE WorkerTake(s)
          <5>1. Head(task_queue[s]) \in Tasks
            BY <1>1, <4>2, TakeHeadFacts DEF WorkerTake, PoolTypeOK
          <5>2. HandlerOf(Head(task_queue[s])) \in
                  {"local_send", "step1_send", "step2_send"}
            BY <5>1 DEF HandlerOf, Tasks, TaskTypes
          <5> QED
            BY <4>2, <5>2 DEF WorkerTake
        <4> QED
          BY <2>3, <4>1, <4>2
      <3>3. worker_pc'[s] # "local_ack"
        BY <1>1, <3>2 DEF WorkerGoTo, PoolTypeOK
      <3> QED
        BY <2>1, <2>2, <3>1, <3>3
    <2>4. ASSUME LocalSend(s)
          PROVE  ~ Held(k) /\ (Held(k)' <=> Held(k) \/ k = i)
      <3>1. worker_pc[s] = "local_send"
        BY <2>4 DEF LocalSend, WorkerAt
      <3>2. worker_pc'[s] = "local_ack" /\ task' = task
        BY <1>1, <2>4 DEF LocalSend, WorkerGoTo, PoolTypeOK
      <3> QED
        BY <2>1, <2>2, <3>1, <3>2
    <2>5. ASSUME LocalAck(s)
          PROVE  Held(i) /\ (Held(k)' <=> Held(k) /\ k # i)
      <3>1. worker_pc[s] = "local_ack"
        BY <2>5 DEF LocalAck, WorkerAt
      <3>2. worker_pc'[s] = "wait"
        BY <1>1, <2>5 DEF LocalAck, HandlerReturns, WorkerGoTo, PoolTypeOK
      <3>3. GetShardId(Src(i)) = s
        BY <3>1, ServedOrder
      <3> QED
        BY <2>1, <2>2, <3>1, <3>2, <3>3 DEF Held, Waiting
    <2> QED
      BY <1>3, <2>3, <2>4, <2>5
  <1> QED
    BY <1>2, <1>3

\* The request goes out when no message of the order, and no answer of the
\* destination, is anywhere.
LEMMA SendEffect ==
  ASSUME LocalWorkload, IInv, IInv', ChannelInv, RequestedOnce, LocalInv,
         NEW s \in Shards, Worker(s), LocalSend(s)
  PROVE  LET i == task[s].order IN
         /\ i \in Orders
         /\ debited[i] = 0
         /\ Replies(i) = 0
         /\ \A k \in Orders : Requests(k)' = Requests(k) + (IF k = i THEN 1 ELSE 0)
         /\ \A a \in Accounts, q \in Procs : chan'[a][q] = chan[a][q]
         /\ \A a \in Accounts \ {Src(i)} : chan'[Parent][a] = chan[Parent][a]
         /\ chan'[Parent][Src(i)] = Append(chan[Parent][Src(i)], Msg("TRANSFER", i))
  <1> DEFINE i == task[s].order
             m == Msg("TRANSFER", i)
  <1>1. worker_pc[s] = "local_send" /\ chan' = Send(chan, Parent, Src(i), m)
    BY DEF LocalSend, WorkerAt, SendOrder
  <1>2. /\ i \in Orders /\ GetShardId(Src(i)) = s /\ GetShardId(Dst(i)) = s
        /\ Serving
    BY <1>1, ServedOrder
  <1>3. debited[i] = 0
    <2>1. /\ QueuedRequests(i) \in Nat
          /\ RunningRequests(i) = Cardinality(Sending(i))
          /\ MessagesOf(i, Parent, Src(i)) \in Nat
          /\ debited[i] \in Nat
          /\ IsFiniteSet(Sending(i))
      BY <1>2, RequestType
    <2>2. s \in Sending(i)
      BY <1>1 DEF Sending
    <2>3. RunningRequests(i) \in Nat \ {0}
      BY <2>1, <2>2, FS_EmptySet, FS_CardinalityType
    <2>4. QueuedRequests(i) + RunningRequests(i) + MessagesOf(i, Parent, Src(i))
            + debited[i] <= 1
      BY <1>2 DEF RequestedOnce
    <2> QED
      BY <2>1, <2>3, <2>4
  <1>4. Replies(i) = 0
    <2> DEFINE c == chan[Dst(i)][Parent]
    <2>1. Dst(i) \in Accounts
      BY <1>2, OrderFacts
    <2>2. /\ c \in Seq(Message)
          /\ \A j \in 1 .. Len(c) : c[j].type # "STARTED"
      BY <1>2, <2>1, ServingFacts DEF Serving
    <2>3. ~ Answered(Dst(i))
      <3>1. ASSUME NEW k \in Orders, Dst(k) = Dst(i), Held(k) PROVE FALSE
        <4>1. GetShardId(Src(k)) = s
          BY <1>2, <3>1 DEF LocalWorkload, IsLocal
        <4> QED
          BY <3>1, <4>1, HeldByWorker DEF LocalInv
      <3> QED
        BY <3>1 DEF Answered
    <2>4. AnswersIn(c, Answered(Dst(i)))
      BY <1>2, <2>1 DEF LocalInv, AnswersInv, Serving
    <2> HIDE DEF c
    <2>5. \A j \in 1 .. Len(c) : FALSE
      BY <2>2, <2>3, <2>4 DEF AnswersIn
    <2>6. Len(c) \in Nat
      BY <2>2, LenProperties
    <2>7. Len(c) = 0
      BY <2>5, <2>6
    <2> QED
      BY <2>7 DEF Replies, c
  <1> HIDE DEF i
  <1>5. /\ Parent \in Procs /\ Src(i) \in Procs /\ m \in Message
        /\ chan \in Channels
        /\ \A a \in Accounts : a \in Procs /\ a # Parent
        /\ \A k \in Orders : m = Msg("TRANSFER", k) <=> k = i
    BY <1>2, OrderFacts, ProcFacts, MessageFacts DEF IInv, TypeOK, Msg
  <1> HIDE DEF m
  <1>6. \A x, y \in Procs :
          chan'[x][y] = IF x = Parent /\ y = Src(i)
                        THEN Append(chan[Parent][Src(i)], m) ELSE chan[x][y]
    BY <1>1, <1>5, SendAt
  <1>7. ASSUME NEW k \in Orders
        PROVE  Requests(k)' = Requests(k) + (IF k = i THEN 1 ELSE 0)
    <2> DEFINE c == chan[Parent][Src(k)]
    <2>1. /\ c \in Seq(Message)
          /\ Requests(k) = CopiesOf(k, c) /\ Requests(k) \in Nat
          /\ Requests(k)' = CopiesOf(k, chan'[Parent][Src(k)])
          /\ Src(k) \in Procs
      BY <1>5, CopiesAre, OrderFacts
    <2>2. CASE Src(k) = Src(i)
      <3>1. chan'[Parent][Src(k)] = Append(c, m)
        BY <1>5, <1>6, <2>2
      <3> HIDE DEF c
      <3>2. CopiesOf(k, Append(c, m)) =
              CopiesOf(k, c) + (IF m = Msg("TRANSFER", k) THEN 1 ELSE 0)
        BY <1>5, <2>1, CopiesChange
      <3> QED
        BY <1>5, <2>1, <3>1, <3>2
    <2>3. CASE Src(k) # Src(i)
      <3>1. chan'[Parent][Src(k)] = c /\ k # i
        BY <1>5, <1>6, <2>1, <2>3
      <3> QED
        BY <2>1, <3>1
    <2> QED
      BY <2>2, <2>3
  <1>8. /\ \A a \in Accounts, q \in Procs : chan'[a][q] = chan[a][q]
        /\ \A a \in Accounts \ {Src(i)} : chan'[Parent][a] = chan[Parent][a]
        /\ chan'[Parent][Src(i)] = Append(chan[Parent][Src(i)], m)
    BY <1>5, <1>6
  <1> QED
    BY <1>2, <1>3, <1>4, <1>7, <1>8 DEF i, m

\* Of an order that is answered nothing else is on its way.
LEMMA Settled ==
  ASSUME NEW requests \in Nat, NEW forwards \in Nat, NEW replies \in Nat \ {0},
         NEW debits \in Nat, NEW credits \in Nat,
         Balanced(TRUE, requests, forwards, replies, debits, credits)
  PROVE  /\ replies = 1 /\ requests = 0 /\ forwards = 0
         /\ debits = 1 /\ credits = 1
  BY DEF Balanced

\* The answer that the worker receives is the only one there is: the ACK of
\* its order, which was debited and credited.
LEMMA AckEffect ==
  ASSUME LocalWorkload, IInv, ChannelInv, LocalInv, NEW s \in Shards, LocalAck(s)
  PROVE  LET i == task[s].order IN
         /\ i \in Orders
         /\ Held(i)
         /\ debited[i] = 1 /\ credited[i] = 1
         /\ Requests(i) = 0 /\ Forwards(i) = 0
         /\ Oldest(Dst(i), Parent).type = "ACK"
         /\ chan'[Dst(i)][Parent] = << >>
         /\ \A x, y \in Procs :
              ~ (x = Dst(i) /\ y = Parent) => chan'[x][y] = chan[x][y]
  <1> DEFINE i == task[s].order
             c == chan[Dst(i)][Parent]
  <1>1. /\ worker_pc[s] = "local_ack"
        /\ c # << >>
        /\ chan' = Receive(chan, Dst(i), Parent)
    BY DEF LocalAck, WorkerAt, HasMessage
  <1>2. /\ i \in Orders /\ GetShardId(Src(i)) = s /\ Serving
        /\ Dst(i) \in Accounts /\ Dst(i) \in Procs /\ Parent \in Procs
        /\ chan \in Channels
    BY <1>1, ServedOrder, OrderFacts, ProcFacts DEF IInv, TypeOK
  <1>3. Held(i)
    BY <1>1, <1>2 DEF Held, Waiting
  <1>4. c \in Seq(Message) /\ \A j \in 1 .. Len(c) : c[j].type # "STARTED"
    BY <1>2, ServingFacts DEF Serving
  <1>5. AnswersIn(c, Answered(Dst(i)))
    BY <1>2 DEF LocalInv, AnswersInv, Serving
  <1>6. \A x, y \in Procs :
          chan'[x][y] = IF x = Dst(i) /\ y = Parent THEN Tail(c) ELSE chan[x][y]
    BY <1>1, <1>2, ReceiveAt
  <1>7. Replies(i) = Len(c)
    BY DEF Replies
  <1>8. Oldest(Dst(i), Parent) = Head(c)
    BY DEF Oldest
  <1> HIDE DEF c, i
  <1>9. /\ Len(c) \in Nat \ {0}
        /\ Head(c) = c[1]
        /\ Len(c) = 1 => Tail(c) = << >>
    BY <1>1, <1>4, TakeHeadFacts
  <1>10. Head(c).type = "ACK"
    BY <1>4, <1>5, <1>9 DEF AnswersIn
  <1>11. /\ Requests(i) \in Nat /\ Forwards(i) \in Nat
         /\ debited[i] \in Nat /\ credited[i] \in Nat
    BY <1>2, OrderNumbers
  <1>12. Balanced(TRUE, Requests(i), Forwards(i), Len(c), debited[i], credited[i])
    BY <1>2, <1>3, <1>7 DEF LocalInv, OrderInv, Balanced
  <1>13. /\ Len(c) = 1 /\ Requests(i) = 0 /\ Forwards(i) = 0
         /\ debited[i] = 1 /\ credited[i] = 1
    BY <1>9, <1>11, <1>12, Settled
  <1> QED
    BY <1>2, <1>3, <1>6, <1>8, <1>9, <1>10, <1>13 DEF i

LEMMA OrdersWorker ==
  ASSUME LocalWorkload, IInv, IInv', ChannelInv, RequestedOnce, LocalInv,
         NEW s \in Shards, Worker(s)
  PROVE  OrderInv'
  <1> DEFINE i == task[s].order
  <1>0. UNCHANGED <<debited, credited>>
    BY DEF Worker, childVars
  <1> SUFFICES ASSUME NEW k \in Orders
               PROVE  Balanced(Held(k)', Requests(k)', Forwards(k)', Replies(k)',
                               debited[k], credited[k])
    BY <1>0 DEF OrderInv, Balanced
  <1> DEFINE Goal == Balanced(Held(k)', Requests(k)', Forwards(k)', Replies(k)',
                              debited[k], credited[k])
  <1> SUFFICES Goal
    OBVIOUS
  <1>1. /\ Requests(k) \in Nat /\ Forwards(k) \in Nat /\ Replies(k) \in Nat
        /\ debited[k] \in Nat /\ credited[k] \in Nat
        /\ Dst(k) \in Accounts /\ Dst(k) \in Procs
        /\ Src(k) \in Accounts /\ Src(k) \in Procs
        /\ Parent \in Procs /\ Src(k) # Parent
        /\ Held(k) \in BOOLEAN
    BY OrderNumbers, ProcFacts
  <1>2. Balanced(Held(k), Requests(k), Forwards(k), Replies(k), debited[k], credited[k])
    BY DEF LocalInv, OrderInv
  <1>3. PoolLocal
    BY DEF LocalInv
  <1>4. CASE WorkerTake(s) \/ WorkerExit(s)
    <2>1. UNCHANGED chan
      BY <1>4 DEF WorkerTake, WorkerExit
    <2>2. /\ Requests(k)' = Requests(k) /\ Forwards(k)' = Forwards(k)
          /\ Replies(k)' = Replies(k)
      BY <2>1 DEF Requests, Forwards, Replies, MessagesOf
    <2>3. Held(k)' <=> Held(k)
      BY <1>3, <1>4, HeldByWorker
    <2> QED
      BY <1>2, <2>2, <2>3 DEF Balanced
  <1>5. CASE LocalSend(s)
    <2>1. /\ i \in Orders
          /\ debited[i] = 0
          /\ Replies(i) = 0
          /\ Requests(k)' = Requests(k) + (IF k = i THEN 1 ELSE 0)
          /\ chan'[Src(k)][Dst(k)] = chan[Src(k)][Dst(k)]
          /\ chan'[Dst(k)][Parent] = chan[Dst(k)][Parent]
      BY <1>1, <1>5, SendEffect
    <2>2. Forwards(k)' = Forwards(k) /\ Replies(k)' = Replies(k)
      BY <2>1, CopiesAre DEF Replies
    <2>3. GetShardId(Src(i)) = s
      BY <1>5, ServedOrder DEF LocalSend, WorkerAt
    <2>4. /\ k = i => ~ Held(k)
          /\ Held(k)' <=> Held(k) \/ k = i
      BY <1>3, <1>5, <2>3, HeldByWorker
    <2> HIDE DEF i
    <2>5. CASE k = i
      <3>1. ~ Held(k) /\ Held(k)'
        BY <2>4, <2>5
      <3>2. /\ Requests(k)' = Requests(k) + 1
            /\ Forwards(k)' = Forwards(k)
            /\ Replies(k)' = 0
            /\ debited[k] = 0
        BY <2>1, <2>2, <2>5
      <3> QED
        BY <1>1, <1>2, <3>1, <3>2 DEF Balanced
    <2>6. CASE k # i
      <3>1. Held(k)' <=> Held(k)
        BY <2>4, <2>6
      <3>2. Requests(k)' = Requests(k)
        BY <1>1, <2>1, <2>6
      <3> QED
        BY <1>2, <2>2, <3>1, <3>2 DEF Balanced
    <2> QED
      BY <2>5, <2>6
  <1>6. CASE LocalAck(s)
    <2>1. /\ i \in Orders
          /\ Held(i)
          /\ Requests(i) = 0 /\ Forwards(i) = 0
          /\ chan'[Src(k)][Dst(k)] = chan[Src(k)][Dst(k)]
          /\ chan'[Parent][Src(k)] = chan[Parent][Src(k)]
          /\ Dst(k) # Dst(i) => chan'[Dst(k)][Parent] = chan[Dst(k)][Parent]
      <3>1. Dst(k) # Parent
        BY <1>1, ProcFacts
      <3> QED
        BY <1>1, <1>6, <3>1, AckEffect
    <2>2. Held(k)' <=> Held(k) /\ k # i
      BY <1>3, <1>6, HeldByWorker
    <2>3. Requests(k)' = Requests(k) /\ Forwards(k)' = Forwards(k)
      BY <2>1, CopiesAre
    <2>4. Held(k) /\ k # i => Replies(k)' = Replies(k)
      <3>1. Held(k) /\ k # i => Dst(k) # Dst(i)
        BY <2>1, HeldAlone
      <3> QED
        BY <2>1, <3>1 DEF Replies
    <2> HIDE DEF i
    <2>5. CASE k = i
      <3>1. ~ Held(k)'
        BY <2>2, <2>5
      <3> QED
        BY <1>2, <2>1, <2>3, <2>5, <3>1 DEF Balanced
    <2>6. CASE k # i
      <3>1. Held(k)' <=> Held(k)
        BY <2>2, <2>6
      <3>2. Held(k) => Replies(k)' = Replies(k)
        BY <2>4, <2>6
      <3> QED
        BY <1>2, <2>3, <3>1, <3>2 DEF Balanced
    <2> QED
      BY <2>5, <2>6
  <1> QED
    BY <1>3, <1>4, <1>5, <1>6, LocalSteps

LEMMA AnswersWorker ==
  ASSUME LocalWorkload, IInv, IInv', ChannelInv, RequestedOnce, LocalInv,
         NEW s \in Shards, Worker(s)
  PROVE  AnswersInv'
  <1>0. AfterStop' <=> AfterStop
    BY DEF Worker, mainVars, AfterStop
  <1> SUFFICES ASSUME ~ AfterStop, NEW d \in Accounts
               PROVE  AnswersIn(chan'[d][Parent], Answered(d)')
    BY <1>0 DEF AnswersInv, AnswersIn
  <1>1. AnswersIn(chan[d][Parent], Answered(d))
    BY DEF LocalInv, AnswersInv
  <1>2. PoolLocal /\ d \in Procs /\ Parent \in Procs
    BY ProcFacts DEF LocalInv
  <1>3. ASSUME chan'[d][Parent] = chan[d][Parent], Answered(d) => Answered(d)'
        PROVE  AnswersIn(chan'[d][Parent], Answered(d)')
    BY <1>1, <1>3 DEF AnswersIn
  <1>4. CASE WorkerTake(s) \/ WorkerExit(s)
    <2>1. UNCHANGED chan
      BY <1>4 DEF WorkerTake, WorkerExit
    <2>2. \A k \in Orders : Held(k)' <=> Held(k)
      BY <1>2, <1>4, HeldByWorker
    <2>3. Answered(d) => Answered(d)'
      BY <2>2 DEF Answered
    <2> QED
      BY <1>3, <2>1, <2>3
  <1>5. CASE LocalSend(s)
    <2>1. chan'[d][Parent] = chan[d][Parent]
      BY <1>2, <1>5, SendEffect
    <2>2. \A k \in Orders : Held(k) => Held(k)'
      BY <1>2, <1>5, HeldByWorker
    <2>3. Answered(d) => Answered(d)'
      BY <2>2 DEF Answered
    <2> QED
      BY <1>3, <2>1, <2>3
  <1>6. CASE LocalAck(s)
    <2> DEFINE i == task[s].order
    <2>1. /\ d = Dst(i) => chan'[d][Parent] = << >>
          /\ d # Dst(i) => chan'[d][Parent] = chan[d][Parent]
      BY <1>2, <1>6, AckEffect
    <2>2. \A k \in Orders : Held(k)' <=> Held(k) /\ k # i
      BY <1>2, <1>6, HeldByWorker
    <2>3. d # Dst(i) /\ Answered(d) => Answered(d)'
      BY <2>2 DEF Answered
    <2>4. CASE d = Dst(i)
      <3>1. Len(chan'[d][Parent]) = 0
        BY <2>1, <2>4, EmptySeq
      <3> QED
        BY <3>1 DEF AnswersIn
    <2>5. CASE d # Dst(i)
      BY <1>3, <2>1, <2>3, <2>5
    <2> QED
      BY <2>4, <2>5
  <1> QED
    BY <1>2, <1>4, <1>5, <1>6, LocalSteps

LEMMA SourceOnlyWorker ==
  ASSUME LocalWorkload, IInv, IInv', ChannelInv, RequestedOnce, LocalInv,
         NEW s \in Shards, Worker(s)
  PROVE  SourceOnly'
  <1>1. PoolLocal /\ SourceOnly /\ Parent \in Procs
        /\ \A a \in Accounts : a \in Procs /\ a # Parent
    BY ProcFacts DEF LocalInv
  <1>2. CASE WorkerTake(s) \/ WorkerExit(s)
    <2>1. UNCHANGED chan
      BY <1>2 DEF WorkerTake, WorkerExit
    <2> QED
      BY <1>1, <2>1 DEF SourceOnly
  <1>3. CASE LocalAck(s)
    <2>1. \A a \in Accounts : chan'[Parent][a] = chan[Parent][a]
      BY <1>1, <1>3, AckEffect, OrderFacts
    <2> QED
      BY <1>1, <2>1 DEF SourceOnly
  <1>4. CASE LocalSend(s)
    <2> DEFINE i == task[s].order
    <2>1. /\ i \in Orders
          /\ \A a \in Accounts \ {Src(i)} : chan'[Parent][a] = chan[Parent][a]
          /\ chan'[Parent][Src(i)] = Append(chan[Parent][Src(i)], Msg("TRANSFER", i))
      BY <1>4, SendEffect
    <2> HIDE DEF i
    <2> SUFFICES ASSUME NEW a \in Accounts, NEW j \in 1 .. Len(chan'[Parent][a]),
                        chan'[Parent][a][j].type = "TRANSFER"
                 PROVE  Src(chan'[Parent][a][j].val) = a
      BY DEF SourceOnly
    <2>2. CASE a # Src(i)
      <3>1. chan'[Parent][a] = chan[Parent][a]
        BY <2>1, <2>2
      <3> QED
        BY <1>1, <3>1 DEF SourceOnly
    <2>3. CASE a = Src(i)
      <3> DEFINE c == chan[Parent][a]
                 m == Msg("TRANSFER", i)
      <3>1. /\ c \in Seq(Message) /\ m \in Message /\ m.val = i
            /\ chan'[Parent][a] = Append(c, m)
        BY <1>1, <2>1, <2>3, ChannelType, MessageFacts DEF IInv, TypeOK, Msg
      <3>2. \A l \in 1 .. Len(c) : c[l].type = "TRANSFER" => Src(c[l].val) = a
        BY <1>1 DEF SourceOnly
      <3> HIDE DEF c, m
      <3>3. /\ Len(c) \in Nat
            /\ Len(Append(c, m)) = Len(c) + 1
            /\ \A l \in 1 .. Len(c) : Append(c, m)[l] = c[l]
            /\ Append(c, m)[Len(c) + 1] = m
        BY <3>1, AppendFacts
      <3>4. j \in 1 .. Len(c) \/ j = Len(c) + 1
        BY <3>1, <3>3
      <3> QED
        BY <2>3, <3>1, <3>2, <3>3, <3>4
    <2> QED
      BY <2>2, <2>3
  <1> QED
    BY <1>1, <1>2, <1>3, <1>4, LocalSteps

-----------------------------------------------------------------------------
(***************************************************************************)
(* The steps of the main thread.                                           *)
(***************************************************************************)
\* It sends and receives only while no worker waits, and changes no worker.
LEMMA HeldByMain ==
  ASSUME IInv, MainStep
  PROVE  /\ \A i : Held(i)' <=> Held(i)
         /\ \A d : Answered(d)' <=> Answered(d)
         /\ chan' # chan => \A i \in Orders : ~ Held(i)
  <1>1. UNCHANGED <<worker_pc, task>>
    BY DEF MainStep, Phase1WaitStartup, Phase2Submit, SubmitTransfer,
           WaitAllComplete, DestroyContexts, StopShard, JoinShard, Phase3Stop,
           Phase3WaitDone, Phase4CollectHistory, poolVars
  <1>2. (\A i : Held(i)' <=> Held(i)) /\ (\A d : Answered(d)' <=> Answered(d))
    BY <1>1 DEF Held, Waiting, Answered
  <1>3. ASSUME chan' # chan, NEW i \in Orders PROVE ~ Held(i)
    <2>1. main_pc \in {"phase1", "phase3_stop", "phase3", "phase4"}
      BY <1>3 DEF MainStep, Phase1WaitStartup, Phase2Submit, SubmitTransfer,
                  WaitAllComplete, DestroyContexts, StopShard, JoinShard,
                  Phase3Stop, Phase3WaitDone, Phase4CollectHistory, MainAt
    <2>2. GetShardId(Src(i)) \in Shards
      BY OrderFacts, ShardFacts
    <2> QED
      BY <2>1, <2>2 DEF IInv, PhaseInv, Held, Waiting
  <1> QED
    BY <1>2, <1>3

\* What it does to the channels: it takes what an account told it, or sends
\* STOP.
LEMMA MainChannels ==
  ASSUME IInv, MainStep
  PROVE  \/ chan' = chan
         \/ /\ cursor \in Accounts
            /\ chan[cursor][Parent] # << >>
            /\ \A x, y \in Procs :
                 chan'[x][y] = IF x = cursor /\ y = Parent
                               THEN Tail(chan[x][y]) ELSE chan[x][y]
         \/ /\ AfterStop'
            /\ \A x, y \in Procs :
                 chan'[x][y] = IF x = Parent /\ y # Parent
                               THEN Append(chan[x][y], Msg("STOP", 0))
                               ELSE chan[x][y]
  <1>0. chan \in Channels /\ Parent \in Procs
    BY ProcFacts DEF IInv, TypeOK
  <1>1. CASE Phase1WaitStartup \/ Phase3WaitDone \/ Phase4CollectHistory
    <2>1. /\ cursor \in Accounts
          /\ chan[cursor][Parent] # << >>
          /\ chan' = Receive(chan, cursor, Parent)
      BY <1>1, MainReceive
    <2>2. cursor \in Procs
      BY <2>1, ProcFacts
    <2>3. \A x, y \in Procs :
            chan'[x][y] = IF x = cursor /\ y = Parent
                          THEN Tail(chan[x][y]) ELSE chan[x][y]
      BY <1>0, <2>1, <2>2, ReceiveAt
    <2> QED
      BY <2>1, <2>3
  <1>2. CASE Phase3Stop
    <2>1. /\ AfterStop'
          /\ chan' = SendMulticast(chan, Parent, Msg("STOP", 0))
      BY <1>2 DEF Phase3Stop, AfterStop
    <2>2. \A x, y \in Procs :
            chan'[x][y] = IF x = Parent /\ y # Parent
                          THEN Append(chan[x][y], Msg("STOP", 0))
                          ELSE chan[x][y]
      BY <1>0, <2>1, MulticastAt
    <2> QED
      BY <2>1, <2>2
  <1>3. CASE \/ Phase2Submit \/ WaitAllComplete \/ DestroyContexts
             \/ StopShard \/ JoinShard
    BY <1>3 DEF Phase2Submit, SubmitTransfer, WaitAllComplete, DestroyContexts,
                StopShard, JoinShard
  <1> QED
    BY <1>1, <1>2, <1>3 DEF MainStep

LEMMA OrdersMain ==
  ASSUME LocalWorkload, IInv, IInv', LocalInv, MainStep, UNCHANGED childVars
  PROVE  OrderInv'
  <1>0. UNCHANGED <<debited, credited>>
    BY DEF childVars
  <1> SUFFICES ASSUME NEW k \in Orders
               PROVE  Balanced(Held(k), Requests(k)', Forwards(k)', Replies(k)',
                               debited[k], credited[k])
    BY <1>0, HeldByMain DEF OrderInv, Balanced
  <1> DEFINE Goal == Balanced(Held(k), Requests(k)', Forwards(k)', Replies(k)',
                              debited[k], credited[k])
  <1> SUFFICES Goal
    OBVIOUS
  <1>1. Balanced(Held(k), Requests(k), Forwards(k), Replies(k), debited[k], credited[k])
    BY DEF LocalInv, OrderInv
  <1>2. CASE chan' = chan
    <2>1. /\ Requests(k)' = Requests(k) /\ Forwards(k)' = Forwards(k)
          /\ Replies(k)' = Replies(k)
      BY <1>2 DEF Requests, Forwards, Replies, MessagesOf
    <2> QED
      BY <1>1, <2>1 DEF Balanced
  <1>3. CASE chan' # chan
    <2>1. ~ Held(k)
      BY <1>3, HeldByMain
    <2>2. /\ Src(k) \in Procs /\ Src(k) # Parent
          /\ Dst(k) \in Procs /\ Dst(k) # Parent
          /\ Parent \in Procs /\ chan \in Channels
      BY OrderFacts, ProcFacts DEF IInv, TypeOK
    <2>3. chan'[Src(k)][Dst(k)] = chan[Src(k)][Dst(k)]
      BY <1>3, <2>2, MainChannels
    <2>4. Forwards(k)' = Forwards(k)
      BY <2>3, CopiesAre
    <2>5. Requests(k)' = Requests(k)
      <3> DEFINE c == chan[Parent][Src(k)]
                 m == Msg("STOP", 0)
      <3>1. /\ c \in Seq(Message) /\ m \in Message
            /\ m.type # "TRANSFER"
            /\ Requests(k) = CopiesOf(k, c)
            /\ Requests(k)' = CopiesOf(k, chan'[Parent][Src(k)])
        BY <2>2, ChannelType, MessageFacts, CopiesAre DEF Msg
      <3>2. chan'[Parent][Src(k)] = c \/ chan'[Parent][Src(k)] = Append(c, m)
        <4>1. cursor \in Accounts => cursor # Parent
          BY ProcFacts
        <4> QED
          BY <1>3, <2>2, <4>1, MainChannels
      <3> HIDE DEF c, m
      <3>3. Passes(c, chan'[Parent][Src(k)])
        BY <3>1, <3>2 DEF Passes
      <3>4. CopiesOf(k, chan'[Parent][Src(k)]) = CopiesOf(k, c)
        BY <3>1, <3>3, CopiesPass
      <3> QED
        BY <3>1, <3>4
    <2> QED
      BY <1>1, <2>1, <2>4, <2>5 DEF Balanced
  <1> QED
    BY <1>2, <1>3

LEMMA AnswersMain ==
  ASSUME IInv, IInv', LocalInv, MainStep
  PROVE  AnswersInv'
  <1> SUFFICES ASSUME ~ AfterStop', NEW d \in Accounts
               PROVE  AnswersIn(chan'[d][Parent], Answered(d))
    BY HeldByMain DEF AnswersInv, AnswersIn
  <1> DEFINE c == chan[d][Parent]
             Goal == AnswersIn(chan'[d][Parent], Answered(d))
  <1> SUFFICES Goal
    OBVIOUS
  <1>1. ~ AfterStop
    BY DEF AfterStop, MainStep, Phase1WaitStartup, Phase2Submit, WaitAllComplete,
           DestroyContexts, StopShard, JoinShard, Phase3Stop, Phase3WaitDone,
           Phase4CollectHistory, MainAt, Iterate
  <1>2. /\ d \in Procs /\ Parent \in Procs
        /\ c \in Seq(Message) /\ Answered(d) \in BOOLEAN
    BY ProcFacts, ChannelType DEF IInv, TypeOK, Answered
  <1>3. AnswersIn(c, Answered(d))
    BY <1>1 DEF LocalInv, AnswersInv
  <1>4. chan'[d][Parent] = c \/ (c # << >> /\ chan'[d][Parent] = Tail(c))
    BY <1>2, MainChannels
  <1>5. c # << >> => AnswersIn(Tail(c), Answered(d))
    BY <1>2, <1>3, AnswersTail
  <1> QED
    BY <1>3, <1>4, <1>5

LEMMA SourceOnlyMain ==
  ASSUME IInv, IInv', LocalInv, MainStep
  PROVE  SourceOnly'
  <1> SUFFICES ASSUME NEW a \in Accounts, NEW j \in 1 .. Len(chan'[Parent][a]),
                      chan'[Parent][a][j].type = "TRANSFER"
               PROVE  Src(chan'[Parent][a][j].val) = a
    BY DEF SourceOnly
  <1> DEFINE c == chan[Parent][a]
             m == Msg("STOP", 0)
  <1>1. /\ a \in Procs /\ a # Parent /\ Parent \in Procs
        /\ c \in Seq(Message) /\ m \in Message /\ m.type # "TRANSFER"
        /\ cursor \in Accounts => cursor # Parent
    BY ProcFacts, ChannelType, MessageFacts DEF IInv, TypeOK, Msg
  <1>2. \A k \in 1 .. Len(c) : c[k].type = "TRANSFER" => Src(c[k].val) = a
    BY DEF LocalInv, SourceOnly
  <1>3. chan'[Parent][a] = c \/ chan'[Parent][a] = Append(c, m)
    BY <1>1, MainChannels
  <1> HIDE DEF c, m
  <1>4. /\ Len(c) \in Nat
        /\ Len(Append(c, m)) = Len(c) + 1
        /\ \A k \in 1 .. Len(c) : Append(c, m)[k] = c[k]
        /\ Append(c, m)[Len(c) + 1] = m
    BY <1>1, AppendFacts
  <1>5. CASE chan'[Parent][a] = c
    BY <1>2, <1>5
  <1>6. CASE chan'[Parent][a] = Append(c, m)
    <2>1. j \in 1 .. Len(c) \/ j = Len(c) + 1
      BY <1>4, <1>6
    <2> QED
      BY <1>1, <1>2, <1>4, <1>6, <2>1
  <1> QED
    BY <1>3, <1>5, <1>6

-----------------------------------------------------------------------------
(***************************************************************************)
(* The invariant, and what follows from it.                                *)
(***************************************************************************)
LEMMA LocalInitial ==
  ASSUME LocalWorkload, Init, IInv
  PROVE  LocalInv
  <1>1. /\ \A x, y \in Procs : chan[x][y] = << >>
        /\ \A i \in Orders : debited[i] = 0 /\ credited[i] = 0
        /\ \A s \in Shards : worker_pc[s] = "wait"
        /\ Parent \in Procs /\ \A a \in Accounts : a \in Procs
        /\ Len(<< >>) = 0
    BY ProcFacts, EmptySeq DEF Init, NetworkInit, ChildInit, PoolInit
  <1>2. SourceOnly /\ AnswersInv
    BY <1>1 DEF SourceOnly, AnswersInv, AnswersIn
  <1>3. ASSUME NEW k \in Orders
        PROVE  Balanced(Held(k), Requests(k), Forwards(k), Replies(k),
                        debited[k], credited[k])
    <2>1. /\ Src(k) \in Procs /\ Dst(k) \in Procs /\ GetShardId(Src(k)) \in Shards
      BY OrderFacts, ProcFacts, ShardFacts
    <2>2. /\ MessagesOf(k, Parent, Src(k)) = HowMany(<< >>, {Msg("TRANSFER", k)})
          /\ MessagesOf(k, Src(k), Dst(k)) = HowMany(<< >>, {Msg("TRANSFER", k)})
      <3>1. << >> \in Seq(Message)
        BY EmptySeq
      <3> QED
        BY <1>1, <2>1, <3>1, MessageCount DEF MessagesOf
    <2>3. Requests(k) = 0 /\ Forwards(k) = 0
      BY <2>2, HowManyEmpty DEF Requests, Forwards
    <2>4. ~ Held(k)
      BY <1>1, <2>1 DEF Held, Waiting
    <2> QED
      BY <1>1, <2>3, <2>4 DEF Balanced
  <1> QED
    BY <1>2, <1>3, PoolLocalInductive DEF LocalInv, OrderInv

LEMMA LocalInductive ==
  ASSUME LocalWorkload
  PROVE  IInv /\ IInv' /\ ChannelInv /\ RequestedOnce /\ LocalInv /\ [Next]_vars
           => LocalInv'
  <1> SUFFICES ASSUME IInv, IInv', ChannelInv, RequestedOnce, LocalInv, [Next]_vars
               PROVE  LocalInv'
    OBVIOUS
  <1>1. PoolLocal'
    BY PoolLocalInductive DEF LocalInv
  <1>2. CASE Main
    BY <1>1, <1>2, OrdersMain, AnswersMain, SourceOnlyMain DEF Main, LocalInv
  <1>3. ASSUME NEW s \in Shards, Worker(s) PROVE LocalInv'
    BY <1>1, <1>3, OrdersWorker, AnswersWorker, SourceOnlyWorker DEF LocalInv
  <1>4. ASSUME NEW a \in Accounts, Account(a) PROVE LocalInv'
    BY <1>1, <1>4, OrdersAccount, AnswersAccount, SourceOnlyAccount DEF LocalInv
  <1>5. CASE UNCHANGED vars
    <2>1. SourceOnly' /\ AnswersInv'
      BY <1>5 DEF vars, parentVars, poolVars, mainVars, LocalInv, SourceOnly,
                  AnswersInv, AfterStop, Answered, Held, Waiting
    <2>2. OrderInv'
      BY <1>5 DEF vars, parentVars, poolVars, childVars, LocalInv, OrderInv,
                  Held, Waiting, Requests, Forwards, Replies, MessagesOf
    <2> QED
      BY <1>1, <2>1, <2>2 DEF LocalInv
  <1> QED
    BY <1>2, <1>3, <1>4, <1>5 DEF Next, Terminated

\* While the worker of its shard waits for the ACK of an order there is exactly
\* one message of it, the request, the debit or the ACK, and otherwise none
\* (account_shard.cpp:100-133, child_worker.cpp:143-178).
THEOREM LocalInvariance ==
  ASSUME LocalWorkload
  PROVE  Spec => []LocalInv
  <1>1. IInv /\ Init => LocalInv
    BY LocalInitial
  <1>2. IInv /\ IInv' /\ ChannelInv /\ RequestedOnce /\ LocalInv /\ [Next]_vars
          => LocalInv'
    BY LocalInductive
  <1> QED
    BY <1>1, <1>2, Invariance, ChannelInvariance, RequestedExactlyOnce, PTL
    DEF Spec

-----------------------------------------------------------------------------
(***************************************************************************)
(* What follows from the invariant.                                        *)
(***************************************************************************)
\* How far an order can be.
LEMMA OrderProgress ==
  ASSUME LocalWorkload, IInv, RequestedOnce, OrderInv, NEW i \in Orders
  PROVE  /\ debited[i] \in {0, 1} /\ credited[i] \in {0, 1}
         /\ Requests(i) \in Nat /\ Forwards(i) \in Nat
         /\ debited[i] = Forwards(i) + credited[i]
         /\ Requests(i) + debited[i] <= 1
         /\ ~ Held(i) => Requests(i) = 0 /\ Forwards(i) = 0
  <1>1. /\ Requests(i) \in Nat /\ Forwards(i) \in Nat
        /\ debited[i] \in Nat /\ credited[i] \in Nat
    BY OrderNumbers
  <1>2. QueuedRequests(i) \in Nat /\ RunningRequests(i) \in Nat
    BY RequestType
  <1>3. QueuedRequests(i) + RunningRequests(i) + Requests(i) + debited[i] <= 1
    BY DEF RequestedOnce, Requests
  <1>4. Requests(i) + debited[i] <= 1
    BY <1>1, <1>2, <1>3
  <1>5. /\ debited[i] = Forwards(i) + credited[i]
        /\ ~ Held(i) => Requests(i) = 0 /\ Forwards(i) = 0
    BY DEF OrderInv, Balanced
  <1>6. debited[i] \in {0, 1} /\ credited[i] \in {0, 1}
    BY <1>1, <1>4, <1>5
  <1> QED
    BY <1>1, <1>4, <1>5, <1>6

\* What was debited is on its way to the destination or was credited there
\* (child_worker.cpp:143-178): no debit is lost, none is credited twice.
THEOREM ForwardedExactlyOnce ==
  ASSUME LocalWorkload
  PROVE  Spec => []ForwardedOnce
  <1>1. LocalInv => ForwardedOnce
    BY DEF LocalInv, OrderInv, Balanced, ForwardedOnce, Forwards
  <1> QED
    BY <1>1, LocalInvariance, PTL

\* The destination credits no order twice (banking.h:16-21).
THEOREM NoDoubleCredit ==
  ASSUME LocalWorkload
  PROVE  Spec => []CreditedOnce
  <1>1. IInv /\ RequestedOnce /\ LocalInv => CreditedOnce
    BY OrderProgress DEF LocalInv, CreditedOnce
  <1> QED
    BY <1>1, Invariance, RequestedExactlyOnce, LocalInvariance, PTL

\* Every order was credited by the time the manager is gone: STOP overtakes
\* none of them (parent_controller.cpp:40-55).
THEOREM AllSettled ==
  ASSUME LocalWorkload
  PROVE  Spec => []SettledBeforeStop
  <1>1. IInv /\ RequestedOnce /\ DestroyedMeansRequested /\ LocalInv
          => SettledBeforeStop
    <2> SUFFICES ASSUME IInv, RequestedOnce, DestroyedMeansRequested, LocalInv,
                        main_pc \in {"phase3_stop", "phase3", "phase4", "finished"},
                        NEW i \in Orders
                 PROVE  credited[i] = 1
      BY DEF SettledBeforeStop
    <2>1. GetShardId(Src(i)) \in Shards
      BY OrderFacts, ShardFacts
    <2>2. ~ Held(i)
      BY <2>1 DEF IInv, PhaseInv, Held, Waiting
    <2>3. debited[i] + Requests(i) = 1
      BY DEF DestroyedMeansRequested, Requests
    <2>4. /\ Requests(i) = 0 /\ Forwards(i) = 0
          /\ debited[i] = Forwards(i) + credited[i]
          /\ debited[i] \in {0, 1} /\ credited[i] \in {0, 1}
      BY <2>2, OrderProgress DEF LocalInv
    <2> QED
      BY <2>3, <2>4
  <1> QED
    BY <1>1, Invariance, RequestedExactlyOnce, NoneAbandoned, LocalInvariance, PTL

\* No TRANSFER is left for an account that has left its message loop, which
\* would receive and drop it (child_worker.cpp:113-133).
THEOREM NoneDropped ==
  ASSUME LocalWorkload
  PROVE  Spec => []NoTransferDropped
  <1>1. IInv /\ ChannelInv /\ LocalInv => NoTransferDropped
    <2> SUFFICES ASSUME IInv, ChannelInv, LocalInv,
                        NEW a \in Accounts, Stopped(a),
                        NEW p \in Procs, NEW i \in Orders
                 PROVE  MessagesOf(i, p, a) = 0
      BY DEF NoTransferDropped, Stopped
    <2> DEFINE c == chan[p][a]
    <2>1. /\ a \in Procs
          /\ c \in Seq(Carries(p, a)) /\ c \in Seq(Message)
      BY ProcFacts, ChannelType DEF IInv, TypeOK, ChannelInv, KindInv, Kinds
    <2>2. \A j \in 1 .. Len(c) : c[j].type # "TRANSFER"
      <3>1. CASE p = a
        <4>1. a # Parent
          BY ProcFacts
        <4>2. ASSUME NEW j \in 1 .. Len(c), c[j].type = "TRANSFER" PROVE FALSE
          <5>1. c[j] \in Carries(p, a)
            BY <2>1, <4>2, ElementOfSeq
          <5>2. c[j].val \in Orders /\ a = Src(c[j].val) /\ a = Dst(c[j].val)
            BY <3>1, <4>1, <4>2, <5>1, MessageFacts DEF Carries
          <5> QED
            BY <5>2, OrderEnds
        <4> QED
          BY <4>2
      <3>2. CASE p # a
        BY <3>2, NothingForStopped
      <3> QED
        BY <3>1, <3>2
    <2>3. MessagesOf(i, p, a) = CopiesOf(i, c)
      BY <2>1, MessageCount DEF MessagesOf, CopiesOf
    <2> HIDE DEF c
    <2>4. CopiesOf(i, c) = 0
      <3>1. \A j \in 1 .. Len(c) : c[j] # Msg("TRANSFER", i)
        BY <2>2 DEF Msg
      <3> QED
        BY <2>1, <3>1, CopiesFacts
    <2> QED
      BY <2>3, <2>4
  <1> QED
    BY <1>1, Invariance, ChannelInvariance, LocalInvariance, PTL

\* A transfer that a worker counts as a success was credited
\* (account_shard.cpp:113-115).
THEOREM SuccessIsCredited ==
  ASSUME LocalWorkload
  PROVE  Spec => SuccessMeansCredited
  <1> DEFINE Honest ==
        \A s \in Shards :
          /\ local_transfers'[s] # local_transfers[s] => credited[task[s].order] > 0
          /\ cross_shard_transfers'[s] # cross_shard_transfers[s] =>
               credited[task[s].order] > 0
  <1>1. IInv /\ ChannelInv /\ LocalInv /\ [Next]_vars => [Honest]_vars
    <2> SUFFICES ASSUME IInv, ChannelInv, LocalInv, Next PROVE Honest
      OBVIOUS
    <2>1. ASSUME UNCHANGED <<local_transfers, cross_shard_transfers>> PROVE Honest
      BY <2>1
    <2>2. ASSUME NEW s \in Shards, Worker(s) PROVE Honest
      <3>1. CASE LocalAck(s)
        <4>1. credited[task[s].order] = 1
          BY <3>1, AckEffect
        <4>2. UNCHANGED cross_shard_transfers
          BY <3>1 DEF LocalAck
        <4>3. \A r \in Shards \ {s} : local_transfers'[r] = local_transfers[r]
          BY <3>1 DEF LocalAck, Count, IInv, TypeOK, PoolTypeOK
        <4> QED
          BY <4>1, <4>2, <4>3
      <3>2. CASE WorkerTake(s) \/ WorkerExit(s) \/ LocalSend(s)
        BY <2>1, <3>2 DEF WorkerTake, WorkerExit, LocalSend, statVars
      <3> QED
        BY <2>2, <3>1, <3>2, LocalSteps DEF LocalInv
    <2>3. CASE Main
      BY <2>1, <2>3
      DEF Main, MainStep, Phase1WaitStartup, Phase2Submit, SubmitTransfer,
          WaitAllComplete, DestroyContexts, StopShard, JoinShard, Phase3Stop,
          Phase3WaitDone, Phase4CollectHistory, poolVars, statVars
    <2>4. CASE UNCHANGED parentVars
      BY <2>1, <2>4 DEF parentVars, poolVars, statVars
    <2> QED
      BY <2>2, <2>3, <2>4 DEF Next, Account, Terminated, vars
  <1>2. IInv /\ ChannelInv /\ LocalInv /\ [Next]_vars =>
          [\A s \in Shards :
             /\ local_transfers'[s] # local_transfers[s] => credited[task[s].order] > 0
             /\ cross_shard_transfers'[s] # cross_shard_transfers[s] =>
                  credited[task[s].order] > 0]_vars
    BY <1>1
  <1> QED
    BY <1>2, Invariance, ChannelInvariance, LocalInvariance, PTL
    DEF Spec, SuccessMeansCredited

-----------------------------------------------------------------------------
(***************************************************************************)
(* Refinement: a debit and a credit are the steps of the ledger, every     *)
(* other step is a stutter.                                                *)
(***************************************************************************)
Stages == [i \in Orders |-> Stage(i)]

LEMMA LedgerInitial == Init => Book!LedgerInit
  <1> SUFFICES ASSUME Init PROVE Book!LedgerInit
    OBVIOUS
  <1>1. balance = InitialBalance
    BY DEF Init, ChildInit
  <1>2. \A i \in Orders : Stage(i) = "ordered"
    BY DEF Init, ChildInit, Stage
  <1> QED
    BY <1>1, <1>2 DEF Book!LedgerInit, Book!Orders, Orders

\* A step that debits and credits nothing is a stutter of the ledger.
LEMMA LedgerStutter ==
  ASSUME UNCHANGED <<debited, credited, balance>>
  PROVE  UNCHANGED Book!ledgerVars
  <1>1. \A i \in Orders : Stage(i)' = Stage(i)
    BY DEF Stage
  <1>2. Stages' = Stages
    BY <1>1 DEF Stages
  <1> QED
    BY <1>2 DEF Book!ledgerVars, Stages

\* The stage of an order, before and after a step.
LEMMA StageFacts ==
  ASSUME NEW i
  PROVE  /\ debited[i] = 0 /\ credited[i] = 0 => Stage(i) = "ordered"
         /\ debited[i] = 1 /\ credited[i] = 0 => Stage(i) = "debited"
         /\ debited'[i] = 1 /\ credited'[i] = 0 => Stage(i)' = "debited"
         /\ debited'[i] = 1 /\ credited'[i] = 1 => Stage(i)' = "credited"
  <1>1. debited[i] = 0 /\ credited[i] = 0 => Stage(i) = "ordered"
    BY DEF Stage
  <1>2. debited[i] = 1 /\ credited[i] = 0 => Stage(i) = "debited"
    BY DEF Stage
  <1>3. debited'[i] = 1 /\ credited'[i] = 0 => Stage(i)' = "debited"
    BY DEF Stage
  <1>4. debited'[i] = 1 /\ credited'[i] = 1 => Stage(i)' = "credited"
    BY DEF Stage
  <1> QED
    BY <1>1, <1>2, <1>3, <1>4

\* A step that moves one order leaves the stages of the others.
LEMMA StageChange ==
  ASSUME NEW i \in Orders, NEW stage, Stage(i)' = stage,
         \A k \in Orders \ {i} : debited'[k] = debited[k] /\ credited'[k] = credited[k]
  PROVE  Stages' = [Stages EXCEPT ![i] = stage]
  <1>1. \A k \in Orders \ {i} : Stage(k)' = Stage(k)
    BY DEF Stage
  <1> QED
    BY <1>1 DEF Stages

LEMMA LedgerStep ==
  ASSUME LocalWorkload, IInv, IInv', ChannelInv, RequestedOnce, LocalInv, [Next]_vars
  PROVE  [Book!LedgerNext]_(Book!ledgerVars)
  <1>1. /\ debited \in [Orders -> Nat] /\ credited \in [Orders -> Nat]
        /\ KindInv /\ SourceOnly
    BY DEF IInv, TypeOK, ChildTypeOK, ChannelInv, LocalInv
  <1>2. ASSUME UNCHANGED <<debited, credited, balance>>
        PROVE  [Book!LedgerNext]_(Book!ledgerVars)
    BY <1>2, LedgerStutter
  <1>3. ASSUME NEW a \in Accounts, NEW p \in Procs \ {a}, HandleTransferAsSource(a, p)
        PROVE  [Book!LedgerNext]_(Book!ledgerVars)
    <2>1. PICK i \in Orders :
          /\ Requests(i) # 0
          /\ debited' = [debited EXCEPT ![i] = @ + 1]
          /\ balance' = [balance EXCEPT ![Src(i)] = @ - Amount(i)]
          /\ UNCHANGED credited
      BY <1>1, <1>3, SourceEffect
    <2>2. debited[i] = 0 /\ credited[i] = 0
      <3>1. /\ debited[i] \in {0, 1} /\ credited[i] \in {0, 1}
            /\ Requests(i) \in Nat /\ Forwards(i) \in Nat
            /\ debited[i] = Forwards(i) + credited[i]
            /\ Requests(i) + debited[i] <= 1
        BY <2>1, OrderProgress DEF LocalInv
      <3> QED
        BY <2>1, <3>1
    <2>3. debited'[i] = 1 /\ credited'[i] = 0
      BY <1>1, <2>1, <2>2
    <2>4. Stage(i) = "ordered" /\ Stage(i)' = "debited"
      BY <2>2, <2>3, StageFacts
    <2>5. \A k \in Orders \ {i} : debited'[k] = debited[k] /\ credited'[k] = credited[k]
      BY <1>1, <2>1
    <2>6. Stages' = [Stages EXCEPT ![i] = "debited"]
      BY <2>1, <2>4, <2>5, StageChange
    <2>7. Stages[i] = "ordered"
      BY <2>1, <2>4 DEF Stages
    <2>8. Book!Debit(i)
      BY <2>1, <2>6, <2>7 DEF Book!Debit, Book!Src, Book!Amount, Src, Amount, Stages
    <2> QED
      BY <2>1, <2>8 DEF Book!LedgerNext, Book!Orders, Orders
  <1>4. ASSUME NEW a \in Accounts, NEW p \in Procs \ {a},
               HandleTransferAsDestination(a, p)
        PROVE  [Book!LedgerNext]_(Book!ledgerVars)
    <2>1. PICK i \in Orders :
          /\ Forwards(i) # 0
          /\ credited' = [credited EXCEPT ![i] = @ + 1]
          /\ balance' = [balance EXCEPT ![Dst(i)] = @ + Amount(i)]
          /\ UNCHANGED debited
      BY <1>1, <1>4, DestinationEffect
    <2>2. debited[i] = 1 /\ credited[i] = 0
      <3>1. /\ debited[i] \in {0, 1} /\ credited[i] \in {0, 1}
            /\ Forwards(i) \in Nat
            /\ debited[i] = Forwards(i) + credited[i]
        BY <2>1, OrderProgress DEF LocalInv
      <3> QED
        BY <2>1, <3>1
    <2>3. debited'[i] = 1 /\ credited'[i] = 1
      BY <1>1, <2>1, <2>2
    <2>4. Stage(i) = "debited" /\ Stage(i)' = "credited"
      BY <2>2, <2>3, StageFacts
    <2>5. \A k \in Orders \ {i} : debited'[k] = debited[k] /\ credited'[k] = credited[k]
      BY <1>1, <2>1
    <2>6. Stages' = [Stages EXCEPT ![i] = "credited"]
      BY <2>1, <2>4, <2>5, StageChange
    <2>7. Stages[i] = "debited"
      BY <2>1, <2>4 DEF Stages
    <2>8. Book!Credit(i)
      BY <2>1, <2>6, <2>7 DEF Book!Credit, Book!Dst, Book!Amount, Dst, Amount, Stages
    <2> QED
      BY <2>1, <2>8 DEF Book!LedgerNext, Book!Orders, Orders
  <1>5. ASSUME NEW a \in Accounts, Account(a)
        PROVE  [Book!LedgerNext]_(Book!ledgerVars)
    <2>1. CASE \A p \in Procs \ {a} : /\ ~ HandleTransferAsSource(a, p)
                                      /\ ~ HandleTransferAsDestination(a, p)
      <3>1. UNCHANGED <<debited, credited, balance>>
        BY <1>5, <2>1, PassEffect
      <3> QED
        BY <1>2, <3>1
    <2> QED
      BY <1>3, <1>4, <1>5, <2>1
  <1>6. CASE UNCHANGED childVars
    BY <1>2, <1>6 DEF childVars
  <1> QED
    BY <1>5, <1>6 DEF Next, Main, Worker, Terminated, vars

\* The bank is a ledger: no step moves money but the one debit and, after it,
\* the one credit of an order (banking.h:16-21).
THEOREM BankIsLedger ==
  ASSUME LocalWorkload
  PROVE  Spec => ImplementsLedger
  <1>1. IInv /\ IInv' /\ ChannelInv /\ RequestedOnce /\ LocalInv /\ [Next]_vars
          => [Book!LedgerNext]_(Book!ledgerVars)
    BY LedgerStep
  <1>2. Spec => Book!LedgerSpec
    BY <1>1, LedgerInitial, Invariance, ChannelInvariance, RequestedExactlyOnce,
       LocalInvariance, PTL DEF Spec, Book!LedgerSpec
  <1> QED
    BY <1>2 DEF ImplementsLedger

-----------------------------------------------------------------------------
(***************************************************************************)
(* The end: after STOP an account says DONE and then its balance to the    *)
(* parent, which hears one of the two in phase 3 and the other in phase 4. *)
(***************************************************************************)
Said(a) == CASE child_pc[a] = "finished"      -> 2
             [] child_pc[a] = "wait_all_done" -> 1
             [] OTHER                         -> 0

Heard(a) ==
  CASE main_pc = "phase3" -> IF cursor <= a THEN 0 ELSE 1
    [] main_pc = "phase4" -> IF cursor <= a THEN 1 ELSE 2
    [] OTHER              -> 2

Letter(n, b) == IF n = 1 THEN Msg("DONE", 0) ELSE Msg("BALANCE_HISTORY", b)

\* What is said and not yet heard is in the channel; got is what was collected.
Farewell(c, said, heard, b, got) ==
  /\ Len(c) = said - heard
  /\ \A j \in 1 .. Len(c) : c[j] = Letter(heard + j, b)
  /\ heard = 2 => got = b

FarewellInv ==
  AfterStop => \A a \in Accounts :
    Farewell(chan[a][Parent], Said(a), Heard(a), balance[a], collected[a])

LEMMA FarewellSay ==
  ASSUME NEW c \in Seq(Message), NEW said \in Nat, NEW heard \in Nat, NEW b, NEW got,
         Letter(said + 1, b) \in Message, Farewell(c, said, heard, b, got)
  PROVE  Farewell(Append(c, Letter(said + 1, b)), said + 1, heard, b, got)
  <1> DEFINE m == Letter(said + 1, b)
  <1>1. /\ Len(c) \in Nat
        /\ Len(c) = said - heard
        /\ Len(Append(c, m)) = Len(c) + 1
        /\ \A j \in 1 .. Len(c) : Append(c, m)[j] = c[j]
        /\ Append(c, m)[Len(c) + 1] = m
    BY AppendFacts DEF Farewell
  <1>2. \A j \in 1 .. Len(c) : c[j] = Letter(heard + j, b)
    BY DEF Farewell
  <1>3. heard + (Len(c) + 1) = said + 1
    BY <1>1
  <1>4. ASSUME NEW j \in 1 .. Len(Append(c, m))
        PROVE  Append(c, m)[j] = Letter(heard + j, b)
    <2>1. CASE j \in 1 .. Len(c)
      BY <1>1, <1>2, <2>1
    <2>2. CASE j = Len(c) + 1
      BY <1>1, <1>3, <2>2
    <2> QED
      BY <1>1, <1>4, <2>1, <2>2
  <1>5. Len(Append(c, m)) = (said + 1) - heard
    BY <1>1
  <1> QED
    BY <1>4, <1>5 DEF Farewell

LEMMA FarewellHear ==
  ASSUME NEW c \in Seq(Message), c # << >>, NEW said \in Nat, NEW heard \in Nat,
         NEW b, NEW got, NEW gets, Farewell(c, said, heard, b, got),
         heard + 1 = 2 => gets = b
  PROVE  /\ Head(c) = Letter(heard + 1, b)
         /\ Farewell(Tail(c), said, heard + 1, b, gets)
  <1>1. /\ Len(c) \in Nat \ {0}
        /\ Head(c) = c[1]
        /\ Len(Tail(c)) = Len(c) - 1
        /\ \A j \in 1 .. Len(c) - 1 : Tail(c)[j] = c[j + 1]
        /\ Len(c) = said - heard
    BY TakeHeadFacts DEF Farewell
  <1>2. \A j \in 1 .. Len(c) : c[j] = Letter(heard + j, b)
    BY DEF Farewell
  <1>3. Head(c) = Letter(heard + 1, b)
    BY <1>1, <1>2
  <1>4. ASSUME NEW j \in 1 .. Len(Tail(c))
        PROVE  Tail(c)[j] = Letter((heard + 1) + j, b)
    <2>1. /\ j \in 1 .. Len(c) - 1 /\ j + 1 \in 1 .. Len(c)
          /\ heard + (j + 1) = (heard + 1) + j
      BY <1>1
    <2> QED
      BY <1>1, <1>2, <2>1
  <1>5. Len(Tail(c)) = said - (heard + 1)
    BY <1>1
  <1> QED
    BY <1>3, <1>4, <1>5 DEF Farewell

\* Before STOP is sent nothing is left for the parent to hear.
LEMMA NothingUnheard ==
  ASSUME IInv, ChannelInv, LocalInv, main_pc = "phase3_stop", NEW a \in Accounts
  PROVE  chan[a][Parent] = << >> /\ Said(a) = 0
  <1> DEFINE c == chan[a][Parent]
  <1>1. ~ AfterStop /\ main_pc # "phase1"
    BY DEF AfterStop
  <1>2. c \in Seq(Message) /\ \A j \in 1 .. Len(c) : c[j].type # "STARTED"
    BY <1>1, ServingFacts
  <1>3. ~ Answered(a)
    <2>1. ASSUME NEW i \in Orders PROVE ~ Held(i)
      <3>1. GetShardId(Src(i)) \in Shards
        BY OrderFacts, ShardFacts
      <3> QED
        BY <3>1 DEF IInv, PhaseInv, Held, Waiting
    <2> QED
      BY <2>1 DEF Answered
  <1>4. AnswersIn(c, Answered(a))
    BY <1>1 DEF LocalInv, AnswersInv
  <1>5. ~ Stopped(a)
    BY <1>1 DEF ChannelInv, StopInv, StopChannel
  <1>6. Said(a) = 0
    BY <1>5 DEF Stopped, Said
  <1> HIDE DEF c
  <1>7. \A j \in 1 .. Len(c) : FALSE
    BY <1>2, <1>3, <1>4 DEF AnswersIn
  <1>8. c = << >>
    <2>1. ASSUME c # << >> PROVE FALSE
      <3>1. Len(c) \in Nat \ {0}
        BY <1>2, <2>1, TakeHeadFacts
      <3> QED
        BY <1>7, <3>1
    <2> QED
      BY <2>1
  <1> QED
    BY <1>6, <1>8 DEF c

\* The step of an account.
LEMMA FarewellAccount ==
  ASSUME LocalWorkload, IInv, IInv', ChannelInv, LocalInv, FarewellInv,
         NEW a \in Accounts, Account(a)
  PROVE  FarewellInv'
  <1>0. AfterStop' <=> AfterStop
    BY AccountAlone DEF Account, parentVars, mainVars, AfterStop
  <1> SUFFICES ASSUME AfterStop, NEW d \in Accounts
               PROVE  Farewell(chan'[d][Parent], Said(d)', Heard(d), balance'[d],
                               collected[d])
    BY <1>0 DEF FarewellInv, Account, parentVars, mainVars, Heard, Farewell
  <1> DEFINE c == chan[d][Parent]
             Goal == Farewell(chan'[d][Parent], Said(d)', Heard(d), balance'[d],
                              collected[d])
  <1> SUFFICES Goal
    OBVIOUS
  <1>1. /\ d \in Procs /\ d # Parent /\ Parent \in Procs /\ a \in Procs
        /\ c \in Seq(Message)
        /\ Heard(d) \in Nat /\ Said(d) \in Nat
    BY ProcFacts, ChannelType DEF IInv, TypeOK, Heard, Said
  <1>2. Farewell(c, Said(d), Heard(d), balance[d], collected[d])
    BY DEF FarewellInv
  <1>3. \A p \in Procs \ {a} : /\ ~ HandleTransferAsSource(a, p)
                               /\ ~ HandleTransferAsDestination(a, p)
    <2>1. ASSUME NEW p \in Procs \ {a}, HandleTransferAsSource(a, p) PROVE FALSE
      <3>1. PICK i \in Orders : Requests(i) # 0
        BY <2>1, SourceEffect DEF ChannelInv
      <3> QED
        BY <3>1, AfterStopFacts
    <2>2. ASSUME NEW p \in Procs \ {a}, HandleTransferAsDestination(a, p) PROVE FALSE
      <3>1. PICK i \in Orders : Forwards(i) # 0
        BY <2>2, DestinationEffect DEF ChannelInv, LocalInv
      <3> QED
        BY <3>1, AfterStopFacts
    <2> QED
      BY <2>1, <2>2
  <1>4. UNCHANGED balance
    BY <1>3, PassEffect
  <1>5. ASSUME chan'[d][Parent] = c, child_pc'[d] = child_pc[d] PROVE Goal
    <2>1. Said(d)' = Said(d)
      BY <1>5 DEF Said
    <2> QED
      BY <1>2, <1>4, <1>5, <2>1
  <1>6. ASSUME NEW p \in Procs \ {a}, LoopStep(a, p) PROVE Goal
    <2>1. CASE HandleStop(a, p) /\ d = a
      <3>1. /\ chan[Parent][a] # << >>
            /\ chan' = SendMulticast(Receive(chan, Parent, a), a, Msg("DONE", 0))
        BY <2>1, StopTurn DEF ChannelInv
      <3>2. Receive(chan, Parent, a) \in Channels
        BY <1>1, <2>1, <3>1, KindsReceive DEF ChannelInv, KindInv, IInv, TypeOK
      <3>3. /\ Receive(chan, Parent, a)[a][Parent] = c
            /\ chan'[a][Parent] = Append(Receive(chan, Parent, a)[a][Parent],
                                         Msg("DONE", 0))
        <4> DEFINE e == Receive(chan, Parent, a)
        <4>1. e[a][Parent] = IF a = Parent /\ Parent = a THEN Tail(chan[Parent][a])
                                                        ELSE chan[a][Parent]
          BY <1>1, ReceiveAt DEF IInv, TypeOK
        <4>2. e \in Channels
          BY <3>2
        <4> HIDE DEF e
        <4>3. SendMulticast(e, a, Msg("DONE", 0))[a][Parent] =
                IF a = a /\ Parent # a THEN Append(e[a][Parent], Msg("DONE", 0))
                                       ELSE e[a][Parent]
          BY <1>1, <4>2, MulticastAt
        <4>4. chan'[a][Parent] = Append(e[a][Parent], Msg("DONE", 0))
          BY <1>1, <2>1, <3>1, <4>3 DEF e
        <4> QED
          BY <1>1, <2>1, <4>1, <4>4 DEF e
      <3>4. Said(d) = 0 /\ Said(d)' = 1
        BY <1>6, <2>1, LoopPc DEF Said
      <3>5. Msg("DONE", 0) = Letter(Said(d) + 1, balance[d]) /\ Msg("DONE", 0) \in Message
        BY <3>4, MessageFacts DEF Letter
      <3>6. Farewell(Append(c, Letter(Said(d) + 1, balance[d])), Said(d) + 1,
                     Heard(d), balance[d], collected[d])
        BY <1>1, <1>2, <3>5, FarewellSay
      <3> QED
        BY <1>4, <2>1, <3>3, <3>4, <3>5, <3>6
    <2>2. CASE ~ (HandleStop(a, p) /\ d = a)
      <3>1. child_pc'[d] = child_pc[d]
        <4>1. d # a => child_pc'[d] = child_pc[d]
          BY AccountAlone
        <4>2. child_pc'[a] = IF HandleStop(a, p) THEN "wait_all_done"
                                                 ELSE child_pc[a]
          BY <1>6, LoopPc
        <4> QED
          BY <2>2, <4>1, <4>2
      <3>2. chan'[d][Parent] = c
        <4>1. CASE d # a
          <5>1. ~ (d = p /\ Parent = a)
            BY <1>1, ProcFacts
          <5> QED
            BY <1>1, <1>6, <4>1, <5>1, LoopChannels DEF ChannelInv
        <4>2. CASE d = a
          <5>1. HandleOther(a, p) \/ WaitAllDone(a, p)
            BY <1>3, <1>6, <2>2, <4>2 DEF LoopStep
          <5>2. chan' = Receive(chan, p, a)
            BY <5>1 DEF HandleOther, WaitAllDone
          <5>3. Receive(chan, p, a)[d][Parent] =
                  IF d = p /\ Parent = a THEN Tail(chan[p][a]) ELSE chan[d][Parent]
            BY <1>1, ReceiveAt DEF IInv, TypeOK
          <5> QED
            BY <1>1, <4>2, <5>2, <5>3
        <4> QED
          BY <4>1, <4>2
      <3> QED
        BY <1>5, <3>1, <3>2
    <2> QED
      BY <2>1, <2>2
  <1>7. CASE SendStarted(a)
    <2>1. Begun(a)
      BY ServingFacts DEF AfterStop
    <2> QED
      BY <1>7, <2>1 DEF Begun, SendStarted
  <1>8. CASE WaitStarted(a)
    <2>1. chan'[d][Parent] = c
      <3>1. ~ SendStarted(a)
        BY <1>8 DEF WaitStarted, SendStarted
      <3> QED
        BY <1>1, <1>8, <3>1, StartupChannels, ProcFacts
    <2>2. Said(d)' = Said(d)
      <3>1. CASE d = a
        <4>1. child_pc[a] = "wait_started" /\ child_pc'[a] \in {"wait_started", "message_loop"}
          BY <1>8, StartupChannels DEF WaitStarted
        <4> QED
          BY <3>1, <4>1 DEF Said
      <3>2. CASE d # a
        <4>1. child_pc'[d] = child_pc[d]
          BY <3>2, AccountAlone
        <4> QED
          BY <4>1 DEF Said
      <3> QED
        BY <3>1, <3>2
    <2> QED
      BY <1>2, <1>4, <2>1, <2>2
  <1>9. CASE SendHistory(a)
    <2>1. CASE d = a
      <3>1. chan'[d][Parent] = Append(c, Msg("BALANCE_HISTORY", balance[d]))
        BY <1>1, <1>9, <2>1, HistoryChannels
      <3>2. Said(d) = 1 /\ Said(d)' = 2
        BY <1>9, <2>1, HistoryChannels DEF Said, SendHistory
      <3>3. /\ Msg("BALANCE_HISTORY", balance[d]) = Letter(Said(d) + 1, balance[d])
            /\ Msg("BALANCE_HISTORY", balance[d]) \in Message
        BY <3>2, MessageFacts DEF Letter, IInv, TypeOK, ChildTypeOK
      <3>4. Farewell(Append(c, Letter(Said(d) + 1, balance[d])), Said(d) + 1,
                     Heard(d), balance[d], collected[d])
        BY <1>1, <1>2, <3>3, FarewellSay
      <3> QED
        BY <1>4, <3>1, <3>2, <3>3, <3>4
    <2>2. CASE d # a
      <3>1. chan'[d][Parent] = c /\ child_pc'[d] = child_pc[d]
        BY <1>1, <1>9, <2>2, HistoryChannels, AccountAlone
      <3> QED
        BY <1>5, <3>1
    <2> QED
      BY <2>1, <2>2
  <1> QED
    BY <1>6, <1>7, <1>8, <1>9, AccountSteps

\* A step of the main thread that receives in phase 3 or 4 moves Heard of one
\* account.
LEMMA HeardChange ==
  ASSUME IInv, Phase3WaitDone \/ Phase4CollectHistory
  PROVE  /\ AfterStop
         /\ cursor \in Accounts
         /\ Heard(cursor) = IF main_pc = "phase3" THEN 0 ELSE 1
         /\ \A d \in Accounts :
              Heard(d)' = IF d = cursor THEN Heard(d) + 1 ELSE Heard(d)
  <1>1. cursor \in 1 .. N /\ N \in Nat /\ Accounts = 1 .. N
    BY ProcFacts DEF Phase3WaitDone, Phase4CollectHistory, MainAt, IInv, TypeOK,
                     MainTypeOK, CursorRange, Accounts
  <1>2. CASE Phase3WaitDone
    <2>1. /\ main_pc = "phase3"
          /\ main_pc' = IF cursor < N THEN "phase3" ELSE "phase4"
          /\ cursor' = IF cursor < N THEN cursor + 1 ELSE 1
      BY <1>2 DEF Phase3WaitDone, MainAt, Iterate
    <2>2. ASSUME NEW d \in Accounts
          PROVE  Heard(d)' = IF d = cursor THEN Heard(d) + 1 ELSE Heard(d)
      <3>1. d \in 1 .. N /\ Heard(d) = IF cursor <= d THEN 0 ELSE 1
        BY <1>1, <2>1 DEF Heard
      <3>2. CASE cursor < N
        <4>1. Heard(d)' = IF cursor + 1 <= d THEN 0 ELSE 1
          BY <2>1, <3>2 DEF Heard
        <4> QED
          BY <1>1, <3>1, <4>1
      <3>3. CASE ~ cursor < N
        <4>1. Heard(d)' = IF 1 <= d THEN 1 ELSE 2
          BY <2>1, <3>3 DEF Heard
        <4> QED
          BY <1>1, <3>1, <3>3, <4>1
      <3> QED
        BY <3>2, <3>3
    <2>3. Heard(cursor) = 0
      BY <1>1, <2>1 DEF Heard
    <2> QED
      BY <1>1, <2>1, <2>2, <2>3 DEF AfterStop
  <1>3. CASE Phase4CollectHistory
    <2>1. /\ main_pc = "phase4"
          /\ main_pc' = IF cursor < N THEN "phase4" ELSE "finished"
          /\ cursor' = IF cursor < N THEN cursor + 1 ELSE 1
      BY <1>3 DEF Phase4CollectHistory, MainAt, Iterate
    <2>2. ASSUME NEW d \in Accounts
          PROVE  Heard(d)' = IF d = cursor THEN Heard(d) + 1 ELSE Heard(d)
      <3>1. d \in 1 .. N /\ Heard(d) = IF cursor <= d THEN 1 ELSE 2
        BY <1>1, <2>1 DEF Heard
      <3>2. CASE cursor < N
        <4>1. Heard(d)' = IF cursor + 1 <= d THEN 1 ELSE 2
          BY <2>1, <3>2 DEF Heard
        <4> QED
          BY <1>1, <3>1, <4>1
      <3>3. CASE ~ cursor < N
        <4>1. Heard(d)' = 2
          BY <2>1, <3>3 DEF Heard
        <4> QED
          BY <1>1, <3>1, <3>3, <4>1
      <3> QED
        BY <3>2, <3>3
    <2>3. Heard(cursor) = 1
      BY <1>1, <2>1 DEF Heard
    <2> QED
      BY <1>1, <2>1, <2>2, <2>3 DEF AfterStop
  <1> QED
    BY <1>2, <1>3

LEMMA FarewellReceive ==
  ASSUME IInv, FarewellInv, UNCHANGED childVars,
         Phase3WaitDone \/ Phase4CollectHistory
  PROVE  FarewellInv'
  <1>1. /\ AfterStop
        /\ cursor \in Accounts
        /\ Heard(cursor) = IF main_pc = "phase3" THEN 0 ELSE 1
        /\ \A d \in Accounts :
             Heard(d)' = IF d = cursor THEN Heard(d) + 1 ELSE Heard(d)
    BY HeardChange
  <1>2. /\ chan[cursor][Parent] # << >>
        /\ chan' = Receive(chan, cursor, Parent)
    BY MainReceive
  <1>3. /\ chan \in Channels /\ Parent \in Procs /\ cursor \in Procs
        /\ \A d \in Accounts : d \in Procs /\ chan[d][Parent] \in Seq(Message)
    BY <1>1, ProcFacts, ChannelType DEF IInv, TypeOK
  <1> SUFFICES ASSUME NEW d \in Accounts
               PROVE  Farewell(chan'[d][Parent], Said(d), Heard(d)', balance[d],
                               collected'[d])
    BY DEF FarewellInv, Farewell, childVars, Said
  <1> DEFINE c == chan[d][Parent]
  <1>4. Farewell(c, Said(d), Heard(d), balance[d], collected[d])
    BY <1>1 DEF FarewellInv
  <1>5. Receive(chan, cursor, Parent)[d][Parent] =
          IF d = cursor /\ Parent = Parent THEN Tail(chan[cursor][Parent])
                                           ELSE chan[d][Parent]
    BY <1>3, ReceiveAt
  <1>6. collected \in [Accounts -> Int \cup {NoHistory}]
    BY DEF IInv, TypeOK, MainTypeOK
  <1>7. CASE d # cursor
    <2>1. collected'[d] = collected[d]
      BY <1>6, <1>7 DEF Phase3WaitDone, Phase4CollectHistory
    <2> QED
      BY <1>1, <1>2, <1>4, <1>5, <1>7, <2>1
  <1>8. CASE d = cursor
    <2>1. c \in Seq(Message) /\ c # << >> /\ Said(d) \in Nat /\ Heard(d) \in Nat
      BY <1>1, <1>2, <1>3, <1>8 DEF Said
    <2>2. Head(c) = Letter(Heard(d) + 1, balance[d])
      BY <1>4, <2>1, FarewellHear
    <2>3. Heard(d) + 1 = 2 => collected'[d] = balance[d]
      <3>1. ASSUME Heard(d) + 1 = 2 PROVE Phase4CollectHistory
        BY <1>1, <1>8, <3>1 DEF Phase3WaitDone, MainAt
      <3>2. ASSUME Heard(d) + 1 = 2
            PROVE  /\ Oldest(cursor, Parent).type = "BALANCE_HISTORY"
                   /\ Oldest(cursor, Parent).val = balance[d]
        BY <1>8, <2>2, <3>2 DEF Letter, Oldest, Msg
      <3> QED
        BY <1>6, <1>8, <3>1, <3>2 DEF Phase4CollectHistory
    <2>4. Farewell(Tail(c), Said(d), Heard(d) + 1, balance[d], collected'[d])
      BY <1>4, <2>1, <2>3, FarewellHear
    <2> QED
      BY <1>1, <1>2, <1>5, <1>8, <2>4
  <1> QED
    BY <1>7, <1>8

LEMMA FarewellInductive ==
  ASSUME LocalWorkload
  PROVE  /\ Init => FarewellInv
         /\ IInv /\ IInv' /\ ChannelInv /\ LocalInv /\ FarewellInv /\ [Next]_vars
              => FarewellInv'
  <1>1. Init => FarewellInv
    BY DEF Init, MainInit, FarewellInv, AfterStop
  <1> SUFFICES ASSUME IInv, IInv', ChannelInv, LocalInv, FarewellInv, [Next]_vars
               PROVE  FarewellInv'
    BY <1>1
  <1>2. CASE Main
    <2>1. UNCHANGED childVars
      BY <1>2 DEF Main
    <2>2. CASE Phase3WaitDone \/ Phase4CollectHistory
      BY <2>1, <2>2, FarewellReceive
    <2>3. CASE Phase3Stop
      <3> SUFFICES ASSUME NEW d \in Accounts
                   PROVE  Farewell(chan'[d][Parent], Said(d)', Heard(d)', balance'[d],
                                   collected'[d])
        BY DEF FarewellInv
      <3>1. /\ main_pc = "phase3_stop" /\ main_pc' = "phase3" /\ cursor' = cursor
            /\ chan' = SendMulticast(chan, Parent, Msg("STOP", 0))
        BY <2>3 DEF Phase3Stop, MainAt
      <3>2. chan[d][Parent] = << >> /\ Said(d) = 0
        BY <3>1, NothingUnheard
      <3>3. chan'[d][Parent] = << >>
        <4>1. /\ d \in Procs /\ Parent \in Procs /\ d # Parent /\ chan \in Channels
          BY ProcFacts DEF IInv, TypeOK
        <4> QED
          BY <3>1, <3>2, <4>1, MulticastAt
      <3>4. Said(d)' = 0
        BY <2>1, <3>2 DEF Said, childVars
      <3>5. Heard(d)' = 0
        <4>1. cursor = 1 /\ d \in Nat /\ 1 <= d
          BY <3>1 DEF IInv, TypeOK, MainTypeOK, CursorRange, Accounts
        <4> QED
          BY <3>1, <4>1 DEF Heard
      <3>6. Len(chan'[d][Parent]) = 0
        BY <3>3, EmptySeq
      <3> QED
        BY <3>4, <3>5, <3>6 DEF Farewell
    <2>4. CASE Phase1WaitStartup \/ Phase2Submit \/ WaitAllComplete
                 \/ DestroyContexts \/ StopShard \/ JoinShard
      <3>1. ~ AfterStop'
        BY <2>4 DEF Phase1WaitStartup, Phase2Submit, WaitAllComplete,
                    DestroyContexts, StopShard, JoinShard, Iterate, AfterStop
      <3> QED
        BY <3>1 DEF FarewellInv
    <2> QED
      BY <1>2, <2>2, <2>3, <2>4 DEF Main, MainStep
  <1>3. ASSUME NEW s \in Shards, Worker(s) PROVE FarewellInv'
    <2>1. ~ AfterStop
      <3>1. worker_pc[s] # "exited"
        BY <1>3, LocalSteps DEF LocalInv, WorkerTake, WorkerExit, LocalSend, LocalAck,
                                WorkerAt
      <3> QED
        BY <3>1 DEF IInv, PhaseInv, AfterStop
    <2>2. ~ AfterStop'
      BY <1>3, <2>1 DEF Worker, mainVars, AfterStop
    <2> QED
      BY <2>2 DEF FarewellInv
  <1>4. ASSUME NEW a \in Accounts, Account(a) PROVE FarewellInv'
    BY <1>4, FarewellAccount
  <1>5. CASE UNCHANGED vars
    BY <1>5 DEF vars, parentVars, mainVars, childVars, FarewellInv, AfterStop,
                Said, Heard
  <1> QED
    BY <1>2, <1>3, <1>4, <1>5 DEF Next, Terminated

\* After STOP each account says DONE and then its final balance, and the parent
\* hears DONE in phase 3 and the balance in phase 4: neither phase takes one
\* message for the other (parent_controller.cpp:57-99, child_worker.cpp:99-141).
THEOREM FarewellInvariance ==
  ASSUME LocalWorkload
  PROVE  Spec => []FarewellInv
  <1>1. /\ Init => FarewellInv
        /\ IInv /\ IInv' /\ ChannelInv /\ LocalInv /\ FarewellInv /\ [Next]_vars
             => FarewellInv'
    BY FarewellInductive
  <1> QED
    BY <1>1, Invariance, ChannelInvariance, LocalInvariance, PTL DEF Spec

\* parent_controller.cpp:76, "all accounts have stopped", although phase 3 looks
\* at no message it receives.
THEOREM AllStopped ==
  ASSUME LocalWorkload
  PROVE  Spec => []AllStoppedAfterPhase3
  <1>1. IInv /\ FarewellInv => AllStoppedAfterPhase3
    <2> SUFFICES ASSUME IInv, FarewellInv, main_pc \in {"phase4", "finished"},
                        NEW a \in Accounts
                 PROVE  child_pc[a] \in {"wait_all_done", "finished"}
      BY DEF AllStoppedAfterPhase3
    <2>1. Len(chan[a][Parent]) = Said(a) - Heard(a)
      BY DEF FarewellInv, AfterStop, Farewell
    <2>2. Heard(a) \in {1, 2} /\ Said(a) \in {0, 1, 2}
      BY DEF Heard, Said
    <2>3. Len(chan[a][Parent]) \in Nat
      BY ProcFacts, ChannelType, LenProperties DEF IInv, TypeOK
    <2>4. Said(a) # 0
      BY <2>1, <2>2, <2>3
    <2> QED
      BY <2>4 DEF Said
  <1> QED
    BY <1>1, Invariance, FarewellInvariance, PTL

\* Phase 4 collects the final balance of every account
\* (parent_controller.cpp:79-99).
THEOREM AllCollected ==
  ASSUME LocalWorkload
  PROVE  Spec => []HistoriesCollected
  <1>1. IInv /\ FarewellInv => HistoriesCollected
    <2> SUFFICES ASSUME IInv, FarewellInv, main_pc = "finished"
                 PROVE  collected = balance
      BY DEF HistoriesCollected
    <2>1. ASSUME NEW a \in Accounts PROVE collected[a] = balance[a]
      <3>1. Heard(a) = 2
        BY DEF Heard
      <3> QED
        BY <3>1 DEF FarewellInv, AfterStop, Farewell
    <2>2. /\ collected \in [Accounts -> Int \cup {NoHistory}]
          /\ balance \in [Accounts -> Int]
      BY DEF IInv, TypeOK, MainTypeOK, ChildTypeOK
    <2> QED
      BY <2>1, <2>2
  <1> QED
    BY <1>1, Invariance, FarewellInvariance, PTL

-----------------------------------------------------------------------------
(***************************************************************************)
(* Money.  For every workload, the balances add up to what they were less  *)
(* what is debited and not credited; when each debit is credited once,     *)
(* that is the money in the channels.                                      *)
(***************************************************************************)
\* What order i is worth on its way: what was debited and is not credited,
\* given its history variables d and c.
Pending(d, c) == [i \in Orders |-> (d[i] - c[i]) * Amount(i)]

\* What the accounts with balances b have, and what is on its way to them.
Worth(b, d, c) == SumOf(b, Accounts) + SumOf(Pending(d, c), Orders)

BooksBalance == Worth(balance, debited, credited) = SumOf(InitialBalance, Accounts)

LEMMA PendingType ==
  ASSUME NEW d \in [Orders -> Nat], NEW c \in [Orders -> Nat]
  PROVE  Pending(d, c) \in [Orders -> Int]
  <1>1. \A i \in Orders : (d[i] - c[i]) * Amount(i) \in Int
    <2> TAKE i \in Orders
    <2>1. d[i] - c[i] \in Int /\ Amount(i) \in Int
      BY OrderFacts
    <2> QED
      BY <2>1
  <1> QED
    BY <1>1 DEF Pending

\* From (b, d, c) to (h, dd, cc) one balance and one order change, and what the
\* balance loses is on its way.
Moved(b, d, c, h, dd, cc) ==
  /\ b \in [Accounts -> Int] /\ h \in [Accounts -> Int]
  /\ d \in [Orders -> Nat] /\ dd \in [Orders -> Nat]
  /\ c \in [Orders -> Nat] /\ cc \in [Orders -> Nat]
  /\ \E a \in Accounts, i \in Orders :
       /\ \A x \in Accounts : x # a => h[x] = b[x]
       /\ \A j \in Orders : j # i => dd[j] = d[j] /\ cc[j] = c[j]
       /\ h[a] + Pending(dd, cc)[i] = b[a] + Pending(d, c)[i]

LEMMA BooksChange ==
  ASSUME NEW b, NEW d, NEW c, NEW h, NEW dd, NEW cc, Moved(b, d, c, h, dd, cc)
  PROVE  Worth(h, dd, cc) = Worth(b, d, c)
  <1>0. /\ b \in [Accounts -> Int] /\ h \in [Accounts -> Int]
        /\ d \in [Orders -> Nat] /\ dd \in [Orders -> Nat]
        /\ c \in [Orders -> Nat] /\ cc \in [Orders -> Nat]
    BY DEF Moved
  <1>1. PICK a \in Accounts, i \in Orders :
          /\ \A x \in Accounts : x # a => h[x] = b[x]
          /\ \A j \in Orders : j # i => dd[j] = d[j] /\ cc[j] = c[j]
          /\ h[a] + Pending(dd, cc)[i] = b[a] + Pending(d, c)[i]
    BY DEF Moved
  <1>2. SumOf(h, Accounts) = SumOf(b, Accounts) - b[a] + h[a]
    BY <1>0, <1>1, FiniteData, SumOfChange
  <1>3. /\ Pending(d, c) \in [Orders -> Int]
        /\ Pending(dd, cc) \in [Orders -> Int]
    BY <1>0, PendingType
  <1>4. \A j \in Orders : j # i => Pending(dd, cc)[j] = Pending(d, c)[j]
    BY <1>1 DEF Pending
  <1>5. SumOf(Pending(dd, cc), Orders)
          = SumOf(Pending(d, c), Orders) - Pending(d, c)[i] + Pending(dd, cc)[i]
    BY <1>3, <1>4, FiniteData, SumOfChange
  <1>6. /\ SumOf(b, Accounts) \in Int
        /\ SumOf(Pending(d, c), Orders) \in Int
        /\ Pending(d, c)[i] \in Int /\ Pending(dd, cc)[i] \in Int
        /\ b[a] \in Int /\ h[a] \in Int
    BY <1>0, <1>3, FiniteData, SumOfType
  <1> QED
    BY <1>1, <1>2, <1>5, <1>6 DEF Worth

LEMMA Factors ==
  \A x, y, m \in Nat : /\ ((x + 1) - y) * m = (x - y) * m + m
                       /\ (x - (y + 1)) * m = (x - y) * m - m
                       /\ (x - y) * m \in Int
  OBVIOUS

\* A debit takes from one balance what it adds to the money on its way.
LEMMA BooksDebit ==
  ASSUME NEW b \in [Accounts -> Int], NEW d \in [Orders -> Nat],
         NEW c \in [Orders -> Nat], NEW a \in Accounts, NEW i \in Orders
  PROVE  Moved(b, d, c, [b EXCEPT ![a] = @ - Amount(i)],
               [d EXCEPT ![i] = @ + 1], c)
  <1> DEFINE h == [b EXCEPT ![a] = @ - Amount(i)]
             dd == [d EXCEPT ![i] = @ + 1]
  <1>1. Amount(i) \in Nat
    BY OrderFacts
  <1>2. /\ h \in [Accounts -> Int] /\ dd \in [Orders -> Nat]
        /\ \A x \in Accounts : x # a => h[x] = b[x]
        /\ h[a] = b[a] - Amount(i) /\ b[a] \in Int
        /\ \A j \in Orders : j # i => dd[j] = d[j] /\ c[j] = c[j]
        /\ dd[i] = d[i] + 1 /\ d[i] \in Nat /\ c[i] \in Nat
    BY <1>1
  <1> HIDE DEF h, dd
  <1>3. /\ Pending(dd, c)[i] = Pending(d, c)[i] + Amount(i)
        /\ Pending(d, c)[i] \in Int
    BY <1>1, <1>2, Factors DEF Pending
  <1>4. h[a] + Pending(dd, c)[i] = b[a] + Pending(d, c)[i]
    BY <1>1, <1>2, <1>3
  <1>5. Moved(b, d, c, h, dd, c)
    BY <1>2, <1>4 DEF Moved
  <1> QED
    BY <1>5 DEF h, dd

\* A credit gives to one balance what it takes from the money on its way.
LEMMA BooksCredit ==
  ASSUME NEW b \in [Accounts -> Int], NEW d \in [Orders -> Nat],
         NEW c \in [Orders -> Nat], NEW a \in Accounts, NEW i \in Orders
  PROVE  Moved(b, d, c, [b EXCEPT ![a] = @ + Amount(i)],
               d, [c EXCEPT ![i] = @ + 1])
  <1> DEFINE h == [b EXCEPT ![a] = @ + Amount(i)]
             cc == [c EXCEPT ![i] = @ + 1]
  <1>1. Amount(i) \in Nat
    BY OrderFacts
  <1>2. /\ h \in [Accounts -> Int] /\ cc \in [Orders -> Nat]
        /\ \A x \in Accounts : x # a => h[x] = b[x]
        /\ h[a] = b[a] + Amount(i) /\ b[a] \in Int
        /\ \A j \in Orders : j # i => d[j] = d[j] /\ cc[j] = c[j]
        /\ cc[i] = c[i] + 1 /\ d[i] \in Nat /\ c[i] \in Nat
    BY <1>1
  <1> HIDE DEF h, cc
  <1>3. /\ Pending(d, cc)[i] = Pending(d, c)[i] - Amount(i)
        /\ Pending(d, c)[i] \in Int
    <2>1. /\ (d[i] - (c[i] + 1)) * Amount(i) = (d[i] - c[i]) * Amount(i) - Amount(i)
          /\ (d[i] - c[i]) * Amount(i) \in Int
      BY <1>1, <1>2, Factors
    <2>2. /\ Pending(d, cc)[i] = (d[i] - (c[i] + 1)) * Amount(i)
          /\ Pending(d, c)[i] = (d[i] - c[i]) * Amount(i)
      BY <1>2 DEF Pending
    <2> QED
      BY <2>1, <2>2
  <1>4. h[a] + Pending(d, cc)[i] = b[a] + Pending(d, c)[i]
    BY <1>1, <1>2, <1>3
  <1>5. Moved(b, d, c, h, d, cc)
    BY <1>2, <1>4 DEF Moved
  <1> QED
    BY <1>5 DEF h, cc

\* A step leaves the balances alone, or takes or gives the amount of one order.
Debit(a, i) ==
  /\ balance' = [balance EXCEPT ![a] = @ - Amount(i)]
  /\ debited' = [debited EXCEPT ![i] = @ + 1]
  /\ credited' = credited

Credit(a, i) ==
  /\ balance' = [balance EXCEPT ![a] = @ + Amount(i)]
  /\ credited' = [credited EXCEPT ![i] = @ + 1]
  /\ debited' = debited

LEMMA MoneySteps ==
  ASSUME IInv, [Next]_vars
  PROVE  \/ UNCHANGED <<balance, debited, credited>>
         \/ \E a \in Accounts, i \in Orders : Debit(a, i) \/ Credit(a, i)
  <1> DEFINE Goal ==
        \/ UNCHANGED <<balance, debited, credited>>
        \/ \E a \in Accounts, i \in Orders : Debit(a, i) \/ Credit(a, i)
  <1>1. chan \in Channels
    BY DEF IInv, TypeOK
  <1>2. ASSUME NEW a \in Accounts, NEW p \in Procs \ {a},
               HandleTransferAsSource(a, p)
        PROVE  Goal
    <2>1. PICK i \in Orders : Debit(a, i)
      BY <1>1, <1>2, ReceivedFacts
      DEF HandleTransferAsSource, ReceivedInLoop, Debit
    <2> QED
      BY <2>1
  <1>3. ASSUME NEW a \in Accounts, NEW p \in Procs \ {a},
               HandleTransferAsDestination(a, p)
        PROVE  Goal
    <2>1. PICK i \in Orders : Credit(a, i)
      BY <1>1, <1>3, ReceivedFacts
      DEF HandleTransferAsDestination, ReceivedInLoop, Credit
    <2> QED
      BY <2>1
  <1>4. ASSUME NEW a \in Accounts, Account(a)
        PROVE  Goal
    <2>1. CASE \A p \in Procs \ {a} : /\ ~ HandleTransferAsSource(a, p)
                                      /\ ~ HandleTransferAsDestination(a, p)
      BY <1>4, <2>1
         DEF Account, ChildStep, SendStarted, WaitStarted, HandleStop,
             HandleOther, WaitAllDone, SendHistory
    <2> QED
      BY <1>2, <1>3, <2>1
  <1>5. ASSUME UNCHANGED childVars
        PROVE  Goal
    BY <1>5 DEF childVars
  <1> HIDE DEF Goal
  <1>6. Goal
    BY <1>4, <1>5 DEF Next, Main, Worker, Terminated, vars
  <1> QED
    BY <1>6 DEF Goal

\* For every workload, what the accounts have lost is on its way to them.
LEMMA BooksAlwaysBalance == Spec => []BooksBalance
  <1>1. Init => BooksBalance
    <2> SUFFICES ASSUME Init
                 PROVE  BooksBalance
      OBVIOUS
    <2>1. /\ debited = [i \in Orders |-> 0] /\ credited = [i \in Orders |-> 0]
          /\ balance = InitialBalance
      BY DEF Init, ChildInit
    <2>2. \A i \in Orders : Pending(debited, credited)[i] = 0
      BY <2>1, OrderFacts DEF Pending
    <2>3. Pending(debited, credited) \in [Orders -> Int]
      BY <2>1, PendingType
    <2>4. SumOf(Pending(debited, credited), Orders) = 0
      BY <2>2, <2>3, FiniteData, SumOfZeroes
    <2>5. InitialBalance \in [Accounts -> Int]
      BY InitialBalanceAssumption
    <2>6. SumOf(InitialBalance, Accounts) \in Int
      BY <2>5, FiniteData, SumOfType
    <2> QED
      BY <2>1, <2>4, <2>6 DEF BooksBalance, Worth
  <1>2. IInv /\ BooksBalance /\ [Next]_vars => BooksBalance'
    <2> SUFFICES ASSUME IInv, BooksBalance, [Next]_vars
                 PROVE  BooksBalance'
      OBVIOUS
    <2>0. /\ balance \in [Accounts -> Int]
          /\ debited \in [Orders -> Nat]
          /\ credited \in [Orders -> Nat]
      BY DEF IInv, TypeOK, ChildTypeOK
    <2>1. CASE UNCHANGED <<balance, debited, credited>>
      BY <2>1 DEF BooksBalance
    <2>2. ASSUME NEW a \in Accounts, NEW i \in Orders, Debit(a, i)
          PROVE  BooksBalance'
      <3>1. Moved(balance, debited, credited, balance', debited', credited')
        BY <2>0, <2>2, BooksDebit DEF Debit
      <3>2. Worth(balance', debited', credited') = Worth(balance, debited, credited)
        BY <3>1, BooksChange
      <3> QED
        BY <3>2 DEF BooksBalance
    <2>3. ASSUME NEW a \in Accounts, NEW i \in Orders, Credit(a, i)
          PROVE  BooksBalance'
      <3>1. Moved(balance, debited, credited, balance', debited', credited')
        BY <2>0, <2>3, BooksCredit DEF Credit
      <3>2. Worth(balance', debited', credited') = Worth(balance, debited, credited)
        BY <3>1, BooksChange
      <3> QED
        BY <3>2 DEF BooksBalance
    <2> QED
      BY <2>1, <2>2, <2>3, MoneySteps
  <1> QED
    BY <1>1, <1>2, Invariance, PTL DEF Spec

\* Money is neither created nor destroyed (banking.h:16-21).
THEOREM MoneyIsConserved ==
  ASSUME LocalWorkload
  PROVE  Spec => []Conservation
  <1>1. IInv /\ BooksBalance /\ ForwardedOnce => Conservation
    <2> SUFFICES ASSUME IInv, BooksBalance, ForwardedOnce
                 PROVE  Conservation
      OBVIOUS
    <2>1. TotalBalance = SumOf(balance, Accounts)
      BY DEF TotalBalance, MapThenSumSet, MapThenFoldSet, SumOf, IsSum,
             PartialSum, First
    <2>2. InitialTotal = SumOf(InitialBalance, Accounts)
      BY DEF InitialTotal, MapThenSumSet, MapThenFoldSet, SumOf, IsSum,
             PartialSum, First
    <2>3. InFlight = SumOf(Pending(debited, credited), Orders)
      <3> DEFINE Rec(g) ==
            g = [s \in SUBSET Orders |->
                   IF s = {} THEN 0
                   ELSE LET x == CHOOSE x \in s : TRUE
                        IN  MessagesOf(x, Src(x), Dst(x)) * Amount(x) + g[s \ {x}]]
      <3>1. InFlight = (CHOOSE g : Rec(g))[Orders]
        BY DEF InFlight, MapThenSumSet, MapThenFoldSet
      <3>2. ASSUME NEW i \in Orders
            PROVE  MessagesOf(i, Src(i), Dst(i)) * Amount(i)
                     = Pending(debited, credited)[i]
        <4>1. /\ debited[i] = MessagesOf(i, Src(i), Dst(i)) + credited[i]
              /\ debited[i] \in Nat /\ credited[i] \in Nat
          BY DEF ForwardedOnce, IInv, TypeOK, ChildTypeOK
        <4>2. MessagesOf(i, Src(i), Dst(i)) \in Nat
          <5>1. chan[Src(i)][Dst(i)] \in Seq(Message)
            BY OrderFacts, ProcFacts, ChannelType DEF IInv, TypeOK
          <5>2. MessagesOf(i, Src(i), Dst(i))
                  = HowMany(chan[Src(i)][Dst(i)], {Msg("TRANSFER", i)})
            BY <5>1, MessageCount DEF MessagesOf
          <5> QED
            BY <5>1, <5>2, HowManyType
        <4>3. debited[i] - credited[i] = MessagesOf(i, Src(i), Dst(i))
          BY <4>1, <4>2
        <4> QED
          BY <4>3 DEF Pending
      <3>3. Pending(debited, credited) \in [Orders -> Int]
        BY PendingType DEF IInv, TypeOK, ChildTypeOK
      <3>4. ASSUME NEW s \in SUBSET Orders, s # {}
            PROVE  First(s) \in Orders
        BY <3>4 DEF First
      <3>5. ASSUME NEW g
            PROVE  Rec(g) <=> IsSum(g, Pending(debited, credited), Orders)
        <4>1. ASSUME NEW s \in SUBSET Orders
              PROVE  (IF s = {} THEN 0
                      ELSE LET x == CHOOSE x \in s : TRUE
                           IN  MessagesOf(x, Src(x), Dst(x)) * Amount(x) + g[s \ {x}])
                       = PartialSum(Pending(debited, credited), g, s)
          <5>1. CASE s = {}
            BY <5>1 DEF PartialSum
          <5>2. CASE s # {}
            <6>1. MessagesOf(First(s), Src(First(s)), Dst(First(s))) * Amount(First(s))
                    = Pending(debited, credited)[First(s)]
              BY <3>2, <3>4, <5>2
            <6> QED
              BY <5>2, <6>1 DEF PartialSum, First
          <5> QED
            BY <5>1, <5>2
        <4>2. [s \in SUBSET Orders |->
                 IF s = {} THEN 0
                 ELSE LET x == CHOOSE x \in s : TRUE
                      IN  MessagesOf(x, Src(x), Dst(x)) * Amount(x) + g[s \ {x}]]
                = [s \in SUBSET Orders |->
                     PartialSum(Pending(debited, credited), g, s)]
          BY <4>1
        <4> QED
          BY <4>2 DEF IsSum
      <3>6. \E g : IsSum(g, Pending(debited, credited), Orders)
        BY <3>3, FiniteData, SumExists
      <3> HIDE DEF Rec
      <3>7. Rec(CHOOSE g : Rec(g))
        BY <3>5, <3>6
      <3>8. IsSum(CHOOSE g : Rec(g), Pending(debited, credited), Orders)
        BY <3>5, <3>7
      <3> QED
        BY <3>1, <3>3, <3>8, FiniteData, SumUnique
    <2> QED
      BY <2>1, <2>2, <2>3 DEF Conservation, BooksBalance, Worth
  <1> QED
    BY <1>1, Invariance, BooksAlwaysBalance, ForwardedExactlyOnce, PTL

-----------------------------------------------------------------------------
(***************************************************************************)
(* How far a balance can go.  An account has lost at most what was debited *)
(* in all, and gained at most what was credited.                           *)
(***************************************************************************)
\* The amount of each order, as often as n says.
Moves(n) == [i \in Orders |-> n[i] * Amount(i)]

BalanceRange ==
  \A a \in Accounts :
    /\ InitialBalance[a] - SumOf(Moves(debited), Orders) <= balance[a]
    /\ balance[a] <= InitialBalance[a] + SumOf(Moves(credited), Orders)

LEMMA MovesType ==
  ASSUME NEW n \in [Orders -> Nat]
  PROVE  /\ Moves(n) \in [Orders -> Int]
         /\ \A i \in Orders : Amount(i) \in Nat /\ Moves(n)[i] = n[i] * Amount(i)
         /\ SumOf(Moves(n), Orders) \in Int
  <1>1. \A i \in Orders : Amount(i) \in Nat /\ n[i] * Amount(i) \in Int
    <2> TAKE i \in Orders
    <2>1. n[i] \in Nat /\ Amount(i) \in Nat
      BY OrderFacts
    <2> QED
      BY <2>1
  <1>2. Moves(n) \in [Orders -> Int]
    BY <1>1 DEF Moves
  <1>3. SumOf(Moves(n), Orders) \in Int
    BY <1>2, FiniteData, SumOfType
  <1> QED
    BY <1>1, <1>2, <1>3 DEF Moves

LEMMA MovesChange ==
  ASSUME NEW n \in [Orders -> Nat], NEW i \in Orders
  PROVE  SumOf(Moves([n EXCEPT ![i] = @ + 1]), Orders)
           = SumOf(Moves(n), Orders) + Amount(i)
  <1> DEFINE m == [n EXCEPT ![i] = @ + 1]
  <1>1. /\ m \in [Orders -> Nat] /\ m[i] = n[i] + 1 /\ n[i] \in Nat
        /\ \A j \in Orders : j # i => m[j] = n[j]
    OBVIOUS
  <1> HIDE DEF m
  <1>2. /\ Moves(n) \in [Orders -> Int] /\ Moves(m) \in [Orders -> Int]
        /\ Amount(i) \in Nat
        /\ SumOf(Moves(n), Orders) \in Int
    BY <1>1, MovesType
  <1>3. Moves(m)[i] = Moves(n)[i] + Amount(i) /\ Moves(n)[i] \in Int
    <2>1. \A x, y \in Nat : (x + 1) * y = x * y + y
      OBVIOUS
    <2>2. Moves(m)[i] = (n[i] + 1) * Amount(i) /\ Moves(n)[i] = n[i] * Amount(i)
      BY <1>1 DEF Moves
    <2>3. (n[i] + 1) * Amount(i) = n[i] * Amount(i) + Amount(i)
      BY <1>1, <1>2, <2>1
    <2> QED
      BY <1>2, <2>2, <2>3
  <1>4. \A j \in Orders : j # i => Moves(m)[j] = Moves(n)[j]
    BY <1>1 DEF Moves
  <1>5. SumOf(Moves(m), Orders) = SumOf(Moves(n), Orders) - Moves(n)[i] + Moves(m)[i]
    BY <1>2, <1>4, FiniteData, SumOfChange
  <1>6. SumOf(Moves(m), Orders) = SumOf(Moves(n), Orders) + Amount(i)
    BY <1>2, <1>3, <1>5
  <1> QED
    BY <1>6 DEF m

LEMMA BalancesInRange == Spec => []BalanceRange
  <1>1. Init => BalanceRange
    <2> SUFFICES ASSUME Init, NEW a \in Accounts
                 PROVE  /\ InitialBalance[a] - SumOf(Moves(debited), Orders) <= balance[a]
                        /\ balance[a] <= InitialBalance[a] + SumOf(Moves(credited), Orders)
      BY DEF BalanceRange
    <2> DEFINE zero == [i \in Orders |-> 0]
    <2>1. debited = zero /\ credited = zero /\ balance = InitialBalance
      BY DEF Init, ChildInit
    <2>2. zero \in [Orders -> Nat] /\ \A i \in Orders : zero[i] = 0
      OBVIOUS
    <2> HIDE DEF zero
    <2>3. Moves(zero) \in [Orders -> Int] /\ \A i \in Orders : Moves(zero)[i] = 0
      BY <2>2, MovesType
    <2>4. SumOf(Moves(zero), Orders) = 0
      BY <2>3, FiniteData, SumOfZeroes
    <2>5. InitialBalance[a] \in Int
      BY InitialBalanceAssumption
    <2> QED
      BY <2>1, <2>4, <2>5
  <1>2. IInv /\ BalanceRange /\ [Next]_vars => BalanceRange'
    <2> SUFFICES ASSUME IInv, BalanceRange, [Next]_vars
                 PROVE  BalanceRange'
      OBVIOUS
    <2>0. /\ balance \in [Accounts -> Int]
          /\ debited \in [Orders -> Nat]
          /\ credited \in [Orders -> Nat]
          /\ \A a \in Accounts : InitialBalance[a] \in Int
      BY InitialBalanceAssumption DEF IInv, TypeOK, ChildTypeOK
    <2> DEFINE lost == SumOf(Moves(debited), Orders)
               gained == SumOf(Moves(credited), Orders)
    <2>1. lost \in Int /\ gained \in Int
      BY <2>0, MovesType
    <2>2. \A b \in Accounts : /\ InitialBalance[b] - lost <= balance[b]
                              /\ balance[b] <= InitialBalance[b] + gained
      BY DEF BalanceRange
    <2> HIDE DEF lost, gained
    <2>3. CASE UNCHANGED <<balance, debited, credited>>
      BY <2>3 DEF BalanceRange
    <2>4. ASSUME NEW a \in Accounts, NEW i \in Orders, Debit(a, i)
          PROVE  BalanceRange'
      <3>1. Amount(i) \in Nat
        BY OrderFacts
      <3>2. /\ SumOf(Moves(debited'), Orders) = lost + Amount(i)
            /\ SumOf(Moves(credited'), Orders) = gained
        BY <2>0, <2>4, MovesChange DEF Debit, lost, gained
      <3>3. \A b \in Accounts :
              balance'[b] = IF b = a THEN balance[b] - Amount(i) ELSE balance[b]
        BY <2>0, <2>4 DEF Debit
      <3>4. \A b \in Accounts : /\ InitialBalance[b] - (lost + Amount(i)) <= balance'[b]
                                /\ balance'[b] <= InitialBalance[b] + gained
        BY <2>0, <2>1, <2>2, <3>1, <3>3
      <3> QED
        BY <3>2, <3>4 DEF BalanceRange
    <2>5. ASSUME NEW a \in Accounts, NEW i \in Orders, Credit(a, i)
          PROVE  BalanceRange'
      <3>1. Amount(i) \in Nat
        BY OrderFacts
      <3>2. /\ SumOf(Moves(debited'), Orders) = lost
            /\ SumOf(Moves(credited'), Orders) = gained + Amount(i)
        BY <2>0, <2>5, MovesChange DEF Credit, lost, gained
      <3>3. \A b \in Accounts :
              balance'[b] = IF b = a THEN balance[b] + Amount(i) ELSE balance[b]
        BY <2>0, <2>5 DEF Credit
      <3>4. \A b \in Accounts : /\ InitialBalance[b] - lost <= balance'[b]
                                /\ balance'[b] <= InitialBalance[b] + (gained + Amount(i))
        BY <2>0, <2>1, <2>2, <3>1, <3>3
      <3> QED
        BY <3>2, <3>4 DEF BalanceRange
    <2> QED
      BY <2>3, <2>4, <2>5, MoneySteps
  <1> QED
    BY <1>1, <1>2, Invariance, PTL DEF Spec

\* What all orders are about.
Turnover == SumOf([i \in Orders |-> Amount(i)], Orders)

\* With local transfers no order is debited or credited twice, so no balance
\* goes further from the initial one than the amount of all orders.
THEOREM BalancesStayNear ==
  ASSUME LocalWorkload
  PROVE  Spec => [](\A a \in Accounts :
                      /\ InitialBalance[a] - Turnover <= balance[a]
                      /\ balance[a] <= InitialBalance[a] + Turnover)
  <1> DEFINE Near == \A a \in Accounts :
                       /\ InitialBalance[a] - Turnover <= balance[a]
                       /\ balance[a] <= InitialBalance[a] + Turnover
  <1>1. ASSUME NEW n \in [Orders -> Nat], \A i \in Orders : n[i] <= 1
        PROVE  /\ SumOf(Moves(n), Orders) <= Turnover
               /\ SumOf(Moves(n), Orders) \in Int /\ Turnover \in Int
    <2> DEFINE f == [i \in Orders |-> Amount(i)]
    <2>1. \A i \in Orders : Amount(i) \in Nat
      BY OrderFacts
    <2>2. f \in [Orders -> Int] /\ \A i \in Orders : f[i] = Amount(i)
      BY <2>1
    <2>3. Moves(n) \in [Orders -> Int] /\ SumOf(Moves(n), Orders) \in Int
      BY MovesType
    <2> HIDE DEF f
    <2>4. \A i \in Orders : Moves(n)[i] <= f[i]
      <3> TAKE i \in Orders
      <3>1. n[i] = 0 \/ n[i] = 1
        BY <1>1
      <3>2. Moves(n)[i] = n[i] * Amount(i) /\ Amount(i) \in Nat
        BY MovesType
      <3> QED
        BY <2>2, <3>1, <3>2
    <2>5. SumOf(Moves(n), Orders) <= SumOf(f, Orders) /\ SumOf(f, Orders) \in Int
      BY <2>2, <2>3, <2>4, FiniteData, SumOfLarger, SumOfType
    <2> QED
      BY <2>3, <2>5 DEF Turnover, f
  <1>2. IInv /\ LocalInv /\ CreditedOnce /\ BalanceRange => Near
    <2> SUFFICES ASSUME IInv, LocalInv, CreditedOnce, BalanceRange,
                        NEW a \in Accounts
                 PROVE  /\ InitialBalance[a] - Turnover <= balance[a]
                        /\ balance[a] <= InitialBalance[a] + Turnover
      OBVIOUS
    <2>1. /\ balance[a] \in Int /\ InitialBalance[a] \in Int
          /\ debited \in [Orders -> Nat] /\ credited \in [Orders -> Nat]
      BY InitialBalanceAssumption DEF IInv, TypeOK, ChildTypeOK
    <2>2. \A i \in Orders : credited[i] <= 1
      BY DEF CreditedOnce
    <2>3. \A i \in Orders : debited[i] <= 1
      <3> TAKE i \in Orders
      <3>1. /\ debited[i] \in Nat /\ credited[i] \in Nat
            /\ Requests(i) \in Nat /\ Forwards(i) \in Nat
        BY OrderNumbers
      <3>2. Balanced(Held(i), Requests(i), Forwards(i), Replies(i), debited[i],
                     credited[i])
        BY DEF LocalInv, OrderInv
      <3> QED
        BY <2>2, <3>1, <3>2 DEF Balanced
    <2>4. /\ InitialBalance[a] - SumOf(Moves(debited), Orders) <= balance[a]
          /\ balance[a] <= InitialBalance[a] + SumOf(Moves(credited), Orders)
      BY DEF BalanceRange
    <2>5. /\ SumOf(Moves(debited), Orders) <= Turnover
          /\ SumOf(Moves(credited), Orders) <= Turnover
          /\ SumOf(Moves(debited), Orders) \in Int
          /\ SumOf(Moves(credited), Orders) \in Int
          /\ Turnover \in Int
      BY <1>1, <2>1, <2>2, <2>3
    <2> QED
      BY <2>1, <2>4, <2>5
  <1> HIDE DEF Near
  <1>3. Spec => []Near
    BY <1>2, Invariance, LocalInvariance, NoDoubleCredit, BalancesInRange, PTL
  <1> QED
    BY <1>3 DEF Near
=============================================================================
