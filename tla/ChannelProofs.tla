--------------------------- MODULE ChannelProofs ---------------------------
(***************************************************************************)
(* What can be in a channel, by who its two ends are and where they are:   *)
(* the two barriers of BankSystem, for any number of accounts and shards,  *)
(* any workload and either version of the account process.                 *)
(***************************************************************************)
EXTENDS BankSystemProofs, Counting

-----------------------------------------------------------------------------
(***************************************************************************)
(* One channel before and after a send or a receive.                       *)
(***************************************************************************)
LEMMA ChannelType ==
  \A c \in Channels, p, q \in Procs : c[p][q] \in Seq(Message)
  BY DEF Channels

LEMMA SendAt ==
  \A c \in Channels, p, q, x, y \in Procs : \A m :
    Send(c, p, q, m)[x][y] =
      IF x = p /\ y = q THEN Append(c[p][q], m) ELSE c[x][y]
  BY DEF Channels, Send

LEMMA ReceiveAt ==
  \A c \in Channels, p, q, x, y \in Procs :
    Receive(c, p, q)[x][y] =
      IF x = p /\ y = q THEN Tail(c[p][q]) ELSE c[x][y]
  BY DEF Channels, Receive

LEMMA MulticastAt ==
  \A c \in Channels, p, x, y \in Procs : \A m :
    SendMulticast(c, p, m)[x][y] =
      IF x = p /\ y # p THEN Append(c[x][y], m) ELSE c[x][y]
  BY DEF Channels, SendMulticast

-----------------------------------------------------------------------------
(***************************************************************************)
(* Which messages a channel carries depends only on its two ends.          *)
(***************************************************************************)
Carries(p, q) ==
  { m \in Message :
      /\ m.type = "TRANSFER" => IF p = Parent
                                THEN q \in {Src(m.val), Dst(m.val)}
                                ELSE p = Src(m.val) /\ q = Dst(m.val)
      /\ m.type = "STOP" => p = Parent
      /\ m.type \in {"STARTED", "DONE"} => p # Parent
      /\ m.type \in {"ACK", "BALANCE_HISTORY"} => p # Parent /\ q = Parent }

Kinds(c) == \A p, q \in Procs : c[p][q] \in Seq(Carries(p, q))

KindInv == Kinds(chan)

\* What the processes send.
LEMMA CarriesFacts ==
  /\ \A i \in Orders : /\ Msg("TRANSFER", i) \in Carries(Parent, Src(i))
                       /\ Msg("TRANSFER", i) \in Carries(Parent, Dst(i))
                       /\ Msg("TRANSFER", i) \in Carries(Src(i), Dst(i))
  /\ \A q \in Procs : Msg("STOP", 0) \in Carries(Parent, q)
  /\ \A a \in Accounts, q \in Procs : /\ Msg("STARTED", 0) \in Carries(a, q)
                                      /\ Msg("DONE", 0) \in Carries(a, q)
  /\ \A a \in Accounts : Msg("ACK", 0) \in Carries(a, Parent)
  /\ \A a \in Accounts, b \in Int :
       Msg("BALANCE_HISTORY", b) \in Carries(a, Parent)
  <1>1. \A i \in Orders : Src(i) # Parent
    BY OrderFacts, ProcFacts
  <1>2. \A a \in Accounts : a # Parent
    BY ProcFacts
  <1> QED
    BY <1>1, <1>2, MessageFacts DEF Carries, Msg

LEMMA KindsSend ==
  ASSUME NEW c \in Channels, Kinds(c), NEW p \in Procs, NEW q \in Procs,
         NEW m \in Carries(p, q)
  PROVE  Send(c, p, q, m) \in Channels /\ Kinds(Send(c, p, q, m))
  <1>1. Send(c, p, q, m) \in Channels
    BY SendType DEF Carries
  <1>2. ASSUME NEW x \in Procs, NEW y \in Procs
        PROVE  Send(c, p, q, m)[x][y] \in Seq(Carries(x, y))
    <2>1. Append(c[p][q], m) \in Seq(Carries(p, q))
      BY AppendFacts DEF Kinds
    <2>2. Send(c, p, q, m)[x][y] =
            IF x = p /\ y = q THEN Append(c[p][q], m) ELSE c[x][y]
      BY SendAt
    <2>3. c[x][y] \in Seq(Carries(x, y))
      BY DEF Kinds
    <2>4. CASE x = p /\ y = q
      BY <2>1, <2>2, <2>4
    <2> QED
      BY <2>2, <2>3, <2>4
  <1> QED
    BY <1>1, <1>2 DEF Kinds

LEMMA KindsMulticast ==
  ASSUME NEW c \in Channels, Kinds(c), NEW p \in Procs, NEW m,
         \A q \in Procs : m \in Carries(p, q)
  PROVE  SendMulticast(c, p, m) \in Channels /\ Kinds(SendMulticast(c, p, m))
  <1>1. m \in Message
    BY ProcFacts DEF Carries
  <1>2. SendMulticast(c, p, m) \in Channels
    BY <1>1, MulticastType
  <1>3. ASSUME NEW x \in Procs, NEW y \in Procs
        PROVE  SendMulticast(c, p, m)[x][y] \in Seq(Carries(x, y))
    <2>1. Append(c[p][y], m) \in Seq(Carries(p, y))
      BY AppendFacts DEF Kinds
    <2>2. SendMulticast(c, p, m)[x][y] =
            IF x = p /\ y # p THEN Append(c[x][y], m) ELSE c[x][y]
      BY MulticastAt
    <2>3. c[x][y] \in Seq(Carries(x, y))
      BY DEF Kinds
    <2>4. CASE x = p /\ y # p
      BY <2>1, <2>2, <2>4
    <2> QED
      BY <2>2, <2>3, <2>4
  <1> QED
    BY <1>2, <1>3 DEF Kinds

LEMMA KindsReceive ==
  ASSUME NEW c \in Channels, Kinds(c), NEW p \in Procs, NEW q \in Procs,
         c[p][q] # << >>
  PROVE  /\ Receive(c, p, q) \in Channels
         /\ Kinds(Receive(c, p, q))
         /\ Head(c[p][q]) \in Carries(p, q)
  <1>1. /\ Tail(c[p][q]) \in Seq(Carries(p, q))
        /\ Head(c[p][q]) \in Carries(p, q)
    BY TakeHeadFacts DEF Kinds
  <1>2. Tail(c[p][q]) \in Seq(Message)
    BY ChannelType, TakeHeadFacts
  <1>3. Receive(c, p, q) \in Channels
    BY <1>2 DEF Receive, Channels
  <1>4. ASSUME NEW x \in Procs, NEW y \in Procs
        PROVE  Receive(c, p, q)[x][y] \in Seq(Carries(x, y))
    <2>1. Receive(c, p, q)[x][y] =
            IF x = p /\ y = q THEN Tail(c[p][q]) ELSE c[x][y]
      BY ReceiveAt
    <2>2. c[x][y] \in Seq(Carries(x, y))
      BY DEF Kinds
    <2>3. CASE x = p /\ y = q
      BY <1>1, <2>1, <2>3
    <2> QED
      BY <2>1, <2>2, <2>3
  <1> QED
    BY <1>1, <1>3, <1>4 DEF Kinds

-----------------------------------------------------------------------------
(***************************************************************************)
(* The steps of the parent, by what they do to the channels and to the two *)
(* barriers.                                                               *)
(***************************************************************************)
AfterStop == main_pc \in {"phase3", "phase4", "finished"}
Serving == main_pc # "phase1" /\ ~ AfterStop

\* A worker sends order i to one of its accounts, or receives from the other.
SendsOrder(i) ==
  /\ Serving
  /\ \/ chan' = Send(chan, Parent, Src(i), Msg("TRANSFER", i))
     \/ chan' = Send(chan, Parent, Dst(i), Msg("TRANSFER", i))
  /\ UNCHANGED <<childVars, mainVars>>

AwaitsOrder(i) ==
  /\ Serving
  /\ HasMessage(Dst(i), Parent)
  /\ chan' = Receive(chan, Dst(i), Parent)
  /\ UNCHANGED <<childVars, mainVars>>

Quiet ==
  /\ UNCHANGED <<chan, childVars, AfterStop, main_pc = "phase1">>
  /\ main_pc = "phase1" => UNCHANGED cursor

LEMMA WorkerChannels ==
  ASSUME IInv, NEW s \in Shards, Worker(s)
  PROVE  \/ Quiet
         \/ \E i \in Orders : SendsOrder(i) \/ AwaitsOrder(i)
  <1>1. UNCHANGED childVars /\ UNCHANGED mainVars
    BY DEF Worker
  <1>2. CASE UNCHANGED chan
    BY <1>1, <1>2 DEF Quiet, mainVars, AfterStop
  <1>3. CASE LocalSend(s) \/ Step1Send(s) \/ Step2Send(s)
    <2>1. worker_pc[s] \in SourcePcs \cup AckPcs
      BY <1>3 DEF LocalSend, Step1Send, Step2Send, WorkerAt, SourcePcs, AckPcs
    <2>2. task[s] \in Tasks /\ Serving
      BY <2>1 DEF IInv, Routed, WorkerRouted, PhaseInv, Serving, AfterStop,
                  SourcePcs, AckPcs
    <2>3. task[s].order \in Orders
      BY <2>2, TaskFacts
    <2> QED
      BY <1>1, <1>3, <2>2, <2>3
      DEF LocalSend, Step1Send, Step2Send, SendOrder, SendsOrder
  <1>4. CASE LocalAck(s) \/ Step2Ack(s)
    <2>1. worker_pc[s] \in AckPcs
      BY <1>4 DEF LocalAck, Step2Ack, WorkerAt, AckPcs
    <2>2. task[s] \in Tasks /\ Serving
      BY <2>1 DEF IInv, Routed, WorkerRouted, PhaseInv, Serving, AfterStop, AckPcs
    <2>3. task[s].order \in Orders
      BY <2>2, TaskFacts
    <2> QED
      BY <1>1, <1>4, <2>2, <2>3 DEF LocalAck, Step2Ack, AwaitsOrder
  <1> QED
    BY <1>2, <1>3, <1>4
    DEF Worker, WorkerStep, WorkerTake, WorkerExit, Step1Found, Step1NotFound,
        Step2Push, Step2Notify, Step2Cleanup, Crash

LEMMA ParentChannels ==
  ASSUME IInv, [Next]_vars
  PROVE  \/ Quiet
         \/ \E i \in Orders : SendsOrder(i) \/ AwaitsOrder(i)
         \/ Phase1WaitStartup /\ UNCHANGED childVars
         \/ Phase3Stop /\ UNCHANGED childVars
         \/ (Phase3WaitDone \/ Phase4CollectHistory) /\ UNCHANGED childVars
         \/ \E a \in Accounts : Account(a)
  <1>1. CASE Phase2Submit /\ UNCHANGED childVars
    BY <1>1 DEF Phase2Submit, SubmitTransfer, MainAt, Iterate, Quiet, AfterStop
  <1>2. CASE WaitAllComplete /\ UNCHANGED childVars
    BY <1>2 DEF WaitAllComplete, MainAt, Iterate, Quiet, AfterStop
  <1>3. CASE DestroyContexts /\ UNCHANGED childVars
    BY <1>3 DEF DestroyContexts, MainAt, Quiet, AfterStop
  <1>4. CASE StopShard /\ UNCHANGED childVars
    BY <1>4 DEF StopShard, MainAt, Quiet, AfterStop
  <1>5. CASE JoinShard /\ UNCHANGED childVars
    BY <1>5 DEF JoinShard, MainAt, Iterate, Quiet, AfterStop
  <1>6. CASE UNCHANGED vars
    BY <1>6 DEF vars, parentVars, mainVars, Quiet, AfterStop
  <1> QED
    BY <1>1, <1>2, <1>3, <1>4, <1>5, <1>6, WorkerChannels
    DEF Next, Main, MainStep, Terminated
-----------------------------------------------------------------------------
(***************************************************************************)
(* The steps of an account, by what they do to the channels.               *)
(***************************************************************************)
LEMMA OrderEnds == \A i \in Orders : Src(i) # Dst(i)
  BY WorkloadAssumption DEF Orders, Src, Dst

LEMMA TransferFacts ==
  \A m \in Message : m.type = "TRANSFER" => m = Msg("TRANSFER", m.val)
  BY DEF Message, MessageTypes, Msg

\* The other types of message carry nothing that an account looks at.
LEMMA PlainFacts ==
  \A m \in Message : m.type \in {"STARTED", "DONE", "ACK", "STOP"} =>
                       m = Msg(m.type, 0)
  BY DEF Message, MessageTypes, Msg

\* A debit answers a request of the parent: an account is never both ends of
\* an order.
LEMMA SourceTurn ==
  ASSUME IInv, KindInv, NEW a \in Accounts, NEW p \in Procs \ {a},
         HandleTransferAsSource(a, p)
  PROVE  LET i == Oldest(p, a).val IN
         /\ i \in Orders
         /\ Src(i) = a
         /\ p = Parent
         /\ chan[Parent][a] # << >>
         /\ Head(chan[Parent][a]) = Msg("TRANSFER", i)
         /\ chan' = Send(Receive(chan, Parent, a), a, Dst(i), Msg("TRANSFER", i))
  <1> DEFINE i == Oldest(p, a).val
  <1>1. /\ a \in Procs
        /\ HasMessage(p, a)
        /\ Oldest(p, a).type = "TRANSFER"
        /\ Src(i) = a
        /\ chan' = Send(Receive(chan, p, a), a, Dst(i), Msg("TRANSFER", i))
    BY ProcFacts DEF HandleTransferAsSource, ReceivedInLoop
  <1>2. Oldest(p, a) \in Carries(p, a)
    BY <1>1, KindsReceive DEF KindInv, IInv, TypeOK, HasMessage, Oldest
  <1>3. Oldest(p, a) = Msg("TRANSFER", i) /\ i \in Orders
    BY <1>1, <1>2, TransferFacts, MessageFacts DEF Carries
  <1>4. p = Parent
    BY <1>1, <1>2, <1>3, OrderEnds DEF Carries
  <1> QED
    BY <1>1, <1>3, <1>4 DEF HasMessage, Oldest

\* A credit answers a TRANSFER of the parent (step 2) or of the source.
LEMMA DestinationTurn ==
  ASSUME IInv, KindInv, NEW a \in Accounts, NEW p \in Procs \ {a},
         HandleTransferAsDestination(a, p)
  PROVE  LET i == Oldest(p, a).val IN
         /\ i \in Orders
         /\ Dst(i) = a
         /\ p \in {Parent, Src(i)}
         /\ chan[p][a] # << >>
         /\ Head(chan[p][a]) = Msg("TRANSFER", i)
         /\ chan' = Send(Receive(chan, p, a), a, Parent, Msg("ACK", 0))
  <1> DEFINE i == Oldest(p, a).val
  <1>1. /\ a \in Procs
        /\ HasMessage(p, a)
        /\ Oldest(p, a).type = "TRANSFER"
        /\ Dst(i) = a
        /\ chan' = Send(Receive(chan, p, a), a, Parent, Msg("ACK", 0))
    BY ProcFacts DEF HandleTransferAsDestination, ReceivedInLoop
  <1>2. Oldest(p, a) \in Carries(p, a)
    BY <1>1, KindsReceive DEF KindInv, IInv, TypeOK, HasMessage, Oldest
  <1>3. Oldest(p, a) = Msg("TRANSFER", i) /\ i \in Orders
    BY <1>1, <1>2, TransferFacts, MessageFacts DEF Carries
  <1>4. p \in {Parent, Src(i)}
    BY <1>1, <1>2, <1>3 DEF Carries
  <1> QED
    BY <1>1, <1>3, <1>4 DEF HasMessage, Oldest

\* STOP comes from the parent.
LEMMA StopTurn ==
  ASSUME IInv, KindInv, NEW a \in Accounts, NEW p \in Procs \ {a},
         HandleStop(a, p)
  PROVE  /\ p = Parent
         /\ chan[Parent][a] # << >>
         /\ Head(chan[Parent][a]) = Msg("STOP", 0)
         /\ chan' = SendMulticast(Receive(chan, Parent, a), a, Msg("DONE", 0))
  <1>1. /\ a \in Procs
        /\ HasMessage(p, a)
        /\ Oldest(p, a).type = "STOP"
        /\ chan' = SendMulticast(Receive(chan, p, a), a, Msg("DONE", 0))
    BY ProcFacts DEF HandleStop, ReceivedInLoop
  <1>2. Oldest(p, a) \in Carries(p, a)
    BY <1>1, KindsReceive DEF KindInv, IInv, TypeOK, HasMessage, Oldest
  <1>3. p = Parent /\ Oldest(p, a) = Msg("STOP", 0)
    BY <1>1, <1>2, PlainFacts DEF Carries
  <1> QED
    BY <1>1, <1>3 DEF HasMessage, Oldest

-----------------------------------------------------------------------------
(***************************************************************************)
(* Every channel carries only what its sender sends to its recipient.      *)
(***************************************************************************)
LEMMA KindsAccount ==
  ASSUME IInv, KindInv, NEW a \in Accounts, Account(a)
  PROVE  KindInv'
  <1>0. a \in Procs /\ Parent \in Procs /\ chan \in Channels /\ Kinds(chan)
    BY ProcFacts DEF IInv, TypeOK, KindInv
  <1>1. CASE SendStarted(a)
    <2>1. \A q \in Procs : Msg("STARTED", 0) \in Carries(a, q)
      BY CarriesFacts
    <2> QED
      BY <1>0, <1>1, <2>1, KindsMulticast DEF SendStarted, KindInv
  <1>2. CASE WaitStarted(a)
    <2>1. peer[a] \in Procs
      BY <1>2, ProcFacts DEF WaitStarted, IInv, TypeOK, ChildTypeOK
    <2> QED
      BY <1>0, <1>2, <2>1, KindsReceive DEF WaitStarted, HasMessage, KindInv
  <1>3. ASSUME NEW p \in Procs \ {a},
               \/ HandleTransferAsSource(a, p)
               \/ HandleTransferAsDestination(a, p)
               \/ HandleStop(a, p)
               \/ HandleOther(a, p)
               \/ WaitAllDone(a, p)
        PROVE  KindInv'
    <2>1. chan[p][a] # << >>
      BY <1>3 DEF HandleTransferAsSource, HandleTransferAsDestination, HandleStop,
                  HandleOther, WaitAllDone, ReceivedInLoop, HasMessage
    <2>2. Receive(chan, p, a) \in Channels /\ Kinds(Receive(chan, p, a))
      BY <1>0, <2>1, KindsReceive
    <2>3. CASE HandleTransferAsSource(a, p)
      <3> DEFINE i == Oldest(p, a).val
      <3>1. /\ i \in Orders /\ Src(i) = a /\ p = Parent
            /\ chan' = Send(Receive(chan, p, a), a, Dst(i), Msg("TRANSFER", i))
        BY <2>3, SourceTurn
      <3>2. Msg("TRANSFER", i) \in Carries(a, Dst(i)) /\ Dst(i) \in Procs
        BY <3>1, CarriesFacts, OrderFacts, ProcFacts
      <3> HIDE DEF i
      <3> QED
        BY <1>0, <2>2, <3>1, <3>2, KindsSend DEF KindInv
    <2>4. CASE HandleTransferAsDestination(a, p)
      <3>1. chan' = Send(Receive(chan, p, a), a, Parent, Msg("ACK", 0))
        BY <2>4 DEF HandleTransferAsDestination
      <3>2. Msg("ACK", 0) \in Carries(a, Parent)
        BY CarriesFacts
      <3> QED
        BY <1>0, <2>2, <3>1, <3>2, KindsSend DEF KindInv
    <2>5. CASE HandleStop(a, p)
      <3>1. \A q \in Procs : Msg("DONE", 0) \in Carries(a, q)
        BY CarriesFacts
      <3> QED
        BY <1>0, <2>2, <2>5, <3>1, KindsMulticast DEF HandleStop, KindInv
    <2>6. CASE HandleOther(a, p) \/ WaitAllDone(a, p)
      BY <2>2, <2>6 DEF HandleOther, WaitAllDone, KindInv
    <2> QED
      BY <1>3, <2>3, <2>4, <2>5, <2>6
  <1>4. CASE SendHistory(a)
    <2>1. Msg("BALANCE_HISTORY", balance[a]) \in Carries(a, Parent)
      BY CarriesFacts DEF IInv, TypeOK, ChildTypeOK
    <2> QED
      BY <1>0, <1>4, <2>1, KindsSend DEF SendHistory, KindInv
  <1> QED
    BY <1>1, <1>2, <1>3, <1>4 DEF Account, ChildStep

\* The main thread receives from the account its loop is at.
LEMMA MainReceive ==
  ASSUME IInv,
         \/ Phase1WaitStartup
         \/ Phase3WaitDone
         \/ Phase4CollectHistory
  PROVE  /\ cursor \in Accounts
         /\ chan[cursor][Parent] # << >>
         /\ chan' = Receive(chan, cursor, Parent)
  BY DEF IInv, TypeOK, MainTypeOK, CursorRange, Phase1WaitStartup,
         Phase3WaitDone, Phase4CollectHistory, MainAt, ReceiveNext, HasMessage

LEMMA KindsInductive ==
  /\ Init => KindInv
  /\ IInv /\ KindInv /\ [Next]_vars => KindInv'
  <1>1. Init => KindInv
    <2>1. \A p, q \in Procs : << >> \in Seq(Carries(p, q))
      BY EmptySeq
    <2> QED
      BY <2>1 DEF Init, NetworkInit, KindInv, Kinds
  <1> SUFFICES ASSUME IInv, KindInv, [Next]_vars PROVE KindInv'
    BY <1>1
  <1>0. Parent \in Procs /\ Accounts \subseteq Procs /\ chan \in Channels
        /\ Kinds(chan)
    BY ProcFacts DEF IInv, TypeOK, KindInv
  <1>2. CASE Quiet
    BY <1>2 DEF Quiet, KindInv
  <1>3. ASSUME NEW i \in Orders, SendsOrder(i) \/ AwaitsOrder(i)
        PROVE  KindInv'
    <2>1. Src(i) \in Procs /\ Dst(i) \in Procs
      BY OrderFacts, ProcFacts
    <2>2. /\ Msg("TRANSFER", i) \in Carries(Parent, Src(i))
          /\ Msg("TRANSFER", i) \in Carries(Parent, Dst(i))
      BY CarriesFacts
    <2>3. CASE SendsOrder(i)
      BY <1>0, <2>1, <2>2, <2>3, KindsSend DEF SendsOrder, KindInv
    <2>4. CASE AwaitsOrder(i)
      BY <1>0, <2>1, <2>4, KindsReceive DEF AwaitsOrder, HasMessage, KindInv
    <2> QED
      BY <1>3, <2>3, <2>4
  <1>4. CASE Phase1WaitStartup \/ Phase3WaitDone \/ Phase4CollectHistory
    BY <1>0, <1>4, MainReceive, KindsReceive DEF KindInv
  <1>5. CASE Phase3Stop
    <2>1. \A q \in Procs : Msg("STOP", 0) \in Carries(Parent, q)
      BY CarriesFacts
    <2> QED
      BY <1>0, <1>5, <2>1, KindsMulticast DEF Phase3Stop, KindInv
  <1>6. ASSUME NEW a \in Accounts, Account(a)
        PROVE  KindInv'
    BY <1>6, KindsAccount
  <1> QED
    BY <1>2, <1>3, <1>4, <1>5, <1>6, ParentChannels

-----------------------------------------------------------------------------
(***************************************************************************)
(* Which channels a step of an account touches.                            *)
(***************************************************************************)
LoopStep(a, p) ==
  \/ HandleTransferAsSource(a, p)
  \/ HandleTransferAsDestination(a, p)
  \/ HandleStop(a, p)
  \/ HandleOther(a, p)
  \/ WaitAllDone(a, p)

\* The oldest message from p is taken, and one may go out to each process.
LEMMA LoopChannels ==
  ASSUME IInv, KindInv, NEW a \in Accounts, NEW p \in Procs \ {a}, LoopStep(a, p)
  PROVE  /\ chan[p][a] # << >>
         /\ chan'[p][a] = Tail(chan[p][a])
         /\ \A x, y \in Procs :
              x # a /\ ~ (x = p /\ y = a) => chan'[x][y] = chan[x][y]
         /\ \A y \in Procs \ {a} :
              \/ chan'[a][y] = chan[a][y] /\ ~ HandleStop(a, p)
              \/ \E m \in Carries(a, y) :
                   /\ m.type \in {"TRANSFER", "ACK", "DONE"}
                   /\ m.type = "DONE" <=> HandleStop(a, p)
                   /\ chan'[a][y] = Append(chan[a][y], m)
  <1> DEFINE r == Receive(chan, p, a)
             i == Oldest(p, a).val
             Goal == /\ \A x, y \in Procs : x # a => chan'[x][y] = r[x][y]
                     /\ \A y \in Procs \ {a} :
                          \/ chan'[a][y] = r[a][y] /\ ~ HandleStop(a, p)
                          \/ \E m \in Carries(a, y) :
                               /\ m.type \in {"TRANSFER", "ACK", "DONE"}
                               /\ m.type = "DONE" <=> HandleStop(a, p)
                               /\ chan'[a][y] = Append(r[a][y], m)
  <1>1. a \in Procs /\ Parent \in Procs /\ chan \in Channels /\ Kinds(chan)
    BY ProcFacts DEF IInv, TypeOK, KindInv
  <1>2. chan[p][a] # << >>
    BY DEF LoopStep, HandleTransferAsSource, HandleTransferAsDestination,
           HandleStop, HandleOther, WaitAllDone, ReceivedInLoop, HasMessage
  <1>3. r \in Channels
    BY <1>1, <1>2, KindsReceive
  <1>4. \A x, y \in Procs :
          r[x][y] = IF x = p /\ y = a THEN Tail(chan[p][a]) ELSE chan[x][y]
    BY <1>1, ReceiveAt
  <1> HIDE DEF r
  <1> SUFFICES Goal
    BY <1>1, <1>2, <1>4
  <1>5. CASE HandleTransferAsSource(a, p)
    <2>1. i \in Orders /\ Src(i) = a
      BY <1>5, SourceTurn
    <2>2. chan' = Send(r, a, Dst(i), Msg("TRANSFER", i)) /\ ~ HandleStop(a, p)
      BY <1>5 DEF HandleTransferAsSource, HandleStop, ReceivedInLoop, r
    <2>3. Dst(i) \in Procs /\ Msg("TRANSFER", i) \in Carries(a, Dst(i))
      BY <2>1, OrderFacts, ProcFacts, CarriesFacts
    <2> HIDE DEF i
    <2>4. \A x, y \in Procs :
            chan'[x][y] = IF x = a /\ y = Dst(i)
                          THEN Append(r[a][Dst(i)], Msg("TRANSFER", i))
                          ELSE r[x][y]
      BY <1>1, <1>3, <2>2, <2>3, SendAt
    <2> QED
      BY <1>1, <2>2, <2>3, <2>4 DEF Msg
  <1>6. CASE HandleTransferAsDestination(a, p)
    <2>1. chan' = Send(r, a, Parent, Msg("ACK", 0)) /\ ~ HandleStop(a, p)
      BY <1>6 DEF HandleTransferAsDestination, HandleStop, ReceivedInLoop, r
    <2>2. Msg("ACK", 0) \in Carries(a, Parent)
      BY CarriesFacts
    <2>3. \A x, y \in Procs :
            chan'[x][y] = IF x = a /\ y = Parent
                          THEN Append(r[a][Parent], Msg("ACK", 0)) ELSE r[x][y]
      BY <1>1, <1>3, <2>1, SendAt
    <2> QED
      BY <1>1, <2>1, <2>2, <2>3 DEF Msg
  <1>7. CASE HandleStop(a, p)
    <2>1. chan' = SendMulticast(r, a, Msg("DONE", 0))
      BY <1>7 DEF HandleStop, r
    <2>2. \A y \in Procs : Msg("DONE", 0) \in Carries(a, y)
      BY CarriesFacts
    <2>3. \A x, y \in Procs :
            chan'[x][y] = IF x = a /\ y # a
                          THEN Append(r[x][y], Msg("DONE", 0)) ELSE r[x][y]
      BY <1>1, <1>3, <2>1, MulticastAt
    <2> QED
      BY <1>1, <1>7, <2>2, <2>3 DEF Msg
  <1>8. CASE HandleOther(a, p) \/ WaitAllDone(a, p)
    <2>1. chan' = r /\ ~ HandleStop(a, p)
      BY <1>8 DEF HandleOther, WaitAllDone, HandleStop, ReceivedInLoop, r
    <2> QED
      BY <2>1
  <1> QED
    BY <1>5, <1>6, <1>7, <1>8 DEF LoopStep

\* What a step of an account leaves alone.
LEMMA AccountAlone ==
  ASSUME IInv, NEW a \in Accounts, Account(a)
  PROVE  /\ UNCHANGED <<main_pc, cursor>>
         /\ AfterStop' = AfterStop
         /\ \A b \in Accounts \ {a} : /\ child_pc'[b] = child_pc[b]
                                      /\ peer'[b] = peer[b]
                                      /\ done_count'[b] = done_count[b]
                                      /\ balance'[b] = balance[b]
  BY DEF Account, ChildStep, SendStarted, WaitStarted, HandleTransferAsSource,
         HandleTransferAsDestination, HandleStop, HandleOther, WaitAllDone,
         SendHistory, AfterStartup, parentVars, mainVars, AfterStop,
         IInv, TypeOK, ChildTypeOK

\* An account in a loop does not go back, and only STOP moves it on.
LEMMA LoopPc ==
  ASSUME IInv, NEW a \in Accounts, NEW p \in Procs \ {a}, LoopStep(a, p)
  PROVE  /\ child_pc[a] \in {"message_loop", "wait_all_done"}
         /\ child_pc'[a] = IF HandleStop(a, p) THEN "wait_all_done"
                                               ELSE child_pc[a]
         /\ HandleStop(a, p) => child_pc[a] = "message_loop"
         /\ peer' = peer
  BY DEF LoopStep, HandleTransferAsSource, HandleTransferAsDestination,
         HandleStop, HandleOther, WaitAllDone, ReceivedInLoop,
         IInv, TypeOK, ChildTypeOK

-----------------------------------------------------------------------------
(***************************************************************************)
(* STOP: the last message of the parent to each account, and on its way as *)
(* long as the account has not acted on it.                                *)
(***************************************************************************)
Stopped(a) == child_pc[a] \in {"wait_all_done", "finished"}

StopChannel(c, told, stopped) ==
  /\ ~ told => ~ stopped
  /\ stopped => c = << >>
  /\ told /\ ~ stopped => c # << >>
  /\ \A j \in 1 .. Len(c) :
       c[j].type = "STOP" <=> (told /\ ~ stopped /\ j = Len(c))

StopInv ==
  \A a \in Accounts : StopChannel(chan[Parent][a], AfterStop, Stopped(a))

LEMMA StopAppend ==
  ASSUME NEW c \in Seq(Message), NEW m \in Message, m.type # "STOP",
         StopChannel(c, FALSE, FALSE)
  PROVE  StopChannel(Append(c, m), FALSE, FALSE)
  BY AppendFacts DEF StopChannel

LEMMA StopSent ==
  ASSUME NEW c \in Seq(Message), StopChannel(c, FALSE, FALSE)
  PROVE  StopChannel(Append(c, Msg("STOP", 0)), TRUE, FALSE)
  <1>1. Msg("STOP", 0) \in Message /\ Msg("STOP", 0).type = "STOP"
    BY MessageFacts DEF Msg
  <1> QED
    BY <1>1, AppendFacts DEF StopChannel

LEMMA StopPassed ==
  ASSUME NEW c \in Seq(Message), c # << >>, Head(c).type # "STOP",
         NEW told \in BOOLEAN, NEW stopped \in BOOLEAN,
         StopChannel(c, told, stopped)
  PROVE  StopChannel(Tail(c), told, stopped) /\ ~ stopped
  <1>1. ~ stopped
    BY DEF StopChannel
  <1>2. told => Len(c) # 1
    BY <1>1, TakeHeadFacts DEF StopChannel
  <1> QED
    BY <1>1, <1>2, TakeHeadFacts DEF StopChannel

LEMMA StopTaken ==
  ASSUME NEW c \in Seq(Message), c # << >>, Head(c).type = "STOP",
         NEW told \in BOOLEAN, NEW stopped \in BOOLEAN,
         StopChannel(c, told, stopped)
  PROVE  told /\ ~ stopped /\ StopChannel(Tail(c), told, TRUE)
  <1>1. Len(c) = 1 /\ told /\ ~ stopped
    BY TakeHeadFacts DEF StopChannel
  <1>2. Tail(c) = << >> /\ 1 .. Len(Tail(c)) = {}
    BY <1>1, TakeHeadFacts
  <1>3. StopChannel(Tail(c), TRUE, TRUE)
    BY <1>2 DEF StopChannel
  <1>4. told = TRUE
    BY <1>1
  <1> QED
    BY <1>1, <1>3, <1>4

\* Starting up and reporting: what they do to the channels and to the account.
LEMMA StartupChannels ==
  ASSUME IInv, NEW a \in Accounts, SendStarted(a) \/ WaitStarted(a)
  PROVE  /\ \A x, y \in Procs :
              chan'[x][y] =
                IF SendStarted(a)
                THEN IF x = a /\ y # a THEN Append(chan[x][y], Msg("STARTED", 0))
                                       ELSE chan[x][y]
                ELSE IF x = peer[a] /\ y = a THEN Tail(chan[x][y])
                                             ELSE chan[x][y]
         /\ WaitStarted(a) => peer[a] \in Accounts /\ chan[peer[a]][a] # << >>
         /\ ~ Stopped(a)
         /\ child_pc'[a] \in {"wait_started", "message_loop"}
         /\ UNCHANGED done_count
  <1>1. a \in Procs /\ chan \in Channels /\ ChildTypeOK
    BY ProcFacts DEF IInv, TypeOK
  <1>2. CASE SendStarted(a)
    <2>1. \A x, y \in Procs :
            chan'[x][y] = IF x = a /\ y # a
                          THEN Append(chan[x][y], Msg("STARTED", 0))
                          ELSE chan[x][y]
      BY <1>1, <1>2, MulticastAt DEF SendStarted
    <2>2. ~ WaitStarted(a)
      BY <1>2 DEF SendStarted, WaitStarted
    <2> QED
      BY <1>1, <1>2, <2>1, <2>2
      DEF SendStarted, AfterStartup, Stopped, ChildTypeOK
  <1>3. CASE WaitStarted(a)
    <2>1. peer[a] \in Accounts /\ chan[peer[a]][a] # << >>
      BY <1>1, <1>3 DEF WaitStarted, HasMessage, ChildTypeOK
    <2>2. peer[a] \in Procs
      BY <2>1, ProcFacts
    <2>3. \A x, y \in Procs :
            chan'[x][y] = IF x = peer[a] /\ y = a
                          THEN Tail(chan[x][y]) ELSE chan[x][y]
      BY <1>1, <1>3, <2>2, ReceiveAt DEF WaitStarted
    <2>4. ~ SendStarted(a)
      BY <1>3 DEF SendStarted, WaitStarted
    <2> QED
      BY <1>1, <1>3, <2>1, <2>3, <2>4
      DEF WaitStarted, AfterStartup, Stopped, ChildTypeOK
  <1> QED
    BY <1>2, <1>3

LEMMA HistoryChannels ==
  ASSUME IInv, NEW a \in Accounts, SendHistory(a)
  PROVE  /\ \A x, y \in Procs :
              chan'[x][y] = IF x = a /\ y = Parent
                            THEN Append(chan[x][y],
                                        Msg("BALANCE_HISTORY", balance[a]))
                            ELSE chan[x][y]
         /\ Stopped(a)
         /\ child_pc'[a] = "finished"
         /\ UNCHANGED <<done_count, peer, balance>>
  <1>1. a \in Procs /\ Parent \in Procs /\ chan \in Channels /\ ChildTypeOK
    BY ProcFacts DEF IInv, TypeOK
  <1>2. \A x, y \in Procs :
          chan'[x][y] = IF x = a /\ y = Parent
                        THEN Append(chan[a][Parent],
                                    Msg("BALANCE_HISTORY", balance[a]))
                        ELSE chan[x][y]
    BY <1>1, SendAt DEF SendHistory
  <1> QED
    BY <1>1, <1>2 DEF SendHistory, Stopped, ChildTypeOK

LEMMA AccountSteps ==
  ASSUME NEW a \in Accounts, Account(a)
  PROVE  \/ SendStarted(a) \/ WaitStarted(a)
         \/ \E p \in Procs \ {a} : LoopStep(a, p)
         \/ SendHistory(a)
  BY DEF Account, ChildStep, LoopStep

LEMMA StopAccount ==
  ASSUME IInv, KindInv, StopInv, NEW a \in Accounts, Account(a)
  PROVE  StopInv'
  <1>0. /\ a \in Procs /\ Parent \in Procs /\ a # Parent
        /\ \A b \in Accounts : b \in Procs /\ b # Parent
        /\ \A b \in Accounts : chan[Parent][b] \in Seq(Message)
    BY ProcFacts, ChannelType DEF IInv, TypeOK
  <1> SUFFICES ASSUME NEW b \in Accounts
               PROVE  StopChannel(chan'[Parent][b], AfterStop, Stopped(b)')
    BY AccountAlone DEF StopInv
  <1>1. StopChannel(chan[Parent][b], AfterStop, Stopped(b))
    BY DEF StopInv
  <1>2. b # a => Stopped(b)' = Stopped(b)
    BY AccountAlone DEF Stopped
  <1>3. CASE SendStarted(a) \/ WaitStarted(a)
    <2>1. chan'[Parent][b] = chan[Parent][b]
      BY <1>0, <1>3, StartupChannels
    <2>2. Stopped(a)' = FALSE /\ Stopped(a) = FALSE
      BY <1>3, StartupChannels DEF Stopped
    <2>3. Stopped(b)' = Stopped(b)
      BY <1>2, <2>2
    <2> QED
      BY <1>1, <2>1, <2>3
  <1>4. CASE SendHistory(a)
    <2>1. chan'[Parent][b] = chan[Parent][b]
      BY <1>0, <1>4, HistoryChannels
    <2>2. Stopped(a)' = TRUE /\ Stopped(a) = TRUE
      BY <1>4, HistoryChannels DEF Stopped
    <2>3. Stopped(b)' = Stopped(b)
      BY <1>2, <2>2
    <2> QED
      BY <1>1, <2>1, <2>3
  <1>5. ASSUME NEW p \in Procs \ {a}, LoopStep(a, p)
        PROVE  StopChannel(chan'[Parent][b], AfterStop, Stopped(b)')
    <2>1. CASE p # Parent \/ b # a
      <3>1. chan'[Parent][b] = chan[Parent][b]
        BY <1>0, <1>5, <2>1, LoopChannels
      <3>2. ~ HandleStop(a, p) \/ b # a
        BY <2>1, StopTurn
      <3>3. Stopped(b)' = Stopped(b)
        BY <1>2, <1>5, <3>2, LoopPc DEF Stopped
      <3> QED
        BY <1>1, <3>1, <3>3
    <2>2. CASE p = Parent /\ b = a
      <3>1. chan[Parent][b] # << >> /\ chan'[Parent][b] = Tail(chan[Parent][b])
        BY <1>5, <2>2, LoopChannels
      <3>2. AfterStop \in BOOLEAN /\ Stopped(b) \in BOOLEAN
        BY DEF AfterStop, Stopped
      <3>3. CASE HandleStop(a, p)
        <4>1. Head(chan[Parent][b]).type = "STOP"
          BY <2>2, <3>3, StopTurn DEF Msg
        <4>2. Stopped(b)' = TRUE
          BY <1>5, <2>2, <3>3, LoopPc DEF Stopped
        <4> QED
          BY <1>0, <1>1, <3>1, <3>2, <4>1, <4>2, StopTaken
      <3>4. CASE ~ HandleStop(a, p)
        <4>1. ~ Stopped(b)
          BY <1>1, <3>1 DEF StopChannel
        <4>2. Head(chan[Parent][b]).type # "STOP"
          BY <1>5, <2>2, <3>4, <4>1
          DEF LoopStep, HandleTransferAsSource, HandleTransferAsDestination,
              HandleOther, WaitAllDone, ReceivedInLoop, Oldest, Stopped
        <4>3. Stopped(b)' = Stopped(b)
          BY <1>5, <2>2, <3>4, LoopPc DEF Stopped
        <4> QED
          BY <1>0, <1>1, <3>1, <3>2, <4>2, <4>3, StopPassed
      <3> QED
        BY <3>3, <3>4
    <2> QED
      BY <2>1, <2>2
  <1> QED
    BY <1>3, <1>4, <1>5, AccountSteps

LEMMA StopInductive ==
  /\ Init => StopInv
  /\ IInv /\ KindInv /\ StopInv /\ [Next]_vars => StopInv'
  <1>0. /\ Parent \in Procs /\ Accounts \subseteq Procs /\ Parent \notin Accounts
    BY ProcFacts
  <1>1. Init => StopInv
    <2>1. Len(<< >>) = 0
      BY EmptySeq
    <2> QED
      BY <1>0, <2>1 DEF Init, NetworkInit, ChildInit, MainInit, StopInv, StopChannel,
                        AfterStop, Stopped
  <1> SUFFICES ASSUME IInv, KindInv, StopInv, [Next]_vars PROVE StopInv'
    BY <1>1
  <1>2. chan \in Channels /\ \A a \in Accounts : chan[Parent][a] \in Seq(Message)
    BY <1>0, ChannelType DEF IInv, TypeOK
  <1>3. ASSUME UNCHANGED childVars,
               AfterStop' = AfterStop,
               \A a \in Accounts : chan'[Parent][a] = chan[Parent][a]
        PROVE  StopInv'
    BY <1>3 DEF StopInv, Stopped, childVars
  <1>4. CASE Quiet
    BY <1>3, <1>4 DEF Quiet
  <1>5. ASSUME NEW i \in Orders, SendsOrder(i)
        PROVE  StopInv'
    <2> SUFFICES ASSUME NEW a \in Accounts
                 PROVE  StopChannel(chan'[Parent][a], AfterStop', Stopped(a)')
      BY DEF StopInv
    <2>1. AfterStop' = FALSE /\ AfterStop = FALSE /\ Stopped(a)' = Stopped(a)
      BY <1>5 DEF SendsOrder, Serving, AfterStop, Stopped, mainVars, childVars
    <2>2. StopChannel(chan[Parent][a], FALSE, FALSE) /\ Stopped(a) = FALSE
      BY <2>1 DEF StopInv, StopChannel, Stopped
    <2>3. /\ Src(i) \in Procs /\ Dst(i) \in Procs
          /\ Msg("TRANSFER", i) \in Message /\ Msg("TRANSFER", i).type # "STOP"
      BY <1>0, OrderFacts, MessageFacts DEF Msg
    <2>4. \/ chan'[Parent][a] = chan[Parent][a]
          \/ chan'[Parent][a] = Append(chan[Parent][a], Msg("TRANSFER", i))
      <3>1. a \in Procs
        BY <1>0
      <3>2. \A q \in Procs :
              Send(chan, Parent, q, Msg("TRANSFER", i))[Parent][a] =
                IF a = q THEN Append(chan[Parent][q], Msg("TRANSFER", i))
                         ELSE chan[Parent][a]
        BY <1>0, <1>2, <3>1, SendAt
      <3> QED
        BY <1>5, <2>3, <3>2 DEF SendsOrder
    <2> QED
      BY <1>2, <2>1, <2>2, <2>3, <2>4, StopAppend
  <1>6. ASSUME NEW i \in Orders, AwaitsOrder(i)
        PROVE  StopInv'
    <2>1. Dst(i) \in Procs /\ Dst(i) # Parent
      BY <1>0, OrderFacts
    <2>2. \A a \in Accounts : chan'[Parent][a] = chan[Parent][a]
      BY <1>0, <1>2, <1>6, <2>1, ReceiveAt DEF AwaitsOrder
    <2>3. AfterStop' = AfterStop
      BY <1>6 DEF AwaitsOrder, AfterStop, mainVars
    <2> QED
      BY <1>3, <1>6, <2>2, <2>3 DEF AwaitsOrder
  <1>7. CASE (Phase1WaitStartup \/ Phase3WaitDone \/ Phase4CollectHistory)
               /\ UNCHANGED childVars
    <2>1. \A a \in Accounts : chan'[Parent][a] = chan[Parent][a]
      BY <1>0, <1>2, <1>7, MainReceive, ReceiveAt
    <2>2. AfterStop' = AfterStop
      BY <1>7 DEF Phase1WaitStartup, Phase3WaitDone, Phase4CollectHistory,
                  MainAt, Iterate, AfterStop
    <2> QED
      BY <1>3, <1>7, <2>1, <2>2
  <1>8. CASE Phase3Stop /\ UNCHANGED childVars
    <2> SUFFICES ASSUME NEW a \in Accounts
                 PROVE  StopChannel(chan'[Parent][a], AfterStop', Stopped(a)')
      BY DEF StopInv
    <2>1. AfterStop' = TRUE /\ AfterStop = FALSE /\ Stopped(a)' = Stopped(a)
      BY <1>8 DEF Phase3Stop, MainAt, AfterStop, Stopped, childVars
    <2>2. StopChannel(chan[Parent][a], FALSE, FALSE) /\ Stopped(a) = FALSE
      BY <2>1 DEF StopInv, StopChannel, Stopped
    <2>3. chan'[Parent][a] = Append(chan[Parent][a], Msg("STOP", 0))
      <3>1. a \in Procs /\ a # Parent
        BY <1>0
      <3>2. SendMulticast(chan, Parent, Msg("STOP", 0))[Parent][a] =
              Append(chan[Parent][a], Msg("STOP", 0))
        BY <1>0, <1>2, <3>1 DEF SendMulticast, Channels
      <3> QED
        BY <1>8, <3>1, <3>2 DEF Phase3Stop
    <2> QED
      BY <1>2, <2>1, <2>2, <2>3, StopSent
  <1> QED
    BY <1>4, <1>5, <1>6, <1>7, <1>8, ParentChannels, StopAccount

-----------------------------------------------------------------------------
(***************************************************************************)
(* DONE: sent once by every account that was stopped, and counted at most  *)
(* once.                                                                   *)
(***************************************************************************)
DoneChannel(c, stopped) ==
  \A j, k \in 1 .. Len(c) :
    c[j].type = "DONE" /\ c[k].type = "DONE" => stopped /\ j = k

\* The DONE of an account was taken out of channel c.
DoneRead(c, stopped) ==
  stopped /\ \A j \in 1 .. Len(c) : c[j].type # "DONE"

Taken(a) == {b \in Accounts \ {a} : DoneRead(chan[b][a], Stopped(b))}

DoneInv ==
  /\ \A a, b \in Accounts : a # b => DoneChannel(chan[b][a], Stopped(b))
  /\ \A a \in Accounts : done_count[a] <= Cardinality(Taken(a))
  /\ \A a \in Accounts : child_pc[a] = "finished" => done_count[a] = N - 1

LEMMA DoneAppend ==
  ASSUME NEW c \in Seq(Message), NEW m \in Message, m.type # "DONE",
         NEW stopped \in BOOLEAN, DoneChannel(c, stopped)
  PROVE  /\ DoneChannel(Append(c, m), stopped)
         /\ DoneRead(c, stopped) => DoneRead(Append(c, m), stopped)
  BY AppendFacts DEF DoneChannel, DoneRead

LEMMA DoneSent ==
  ASSUME NEW c \in Seq(Message), NEW m \in Message, DoneChannel(c, FALSE)
  PROVE  DoneChannel(Append(c, m), TRUE)
  <1>1. \A j \in 1 .. Len(c) : c[j].type # "DONE"
    BY DEF DoneChannel
  <1> QED
    BY <1>1, AppendFacts DEF DoneChannel

LEMMA DoneTail ==
  ASSUME NEW c \in Seq(Message), c # << >>,
         NEW stopped \in BOOLEAN, DoneChannel(c, stopped)
  PROVE  /\ DoneChannel(Tail(c), stopped)
         /\ DoneRead(c, stopped) => DoneRead(Tail(c), stopped)
         /\ Head(c).type = "DONE" => /\ ~ DoneRead(c, stopped)
                                     /\ DoneRead(Tail(c), stopped)
  <1>1. /\ Head(c) = c[1]
        /\ Len(c) \in Nat \ {0}
        /\ Len(Tail(c)) = Len(c) - 1
        /\ \A j \in 1 .. Len(c) - 1 : Tail(c)[j] = c[j + 1]
    BY TakeHeadFacts
  <1>2. DoneChannel(Tail(c), stopped)
    BY <1>1 DEF DoneChannel
  <1>3. DoneRead(c, stopped) => DoneRead(Tail(c), stopped)
    BY <1>1 DEF DoneRead
  <1>4. ASSUME Head(c).type = "DONE"
        PROVE  ~ DoneRead(c, stopped) /\ DoneRead(Tail(c), stopped)
    <2>1. 1 \in 1 .. Len(c) /\ c[1].type = "DONE"
      BY <1>1, <1>4
    <2>2. stopped
      BY <2>1 DEF DoneChannel
    <2>3. \A j \in 2 .. Len(c) : c[j].type # "DONE"
      BY <1>1, <2>1 DEF DoneChannel
    <2> QED
      BY <1>1, <2>1, <2>2, <2>3 DEF DoneRead
  <1> QED
    BY <1>2, <1>3, <1>4

\* The channels between the accounts, at a step of account a.
LEMMA DoneAccount ==
  ASSUME IInv, KindInv, DoneInv, NEW a \in Accounts, Account(a),
         NEW b \in Accounts, NEW r \in Accounts, b # r
  PROVE  /\ DoneChannel(chan[b][r], Stopped(b))'
         /\ DoneRead(chan[b][r], Stopped(b)) => DoneRead(chan[b][r], Stopped(b))'
  <1>0. /\ a \in Procs /\ b \in Procs /\ r \in Procs
        /\ b # Parent /\ r # Parent /\ Parent \in Procs
        /\ chan[b][r] \in Seq(Message)
        /\ Stopped(b) \in BOOLEAN
    <2>1. /\ a \in Procs /\ b \in Procs /\ r \in Procs
          /\ b # Parent /\ r # Parent /\ Parent \in Procs
      BY ProcFacts
    <2>2. chan \in Channels /\ Stopped(b) \in BOOLEAN
      BY DEF IInv, TypeOK, Stopped
    <2> QED
      BY <2>1, <2>2, ChannelType
  <1>1. DoneChannel(chan[b][r], Stopped(b))
    BY DEF DoneInv
  <1>2. b # a => Stopped(b)' = Stopped(b)
    BY AccountAlone DEF Stopped
  <1>3. ASSUME Stopped(b)' = Stopped(b), chan'[b][r] = chan[b][r]
        PROVE  /\ DoneChannel(chan[b][r], Stopped(b))'
               /\ DoneRead(chan[b][r], Stopped(b)) =>
                    DoneRead(chan[b][r], Stopped(b))'
    BY <1>1, <1>3
  <1>4. ASSUME Stopped(b)' = Stopped(b), NEW m \in Message, m.type # "DONE",
               chan'[b][r] = Append(chan[b][r], m)
        PROVE  /\ DoneChannel(chan[b][r], Stopped(b))'
               /\ DoneRead(chan[b][r], Stopped(b)) =>
                    DoneRead(chan[b][r], Stopped(b))'
    BY <1>0, <1>1, <1>4, DoneAppend
  <1>5. ASSUME Stopped(b)' = Stopped(b), chan[b][r] # << >>,
               chan'[b][r] = Tail(chan[b][r])
        PROVE  /\ DoneChannel(chan[b][r], Stopped(b))'
               /\ DoneRead(chan[b][r], Stopped(b)) =>
                    DoneRead(chan[b][r], Stopped(b))'
    BY <1>0, <1>1, <1>5, DoneTail
  <1>6. CASE SendStarted(a) \/ WaitStarted(a)
    <2>1. Stopped(a)' = FALSE /\ Stopped(a) = FALSE
      BY <1>6, StartupChannels DEF Stopped
    <2>2. Stopped(b)' = Stopped(b)
      BY <1>2, <2>1
    <2>3. Msg("STARTED", 0) \in Message /\ Msg("STARTED", 0).type # "DONE"
      BY MessageFacts DEF Msg
    <2>4. \/ chan'[b][r] = chan[b][r]
          \/ chan'[b][r] = Append(chan[b][r], Msg("STARTED", 0))
          \/ chan[b][r] # << >> /\ chan'[b][r] = Tail(chan[b][r])
      <3>1. CASE SendStarted(a)
        BY <1>0, <3>1, StartupChannels
      <3>2. CASE WaitStarted(a)
        <4>1. ~ SendStarted(a)
          BY <3>2 DEF SendStarted, WaitStarted
        <4> QED
          BY <1>0, <3>2, <4>1, StartupChannels
      <3> QED
        BY <1>6, <3>1, <3>2
    <2> QED
      BY <1>3, <1>4, <1>5, <2>2, <2>3, <2>4
  <1>7. CASE SendHistory(a)
    <2>1. Stopped(a)' = TRUE /\ Stopped(a) = TRUE
      BY <1>7, HistoryChannels DEF Stopped
    <2>2. Stopped(b)' = Stopped(b)
      BY <1>2, <2>1
    <2>3. chan'[b][r] = chan[b][r]
      BY <1>0, <1>7, HistoryChannels
    <2> QED
      BY <1>3, <2>2, <2>3
  <1>8. ASSUME NEW p \in Procs \ {a}, LoopStep(a, p)
        PROVE  /\ DoneChannel(chan[b][r], Stopped(b))'
               /\ DoneRead(chan[b][r], Stopped(b)) =>
                    DoneRead(chan[b][r], Stopped(b))'
    <2>1. CASE b # a
      <3>1. \/ chan'[b][r] = chan[b][r]
            \/ chan[b][r] # << >> /\ chan'[b][r] = Tail(chan[b][r])
        BY <1>0, <1>8, <2>1, LoopChannels
      <3> QED
        BY <1>2, <1>3, <1>5, <2>1, <3>1
    <2>2. CASE b = a
      <3>1. \/ chan'[b][r] = chan[b][r] /\ ~ HandleStop(a, p)
            \/ \E m \in Message : /\ m.type = "DONE" <=> HandleStop(a, p)
                                  /\ chan'[b][r] = Append(chan[b][r], m)
        BY <1>0, <1>8, <2>2, LoopChannels DEF Carries
      <3>2. CASE HandleStop(a, p)
        <4>1. Stopped(b) = FALSE /\ Stopped(b)' = TRUE
          BY <1>8, <2>2, <3>2, LoopPc DEF Stopped
        <4>2. ~ DoneRead(chan[b][r], Stopped(b))
          BY <4>1 DEF DoneRead
        <4>3. DoneChannel(chan'[b][r], TRUE)
          BY <1>0, <1>1, <3>1, <3>2, <4>1, DoneSent
        <4> QED
          BY <4>1, <4>2, <4>3
      <3>3. CASE ~ HandleStop(a, p)
        <4>1. Stopped(b)' = Stopped(b)
          BY <1>8, <2>2, <3>3, LoopPc DEF Stopped
        <4> QED
          BY <1>3, <1>4, <3>1, <3>3, <4>1
      <3> QED
        BY <3>2, <3>3
    <2> QED
      BY <2>1, <2>2
  <1> QED
    BY <1>6, <1>7, <1>8, AccountSteps

\* What the counter of account r is compared with only grows, and grows when
\* a DONE is counted.
LEMMA TakenGrows ==
  ASSUME IInv, KindInv, DoneInv, NEW a \in Accounts, Account(a), NEW r \in Accounts
  PROVE  /\ IsFiniteSet(Taken(r)) /\ IsFiniteSet(Taken(r)')
         /\ Cardinality(Taken(r)) \in Nat /\ Cardinality(Taken(r)') \in Nat
         /\ Taken(r) \subseteq Taken(r)'
         /\ Cardinality(Taken(r)) <= Cardinality(Taken(r)')
         /\ Taken(r) # Taken(r)' => Cardinality(Taken(r)) < Cardinality(Taken(r)')
  <1>1. IsFiniteSet(Accounts)
    BY ProcFacts, FS_Interval DEF Accounts
  <1>2. Taken(r) \subseteq Accounts /\ Taken(r)' \subseteq Accounts
    BY DEF Taken
  <1>3. IsFiniteSet(Taken(r)) /\ IsFiniteSet(Taken(r)')
    BY <1>1, <1>2, FS_Subset
  <1>4. Taken(r) \subseteq Taken(r)'
    BY DoneAccount DEF Taken
  <1> QED
    BY <1>3, <1>4, FS_Subset, FS_CardinalityType

LEMMA DoneCounted ==
  ASSUME IInv, KindInv, DoneInv, NEW a \in Accounts, Account(a)
  PROVE  done_count'[a] <= Cardinality(Taken(a)')
  <1>0. /\ done_count[a] <= Cardinality(Taken(a))
        /\ Cardinality(Taken(a)) \in Nat
        /\ Cardinality(Taken(a)') \in Nat
        /\ Cardinality(Taken(a)) <= Cardinality(Taken(a)')
        /\ Taken(a) # Taken(a)' => Cardinality(Taken(a)) < Cardinality(Taken(a)')
        /\ done_count[a] \in Nat
    BY TakenGrows DEF DoneInv, IInv, TypeOK, ChildTypeOK
  <1>1. CASE done_count'[a] \in {0, done_count[a]}
    BY <1>0, <1>1
  <1>2. ASSUME NEW p \in Procs \ {a}, LoopStep(a, p),
               Oldest(p, a).type = "DONE",
               done_count'[a] = done_count[a] + 1
        PROVE  done_count'[a] <= Cardinality(Taken(a)')
    <2>1. chan[p][a] # << >> /\ chan'[p][a] = Tail(chan[p][a])
      BY <1>2, LoopChannels
    <2>2. a \in Procs /\ chan \in Channels /\ Kinds(chan)
      BY ProcFacts DEF IInv, TypeOK, KindInv
    <2>3. Head(chan[p][a]).type = "DONE" /\ Head(chan[p][a]) \in Carries(p, a)
      BY <1>2, <2>1, <2>2, KindsReceive DEF Oldest
    <2>4. p \in Accounts \ {a}
      BY <2>3 DEF Carries, Procs, Accounts, Parent
    <2>5. /\ chan[p][a] \in Seq(Message)
          /\ DoneChannel(chan[p][a], Stopped(p))
          /\ Stopped(p) \in BOOLEAN
      BY <2>2, <2>4, ChannelType DEF DoneInv, Stopped
    <2>6. /\ ~ DoneRead(chan[p][a], Stopped(p))
          /\ DoneRead(chan'[p][a], Stopped(p))
      BY <2>1, <2>3, <2>5, DoneTail
    <2>7. Stopped(p)' = Stopped(p)
      BY <2>4, AccountAlone DEF Stopped
    <2>8. p \notin Taken(a) /\ p \in Taken(a)'
      BY <2>4, <2>6, <2>7 DEF Taken
    <2> QED
      BY <1>0, <1>2, <2>8
  <1>3. CASE SendStarted(a) \/ WaitStarted(a) \/ SendHistory(a)
    BY <1>1, <1>3 DEF SendStarted, WaitStarted, SendHistory
  <1>4. ASSUME NEW p \in Procs \ {a}, LoopStep(a, p)
        PROVE  \/ done_count'[a] \in {0, done_count[a]}
               \/ /\ Oldest(p, a).type = "DONE"
                  /\ done_count'[a] = done_count[a] + 1
    BY <1>4 DEF LoopStep, HandleTransferAsSource, HandleTransferAsDestination,
                HandleStop, HandleOther, WaitAllDone, IInv, TypeOK, ChildTypeOK
  <1> QED
    BY <1>1, <1>2, <1>3, <1>4, AccountSteps

LEMMA DoneInductive ==
  /\ Init => DoneInv
  /\ IInv /\ KindInv /\ DoneInv /\ [Next]_vars => DoneInv'
  <1>0. /\ Parent \in Procs /\ Accounts \subseteq Procs /\ Parent \notin Accounts
        /\ \A a \in Accounts : IsFiniteSet(Taken(a))
    <2>1. IsFiniteSet(Accounts)
      BY ProcFacts, FS_Interval DEF Accounts
    <2>2. \A a \in Accounts : Taken(a) \subseteq Accounts
      BY DEF Taken
    <2> QED
      BY <2>1, <2>2, ProcFacts, FS_Subset
  <1>1. ASSUME Init PROVE DoneInv
    <2>1. \A a, b \in Accounts : chan[b][a] = << >>
      BY <1>0, <1>1 DEF Init, NetworkInit
    <2>2. \A a, b \in Accounts : DoneChannel(chan[b][a], Stopped(b))
      BY <2>1, EmptySeq DEF DoneChannel
    <2>3. \A a \in Accounts : 0 <= Cardinality(Taken(a))
      BY <1>0, FS_CardinalityType
    <2> QED
      BY <1>1, <2>2, <2>3 DEF Init, ChildInit, DoneInv
  <1> SUFFICES ASSUME IInv, KindInv, DoneInv, [Next]_vars PROVE DoneInv'
    BY <1>1
  <1>2. chan \in Channels
    BY DEF IInv, TypeOK
  <1>3. ASSUME UNCHANGED childVars,
               \A a, b \in Accounts : chan'[b][a] = chan[b][a]
        PROVE  DoneInv'
    <2>1. \A a \in Accounts : Stopped(a)' = Stopped(a)
      BY <1>3 DEF Stopped, childVars
    <2>2. \A a \in Accounts : Taken(a)' = Taken(a)
      BY <1>3, <2>1 DEF Taken
    <2> QED
      BY <1>3, <2>1, <2>2 DEF DoneInv, childVars
  <1>4. CASE Quiet
    BY <1>3, <1>4 DEF Quiet
  <1>5. ASSUME NEW i \in Orders, SendsOrder(i) \/ AwaitsOrder(i)
        PROVE  DoneInv'
    <2>1. Src(i) \in Procs /\ Dst(i) \in Procs
      BY <1>0, OrderFacts
    <2>2. ASSUME NEW a \in Accounts, NEW b \in Accounts
          PROVE  chan'[b][a] = chan[b][a]
      <3>1. a \in Procs /\ b \in Procs /\ a # Parent /\ b # Parent
        BY <1>0
      <3>2. \A q \in Procs : /\ Send(chan, Parent, q, Msg("TRANSFER", i))[b][a] =
                                  chan[b][a]
                             /\ Receive(chan, q, Parent)[b][a] = chan[b][a]
        BY <1>0, <1>2, <3>1, SendAt, ReceiveAt
      <3> QED
        BY <1>5, <2>1, <3>2 DEF SendsOrder, AwaitsOrder
    <2> QED
      BY <1>3, <1>5, <2>2 DEF SendsOrder, AwaitsOrder
  <1>6. CASE (Phase1WaitStartup \/ Phase3WaitDone \/ Phase4CollectHistory)
               /\ UNCHANGED childVars
    <2>1. cursor \in Procs /\ chan' = Receive(chan, cursor, Parent)
      BY <1>0, <1>6, MainReceive
    <2>2. \A a, b \in Accounts : chan'[b][a] = chan[b][a]
      BY <1>0, <1>2, <2>1, ReceiveAt
    <2> QED
      BY <1>3, <1>6, <2>2
  <1>7. CASE Phase3Stop /\ UNCHANGED childVars
    <2>1. \A a, b \in Accounts : chan'[b][a] = chan[b][a]
      BY <1>0, <1>2, <1>7 DEF Phase3Stop, SendMulticast, Channels
    <2> QED
      BY <1>3, <1>7, <2>1
  <1>8. ASSUME NEW a \in Accounts, Account(a)
        PROVE  DoneInv'
    <2>1. \A r, b \in Accounts : r # b => DoneChannel(chan[b][r], Stopped(b))'
      BY <1>8, DoneAccount
    <2>2. ASSUME NEW r \in Accounts
          PROVE  done_count'[r] <= Cardinality(Taken(r)')
      <3>1. CASE r = a
        BY <1>8, <3>1, DoneCounted
      <3>2. CASE r # a
        <4>1. done_count'[r] = done_count[r] /\ done_count[r] \in Nat
          BY <1>8, <3>2, AccountAlone DEF IInv, TypeOK, ChildTypeOK
        <4> QED
          BY <1>8, <4>1, TakenGrows DEF DoneInv
      <3> QED
        BY <3>1, <3>2
    <2>3. ASSUME NEW r \in Accounts, child_pc'[r] = "finished"
          PROVE  done_count'[r] = N - 1
      <3>1. CASE r # a
        BY <1>8, <2>3, <3>1, AccountAlone DEF DoneInv
      <3>2. CASE r = a
        <4>1. SendHistory(a)
          BY <1>8, <2>3, <3>2, AccountSteps, StartupChannels, LoopPc
        <4> QED
          BY <3>2, <4>1 DEF SendHistory
      <3> QED
        BY <3>1, <3>2
    <2> QED
      BY <2>1, <2>2, <2>3 DEF DoneInv
  <1> QED
    BY <1>4, <1>5, <1>6, <1>7, <1>8, ParentChannels

-----------------------------------------------------------------------------
(***************************************************************************)
(* STARTED: the first message of an account to every other process, there  *)
(* until the recipient's startup loop has come to that account.            *)
(***************************************************************************)
\* Process q has not yet received the first message of account b.
Unread(b, q) ==
  IF q = Parent THEN main_pc = "phase1" /\ cursor <= b
  ELSE \/ child_pc[q] = "started"
       \/ child_pc[q] = "wait_started" /\ peer[q] <= b

Begun(b) == child_pc[b] # "started"

StartedChannel(c, unread, begun) ==
  /\ ~ begun => c = << >> /\ unread
  /\ begun /\ unread => c # << >>
  /\ \A j \in 1 .. Len(c) : c[j].type = "STARTED" <=> unread /\ j = 1

PeerInv ==
  \A a \in Accounts :
    /\ child_pc[a] = "started" => peer[a] = PeerFrom(a, 1)
    /\ child_pc[a] = "wait_started" => peer[a] # a

StartInv ==
  /\ PeerInv
  /\ \A b \in Accounts, q \in Procs :
       q # b => StartedChannel(chan[b][q], Unread(b, q), Begun(b))

LEMMA StartAppend ==
  ASSUME NEW c \in Seq(Message), NEW m \in Message, m.type # "STARTED",
         NEW unread \in BOOLEAN, StartedChannel(c, unread, TRUE)
  PROVE  StartedChannel(Append(c, m), unread, TRUE)
  <1>1. unread => Len(c) # 0
    BY EmptySeq DEF StartedChannel
  <1> QED
    BY <1>1, AppendFacts DEF StartedChannel

LEMMA StartSent ==
  ASSUME NEW c \in Seq(Message), NEW unread \in BOOLEAN,
         StartedChannel(c, unread, FALSE)
  PROVE  StartedChannel(Append(c, Msg("STARTED", 0)), unread, TRUE)
  <1>1. Msg("STARTED", 0) \in Message /\ Msg("STARTED", 0).type = "STARTED"
    BY MessageFacts DEF Msg
  <1>2. unread /\ c = << >> /\ Len(c) = 0
    BY EmptySeq DEF StartedChannel
  <1> QED
    BY <1>1, <1>2, AppendFacts DEF StartedChannel

LEMMA StartTail ==
  ASSUME NEW c \in Seq(Message), c # << >>,
         NEW unread \in BOOLEAN, NEW begun \in BOOLEAN,
         StartedChannel(c, unread, begun)
  PROVE  /\ begun = TRUE
         /\ StartedChannel(Tail(c), FALSE, TRUE)
  <1>1. begun = TRUE
    BY DEF StartedChannel
  <1>2. \A j \in 2 .. Len(c) : c[j].type # "STARTED"
    BY TakeHeadFacts DEF StartedChannel
  <1>3. \A j \in 1 .. Len(Tail(c)) : Tail(c)[j].type # "STARTED"
    BY <1>2, TakeHeadFacts
  <1> QED
    BY <1>1, <1>3 DEF StartedChannel

\* A step of account a reads at most one first message.
LEMMA UnreadAccount ==
  ASSUME IInv, PeerInv, NEW a \in Accounts, Account(a),
         NEW b \in Accounts, NEW q \in Procs, q # b
  PROVE  /\ Begun(b)' <=> Begun(b) \/ b = a
         /\ ~ (WaitStarted(a) /\ b = peer[a] /\ q = a) =>
              (Unread(b, q)' <=> Unread(b, q))
         /\ WaitStarted(a) /\ b = peer[a] /\ q = a => ~ Unread(b, q)'
         /\ ~ SendStarted(a) => Begun(a)
         /\ SendStarted(a) => ~ Begun(a)
  <1>0. /\ ChildTypeOK
        /\ N \in Nat
        /\ a \in 1 .. N /\ b \in 1 .. N
        /\ q \in 0 .. N
        /\ UNCHANGED <<main_pc, cursor>>
        /\ Parent = 0
    BY ProcFacts, AccountAlone DEF IInv, TypeOK, Accounts, Procs, Parent
  <1>1. CASE q # a
    <2>1. Unread(b, q)' <=> Unread(b, q)
      BY <1>0, <1>1, AccountAlone DEF Unread, Accounts
    <2> QED
      BY <1>0, <1>1, <2>1, AccountAlone
      DEF Begun, Account, ChildStep, SendStarted, WaitStarted, SendHistory,
          HandleTransferAsSource, HandleTransferAsDestination, HandleStop,
          HandleOther, WaitAllDone, ReceivedInLoop, AfterStartup, ChildTypeOK
  <1>2. CASE q = a
    <2>1. CASE SendStarted(a)
      <3>1. /\ peer[a] = PeerFrom(a, 1)
            /\ peer' = peer
            /\ child_pc[a] = "started"
            /\ child_pc' = [child_pc EXCEPT ![a] =
                              IF peer[a] > N THEN "message_loop" ELSE "wait_started"]
        BY <2>1 DEF SendStarted, AfterStartup, PeerInv
      <3>2. peer[a] <= b /\ peer[a] <= N
        BY <1>0, <1>2, <3>1 DEF PeerFrom
      <3>3. child_pc'[a] = "wait_started" /\ peer'[a] = peer[a]
        BY <1>0, <3>1, <3>2 DEF ChildTypeOK
      <3>4. Unread(b, q) /\ Unread(b, q)'
        BY <1>0, <1>2, <3>1, <3>2, <3>3 DEF Unread
      <3>5. child_pc'[b] = child_pc[b]
        BY <1>2, AccountAlone
      <3>6. ~ WaitStarted(a)
        BY <2>1 DEF SendStarted, WaitStarted
      <3> QED
        BY <1>2, <2>1, <3>1, <3>4, <3>5, <3>6 DEF Begun
    <2>2. CASE WaitStarted(a)
      <3>1. /\ peer[a] \in 1 .. N /\ peer[a] # a
            /\ peer'[a] = PeerFrom(a, peer[a] + 1)
            /\ child_pc[a] = "wait_started"
            /\ child_pc'[a] = IF peer'[a] > N THEN "message_loop"
                                              ELSE "wait_started"
        BY <1>0, <2>2
        DEF WaitStarted, AfterStartup, PeerInv, ChildTypeOK, Accounts
      <3>2. b # a
        BY <1>2
      <3>3. b # peer[a] => (peer'[a] <= b <=> peer[a] <= b)
        BY <1>0, <3>1, <3>2 DEF PeerFrom
      <3>4. b = peer[a] => ~ (peer'[a] <= b)
        BY <1>0, <3>1, <3>2 DEF PeerFrom
      <3>5. peer'[a] <= b => ~ (peer'[a] > N)
        BY <1>0, <3>1 DEF PeerFrom
      <3>6. Unread(b, q) <=> peer[a] <= b
        BY <1>0, <1>2, <3>1 DEF Unread
      <3>7. Unread(b, q)' <=> peer'[a] <= b
        BY <1>0, <1>2, <3>1, <3>5 DEF Unread
      <3>8. child_pc'[b] = child_pc[b]
        BY <1>2, AccountAlone
      <3>9. ~ SendStarted(a)
        BY <2>2 DEF SendStarted, WaitStarted
      <3>10. (Begun(b)' <=> Begun(b) \/ b = a) /\ Begun(a)
        BY <1>2, <3>1, <3>8 DEF Begun
      <3>11. b # peer[a] => (Unread(b, q)' <=> Unread(b, q))
        BY <3>3, <3>6, <3>7
      <3>12. b = peer[a] => ~ Unread(b, q)'
        BY <3>4, <3>7
      <3> QED
        BY <1>2, <2>2, <3>9, <3>10, <3>11, <3>12
    <2>3. CASE SendHistory(a) \/ \E p \in Procs \ {a} : LoopStep(a, p)
      <3>1. /\ child_pc[a] \in {"message_loop", "wait_all_done"}
            /\ child_pc'[a] \in {"message_loop", "wait_all_done", "finished"}
        BY <1>0, <2>3, LoopPc DEF SendHistory, ChildTypeOK
      <3>2. ~ Unread(b, q) /\ ~ Unread(b, q)'
        BY <1>0, <1>2, <3>1 DEF Unread
      <3>3. child_pc'[b] = child_pc[b]
        BY <1>2, AccountAlone
      <3>4. ~ SendStarted(a) /\ ~ WaitStarted(a)
        BY <3>1 DEF SendStarted, WaitStarted
      <3> QED
        BY <1>2, <3>1, <3>2, <3>3, <3>4 DEF Begun
    <2> QED
      BY <2>1, <2>2, <2>3, AccountSteps
  <1> QED
    BY <1>1, <1>2

LEMMA PeerAccount ==
  ASSUME IInv, PeerInv, NEW a \in Accounts, Account(a)
  PROVE  PeerInv'
  <1>0. ChildTypeOK /\ a \in Nat
    BY ProcFacts DEF IInv, TypeOK, Accounts
  <1>1. ASSUME NEW b \in Accounts \ {a}
        PROVE  /\ child_pc'[b] = "started" => peer'[b] = PeerFrom(b, 1)
               /\ child_pc'[b] = "wait_started" => peer'[b] # b
    BY AccountAlone DEF PeerInv
  <1>2. CASE SendStarted(a)
    <2>1. peer[a] = PeerFrom(a, 1) /\ peer' = peer /\ child_pc'[a] # "started"
      BY <1>0, <1>2 DEF SendStarted, AfterStartup, PeerInv, ChildTypeOK
    <2>2. peer'[a] # a
      BY <1>0, <2>1 DEF PeerFrom
    <2> QED
      BY <1>1, <2>1, <2>2 DEF PeerInv
  <1>3. CASE WaitStarted(a)
    <2>1. /\ peer'[a] = PeerFrom(a, peer[a] + 1) /\ child_pc'[a] # "started"
          /\ peer[a] \in Nat
      BY <1>0, <1>3 DEF WaitStarted, AfterStartup, ChildTypeOK
    <2>2. peer'[a] # a
      BY <1>0, <2>1 DEF PeerFrom
    <2> QED
      BY <1>1, <2>1, <2>2 DEF PeerInv
  <1>4. CASE SendHistory(a) \/ \E p \in Procs \ {a} : LoopStep(a, p)
    <2>1. child_pc'[a] \in {"message_loop", "wait_all_done", "finished"}
      BY <1>0, <1>4, LoopPc DEF SendHistory, ChildTypeOK
    <2> QED
      BY <1>1, <2>1 DEF PeerInv
  <1> QED
    BY <1>2, <1>3, <1>4, AccountSteps

LEMMA StartAccount ==
  ASSUME IInv, KindInv, StartInv, NEW a \in Accounts, Account(a)
  PROVE  StartInv'
  <1> SUFFICES ASSUME NEW b \in Accounts, NEW q \in Procs, q # b
               PROVE  StartedChannel(chan[b][q], Unread(b, q), Begun(b))'
    BY PeerAccount DEF StartInv
  <1>0. /\ a \in Procs /\ b \in Procs
        /\ chan[b][q] \in Seq(Message)
        /\ Unread(b, q) \in BOOLEAN /\ Unread(b, q)' \in BOOLEAN
        /\ Begun(b) \in BOOLEAN /\ Begun(b)' \in BOOLEAN
    <2>1. a \in Procs /\ b \in Procs /\ chan \in Channels
      BY ProcFacts DEF IInv, TypeOK
    <2> QED
      BY <2>1, ChannelType DEF Unread, Begun
  <1>1. StartedChannel(chan[b][q], Unread(b, q), Begun(b))
    BY DEF StartInv
  <1>2. /\ Begun(b)' <=> Begun(b) \/ b = a
        /\ ~ (WaitStarted(a) /\ b = peer[a] /\ q = a) =>
             (Unread(b, q)' <=> Unread(b, q))
        /\ WaitStarted(a) /\ b = peer[a] /\ q = a => ~ Unread(b, q)'
        /\ ~ SendStarted(a) => Begun(a)
        /\ SendStarted(a) => ~ Begun(a)
    BY UnreadAccount DEF StartInv
  <1>3. CASE SendStarted(a)
    <2>1. ~ WaitStarted(a)
      BY <1>3 DEF SendStarted, WaitStarted
    <2>2. Unread(b, q)' = Unread(b, q)
      BY <1>0, <1>2, <2>1
    <2>3. CASE b = a
      <3>1. chan'[b][q] = Append(chan[b][q], Msg("STARTED", 0))
        BY <1>0, <1>3, <2>3, StartupChannels
      <3>2. Begun(b) = FALSE /\ Begun(b)' = TRUE
        BY <1>0, <1>2, <1>3, <2>3
      <3> QED
        BY <1>0, <1>1, <2>2, <3>1, <3>2, StartSent
    <2>4. CASE b # a
      <3>1. chan'[b][q] = chan[b][q]
        BY <1>0, <1>3, <2>4, StartupChannels
      <3>2. Begun(b)' = Begun(b)
        BY <1>0, <1>2, <2>4
      <3> QED
        BY <1>1, <2>2, <3>1, <3>2
    <2> QED
      BY <2>3, <2>4
  <1>4. CASE ~ SendStarted(a)
    <2>1. Begun(b)' = Begun(b)
      BY <1>0, <1>2, <1>4
    <2>2. CASE WaitStarted(a) /\ b = peer[a] /\ q = a
      <3>1. chan[b][q] # << >> /\ chan'[b][q] = Tail(chan[b][q])
        BY <1>0, <1>4, <2>2, StartupChannels
      <3>2. Unread(b, q)' = FALSE
        BY <1>0, <1>2, <2>2
      <3> QED
        BY <1>0, <1>1, <2>1, <3>1, <3>2, StartTail
    <2>3. CASE ~ (WaitStarted(a) /\ b = peer[a] /\ q = a)
      <3>1. Unread(b, q)' = Unread(b, q)
        BY <1>0, <1>2, <2>3
      <3>2. CASE chan'[b][q] = chan[b][q]
        BY <1>1, <2>1, <3>1, <3>2
      <3>3. ASSUME b = a, NEW m \in Message, m.type # "STARTED",
                   chan'[b][q] = Append(chan[b][q], m)
            PROVE  StartedChannel(chan[b][q], Unread(b, q), Begun(b))'
        <4>1. Begun(b) = TRUE
          BY <1>0, <1>2, <1>4, <3>3
        <4> QED
          BY <1>0, <1>1, <2>1, <3>1, <3>3, <4>1, StartAppend
      <3>4. ASSUME chan[b][q] # << >>, chan'[b][q] = Tail(chan[b][q]),
                   Unread(b, q) = FALSE
            PROVE  StartedChannel(chan[b][q], Unread(b, q), Begun(b))'
        BY <1>0, <1>1, <2>1, <3>1, <3>4, StartTail
      <3>5. CASE WaitStarted(a)
        BY <1>0, <1>4, <2>3, <3>2, <3>5, StartupChannels
      <3>6. CASE SendHistory(a)
        <4>1. /\ Msg("BALANCE_HISTORY", balance[a]) \in Message
              /\ Msg("BALANCE_HISTORY", balance[a]).type # "STARTED"
          BY MessageFacts DEF Msg, IInv, TypeOK, ChildTypeOK
        <4>2. \/ chan'[b][q] = chan[b][q]
              \/ /\ b = a
                 /\ chan'[b][q] = Append(chan[b][q],
                                         Msg("BALANCE_HISTORY", balance[a]))
          BY <1>0, <3>6, HistoryChannels
        <4> QED
          BY <3>2, <3>3, <4>1, <4>2
      <3>7. ASSUME NEW p \in Procs \ {a}, LoopStep(a, p)
            PROVE  StartedChannel(chan[b][q], Unread(b, q), Begun(b))'
        <4>1. CASE b = a
          <5>1. \/ chan'[b][q] = chan[b][q]
                \/ \E m \in Message : /\ m.type # "STARTED"
                                      /\ chan'[b][q] = Append(chan[b][q], m)
            BY <1>0, <3>7, <4>1, LoopChannels DEF Carries
          <5> QED
            BY <3>2, <3>3, <4>1, <5>1
        <4>2. CASE b # a /\ ~ (b = p /\ q = a)
          BY <1>0, <3>2, <3>7, <4>2, LoopChannels
        <4>3. CASE b = p /\ q = a
          <5>1. chan[b][q] # << >> /\ chan'[b][q] = Tail(chan[b][q])
            BY <3>7, <4>3, LoopChannels
          <5>2. child_pc[a] \in {"message_loop", "wait_all_done"} /\ a # Parent
            BY <3>7, LoopPc, ProcFacts
          <5>3. Unread(b, q) = FALSE
            BY <4>3, <5>2 DEF Unread
          <5> QED
            BY <3>4, <5>1, <5>3
        <4> QED
          BY <4>1, <4>2, <4>3
      <3> QED
        BY <1>4, <3>5, <3>6, <3>7, AccountSteps
    <2> QED
      BY <2>2, <2>3
  <1> QED
    BY <1>3, <1>4

LEMMA StartInductive ==
  /\ Init => StartInv
  /\ IInv /\ KindInv /\ StartInv /\ [Next]_vars => StartInv'
  <1>0. /\ Parent \in Procs /\ Accounts \subseteq Procs /\ Parent \notin Accounts
        /\ \A a \in Accounts : a \in 1 .. N
        /\ N \in Nat
    BY ProcFacts DEF Accounts
  <1>1. ASSUME Init PROVE StartInv
    <2>1. PeerInv
      BY <1>1 DEF Init, ChildInit, PeerInv
    <2> SUFFICES ASSUME NEW b \in Accounts, NEW q \in Procs, q # b
                 PROVE  StartedChannel(chan[b][q], Unread(b, q), Begun(b))
      BY <2>1 DEF StartInv
    <2>2. chan[b][q] = << >> /\ 1 .. Len(chan[b][q]) = {}
      BY <1>0, <1>1, EmptySeq DEF Init, NetworkInit
    <2>3. ~ Begun(b)
      BY <1>1 DEF Init, ChildInit, Begun
    <2>4. Unread(b, q)
      <3>1. q # Parent => q \in Accounts
        BY <1>0 DEF Procs, Accounts, Parent
      <3> QED
        BY <1>0, <1>1, <3>1 DEF Init, ChildInit, MainInit, Unread
    <2> QED
      BY <2>2, <2>3, <2>4 DEF StartedChannel
  <1> SUFFICES ASSUME IInv, KindInv, StartInv, [Next]_vars PROVE StartInv'
    BY <1>1
  <1>2. chan \in Channels /\ \A b \in Accounts, q \in Procs : chan[b][q] \in Seq(Message)
    BY <1>0, ChannelType DEF IInv, TypeOK
  <1>3. ASSUME UNCHANGED childVars,
               \A b \in Accounts, q \in Procs :
                 \/ /\ chan'[b][q] = chan[b][q]
                    /\ Unread(b, q)' = Unread(b, q)
                 \/ /\ chan[b][q] # << >>
                    /\ chan'[b][q] = Tail(chan[b][q])
                    /\ Unread(b, q)' = FALSE
        PROVE  StartInv'
    <2>1. PeerInv' /\ \A b \in Accounts : Begun(b)' = Begun(b) /\ Begun(b) \in BOOLEAN
      BY <1>3 DEF StartInv, PeerInv, Begun, childVars
    <2> SUFFICES ASSUME NEW b \in Accounts, NEW q \in Procs, q # b
                 PROVE  StartedChannel(chan[b][q], Unread(b, q), Begun(b))'
      BY <2>1 DEF StartInv
    <2>2. StartedChannel(chan[b][q], Unread(b, q), Begun(b))
      BY DEF StartInv
    <2>3. CASE chan'[b][q] = chan[b][q] /\ Unread(b, q)' = Unread(b, q)
      BY <2>1, <2>2, <2>3
    <2>4. CASE /\ chan[b][q] # << >>
               /\ chan'[b][q] = Tail(chan[b][q])
               /\ Unread(b, q)' = FALSE
      <3>1. Unread(b, q) \in BOOLEAN
        BY DEF Unread
      <3> QED
        BY <1>2, <2>1, <2>2, <2>4, <3>1, StartTail
    <2> QED
      BY <1>3, <2>3, <2>4
  <1>4. CASE Quiet
    <2>1. \A b \in Accounts, q \in Procs : Unread(b, q)' = Unread(b, q)
      BY <1>4 DEF Quiet, Unread, childVars
    <2> QED
      BY <1>3, <1>4, <2>1 DEF Quiet
  <1>5. ASSUME NEW i \in Orders, SendsOrder(i) \/ AwaitsOrder(i)
        PROVE  StartInv'
    <2>1. UNCHANGED childVars /\ UNCHANGED mainVars /\ main_pc # "phase1"
      BY <1>5 DEF SendsOrder, AwaitsOrder, Serving
    <2>2. Src(i) \in Procs /\ Dst(i) \in Procs
      BY <1>0, OrderFacts
    <2>3. ASSUME NEW b \in Accounts, NEW q \in Procs
          PROVE  \/ /\ chan'[b][q] = chan[b][q]
                    /\ Unread(b, q)' = Unread(b, q)
                 \/ /\ chan[b][q] # << >>
                    /\ chan'[b][q] = Tail(chan[b][q])
                    /\ Unread(b, q)' = FALSE
      <3>1. b \in Procs /\ b # Parent
        BY <1>0
      <3>2. Unread(b, q)' = Unread(b, q) /\ (q = Parent => Unread(b, q)' = FALSE)
        BY <2>1 DEF Unread, mainVars, childVars
      <3>3. CASE SendsOrder(i)
        <4>1. \A p \in Procs :
                Send(chan, Parent, p, Msg("TRANSFER", i))[b][q] = chan[b][q]
          BY <1>0, <1>2, <3>1, SendAt
        <4> QED
          BY <2>2, <3>2, <3>3, <4>1 DEF SendsOrder
      <3>4. CASE AwaitsOrder(i)
        <4>1. Receive(chan, Dst(i), Parent)[b][q] =
                IF b = Dst(i) /\ q = Parent THEN Tail(chan[Dst(i)][Parent])
                                            ELSE chan[b][q]
          BY <1>0, <1>2, <2>2, <3>1, ReceiveAt
        <4> QED
          BY <3>2, <3>4, <4>1 DEF AwaitsOrder, HasMessage
      <3> QED
        BY <1>5, <3>3, <3>4
    <2> QED
      BY <1>3, <2>1, <2>3
  <1>6. CASE (Phase1WaitStartup \/ Phase3WaitDone \/ Phase4CollectHistory)
               /\ UNCHANGED childVars
    <2>1. /\ cursor \in Accounts
          /\ chan[cursor][Parent] # << >>
          /\ chan' = Receive(chan, cursor, Parent)
      BY <1>6, MainReceive
    <2>2. ASSUME NEW b \in Accounts, NEW q \in Procs
          PROVE  \/ /\ chan'[b][q] = chan[b][q]
                    /\ Unread(b, q)' = Unread(b, q)
                 \/ /\ chan[b][q] # << >>
                    /\ chan'[b][q] = Tail(chan[b][q])
                    /\ Unread(b, q)' = FALSE
      <3>1. b \in Procs /\ cursor \in Procs /\ cursor \in 1 .. N /\ b \in 1 .. N
        BY <1>0, <2>1
      <3>2. chan'[b][q] = IF b = cursor /\ q = Parent THEN Tail(chan[cursor][Parent])
                                                      ELSE chan[b][q]
        BY <1>0, <1>2, <2>1, <3>1, ReceiveAt
      <3>3. CASE q # Parent
        BY <1>6, <3>2, <3>3 DEF Unread, childVars
      <3>4. CASE q = Parent
        <4>1. CASE Phase1WaitStartup
          <5>1. /\ main_pc = "phase1"
                /\ main_pc' = IF cursor < N THEN "phase1" ELSE main_pc'
                /\ cursor < N => cursor' = cursor + 1
                /\ ~ cursor < N => main_pc' # "phase1"
            BY <4>1 DEF Phase1WaitStartup, MainAt, Iterate
          <5>2. Unread(b, q) <=> cursor <= b
            BY <3>4, <5>1 DEF Unread
          <5>3. Unread(b, q)' <=> cursor < N /\ cursor + 1 <= b
            BY <3>4, <5>1 DEF Unread
          <5>4. b = cursor => ~ Unread(b, q)'
            BY <3>1, <5>3
          <5>5. b # cursor => (Unread(b, q)' <=> Unread(b, q))
            BY <1>0, <3>1, <5>2, <5>3
          <5>6. Unread(b, q) \in BOOLEAN /\ Unread(b, q)' \in BOOLEAN
            BY DEF Unread
          <5>7. CASE b = cursor
            BY <2>1, <3>2, <3>4, <5>4, <5>6, <5>7
          <5>8. CASE b # cursor
            BY <3>2, <5>5, <5>6, <5>8
          <5> QED
            BY <5>7, <5>8
        <4>2. CASE Phase3WaitDone \/ Phase4CollectHistory
          <5>1. main_pc # "phase1" /\ main_pc' # "phase1"
            BY <4>2 DEF Phase3WaitDone, Phase4CollectHistory, MainAt, Iterate
          <5>2. ~ Unread(b, q) /\ ~ Unread(b, q)'
            BY <3>4, <5>1 DEF Unread
          <5>3. Unread(b, q) \in BOOLEAN /\ Unread(b, q)' \in BOOLEAN
            BY DEF Unread
          <5>4. Unread(b, q)' = FALSE /\ Unread(b, q)' = Unread(b, q)
            BY <5>2, <5>3
          <5>5. CASE b = cursor
            BY <2>1, <3>2, <3>4, <5>4, <5>5
          <5>6. CASE b # cursor
            BY <3>2, <5>4, <5>6
          <5> QED
            BY <5>5, <5>6
        <4> QED
          BY <1>6, <4>1, <4>2
      <3> QED
        BY <3>3, <3>4
    <2> QED
      BY <1>3, <1>6, <2>2
  <1>7. CASE Phase3Stop /\ UNCHANGED childVars
    <2>1. \A b \in Accounts, q \in Procs : chan'[b][q] = chan[b][q]
      BY <1>0, <1>2, <1>7 DEF Phase3Stop, SendMulticast, Channels
    <2>2. \A b \in Accounts, q \in Procs : Unread(b, q)' = Unread(b, q)
      BY <1>7 DEF Phase3Stop, MainAt, Unread, childVars
    <2> QED
      BY <1>3, <1>7, <2>1, <2>2
  <1>8. ASSUME NEW a \in Accounts, Account(a)
        PROVE  StartInv'
    BY <1>8, StartAccount
  <1> QED
    BY <1>4, <1>5, <1>6, <1>7, <1>8, ParentChannels

-----------------------------------------------------------------------------
(***************************************************************************)
(* The invariant of the channels, and the two barriers.                    *)
(***************************************************************************)
ChannelInv == KindInv /\ StartInv /\ StopInv /\ DoneInv

\* Every channel carries only what its sender sends to its recipient, STARTED
\* first, STOP last and DONE once, and each is where its two ends are at.
THEOREM ChannelInvariance == Spec => []ChannelInv
  <1>1. Init => ChannelInv
    BY KindsInductive, StartInductive, StopInductive, DoneInductive DEF ChannelInv
  <1>2. IInv /\ ChannelInv /\ [Next]_vars => ChannelInv'
    BY KindsInductive, StartInductive, StopInductive, DoneInductive DEF ChannelInv
  <1> QED
    BY <1>1, <1>2, Invariance, PTL DEF Spec

\* Startup is a barrier (child_worker.cpp:37-71): an account that serves
\* transfers knows that every account has begun, and no STARTED is left in a
\* channel to it, nor in one to the parent after phase 1.
THEOREM StartupIsBarrier == Spec => []StartupBarrier
  <1>1. ASSUME IInv, StartInv PROVE StartupBarrier
    <2>0. ASSUME NEW b \in Accounts, NEW q \in Procs, q # b, ~ Unread(b, q)
          PROVE  child_pc[b] # "started" /\ Msg("STARTED", 0) \notin Range(chan[b][q])
      <3>1. StartedChannel(chan[b][q], Unread(b, q), Begun(b))
        BY <1>1, <2>0 DEF StartInv
      <3>2. chan[b][q] \in Seq(Message)
        <4>1. b \in Procs /\ chan \in Channels
          BY <1>1, ProcFacts DEF IInv, TypeOK
        <4> QED
          BY <4>1, ChannelType
      <3>3. DOMAIN chan[b][q] = 1 .. Len(chan[b][q])
        BY <3>2, LenProperties
      <3>4. \A j \in 1 .. Len(chan[b][q]) : chan[b][q][j] # Msg("STARTED", 0)
        BY <2>0, <3>1 DEF StartedChannel, Msg
      <3>5. Begun(b)
        BY <2>0, <3>1 DEF StartedChannel
      <3> QED
        BY <3>3, <3>4, <3>5 DEF Range, Begun
    <2>1. ASSUME NEW a \in Accounts, child_pc[a] \notin {"started", "wait_started"},
                 NEW b \in Accounts \ {a}
          PROVE  child_pc[b] # "started" /\ Msg("STARTED", 0) \notin Range(chan[b][a])
      <3>1. a \in Procs /\ a # Parent
        BY ProcFacts
      <3>2. ~ Unread(b, a)
        BY <2>1, <3>1 DEF Unread
      <3> QED
        BY <2>0, <3>1, <3>2
    <2>2. ASSUME main_pc # "phase1", NEW b \in Accounts
          PROVE  Msg("STARTED", 0) \notin Range(chan[b][Parent])
      <3>1. Parent \in Procs /\ b # Parent
        BY ProcFacts
      <3>2. ~ Unread(b, Parent)
        BY <2>2 DEF Unread
      <3> QED
        BY <2>0, <3>1, <3>2
    <2> QED
      BY <2>1, <2>2 DEF StartupBarrier
  <1>2. IInv /\ ChannelInv => StartupBarrier
    BY <1>1 DEF ChannelInv
  <1> QED
    BY <1>2, Invariance, ChannelInvariance, PTL

\* An account that has reported its history knows that every account has
\* received STOP (child_worker.cpp:113-141): it has counted N - 1 DONEs, and
\* no account sends two.
THEOREM StopIsBarrier == Spec => []StopBarrier
  <1>1. ASSUME DoneInv PROVE StopBarrier
    <2> SUFFICES ASSUME NEW a \in Accounts, NEW b \in Accounts,
                        child_pc[a] = "finished", a # b
                 PROVE  Stopped(b)
      BY DEF StopBarrier, Stopped
    <2>1. N - 1 <= Cardinality(Taken(a))
      BY <1>1 DEF DoneInv
    <2>2. IsFiniteSet(Accounts) /\ Cardinality(Accounts) = N
      BY ProcFacts, FS_Interval DEF Accounts
    <2>3. IsFiniteSet(Accounts \ {a}) /\ Cardinality(Accounts \ {a}) = N - 1
      BY <2>2, FS_RemoveElement
    <2>4. Taken(a) \in SUBSET (Accounts \ {a})
      BY DEF Taken
    <2>5. /\ Cardinality(Taken(a)) <= Cardinality(Accounts \ {a})
          /\ Cardinality(Taken(a)) = Cardinality(Accounts \ {a}) =>
               Taken(a) = Accounts \ {a}
          /\ Cardinality(Taken(a)) \in Nat
      BY <2>3, <2>4, FS_Subset, FS_CardinalityType
    <2>6. Taken(a) = Accounts \ {a}
      BY <2>1, <2>3, <2>5, ProcFacts
    <2> QED
      BY <2>6 DEF Taken, DoneRead
  <1>2. ChannelInv => StopBarrier
    BY <1>1 DEF ChannelInv
  <1> QED
    BY <1>2, ChannelInvariance, PTL
=============================================================================
