---------------------------- MODULE StampedBank ----------------------------
(***************************************************************************)
(* BankSystem with its Lamport clocks (src/common/clock.cpp) and the       *)
(* histories the accounts keep.  Every action of BankSystem is conjoined   *)
(* with what it does to the clock of its process, to the stamps of the     *)
(* messages it sends and receives, and to the history of its account.      *)
(* stamps[p][q] holds s_local_time of the messages in chan[p][q].          *)
(*                                                                         *)
(* The threads of the parent share one clock.  A worker draws the stamp    *)
(* of a TRANSFER before it sends it, and other threads may draw and send   *)
(* in between; a receive and the update that follows it are one step,      *)
(* since no other thread receives from that account.                       *)
(***************************************************************************)
EXTENDS BankSystem, BalanceHistory

CONSTANT Before   \* what may precede the buffer of a history in memory

VARIABLES
  clock,    \* Lamport_time of each process
  stamps,   \* s_local_time of the messages in chan
  drawn,    \* the stamp the worker of each shard will send, or NoStamp
  history   \* history_ of each account

stampVars == <<clock, stamps, drawn, history>>
allVars == <<vars, stampVars>>

NoStamp == 0

\* Mutant: the time of the message is taken over as it is.
UpdateTimeNoMax(time, received) == received + 1

\* update_lamport_time
UpdateTime(time, received) == (IF time < received THEN received ELSE time) + 1

\* A local event of process p, and an event caused by a message stamped t.
Tick(p) == clock' = [clock EXCEPT ![p] = UpdateTime(@, 0)]
TickAt(p, t) == clock' = [clock EXCEPT ![p] = UpdateTime(@, t)]

StampedInit ==
  /\ Init
  /\ clock = [p \in Procs |-> 0]
  /\ stamps = [p \in Procs |-> [q \in Procs |-> << >>]]
  /\ drawn = [s \in Shards |-> NoStamp]
  /\ \E before \in Before :
       history = [a \in Accounts |-> InitHistory(InitialBalance[a], before)]

-----------------------------------------------------------------------------
(***************************************************************************)
(* Accounts.                                                               *)
(***************************************************************************)
Stamp(p, q) == Head(stamps[p][q])
ReceiveStamp(p, q) == stamps' = Receive(stamps, p, q)

\* message_loop updates the clock for every message, and the handlers of
\* TRANSFER and STOP update it again.
Received(a, p) == UpdateTime(clock[a], Stamp(p, a))
ReceivedAgain(a, p) == UpdateTime(Received(a, p), Stamp(p, a))

StampedSendStarted(a) ==
  /\ SendStarted(a)
  /\ Tick(a)
  /\ stamps' = SendMulticast(stamps, a, clock'[a])
  /\ UNCHANGED <<drawn, history>>

StampedWaitStarted(a) ==
  /\ WaitStarted(a)
  /\ TickAt(a, Stamp(peer[a], a))
  /\ ReceiveStamp(peer[a], a)
  /\ UNCHANGED <<drawn, history>>

\* Mutant: the entry is written for the time of the message.
StampedAsSourceAtReceipt(a, p) ==
  LET i == Oldest(p, a).val
      current == UpdateTime(Received(a, p), 0) IN
  /\ HandleTransferAsSource(a, p)
  /\ clock' = [clock EXCEPT ![a] = current]
  /\ history' = [history EXCEPT ![a] =
       UpdateHistory(@, Stamp(p, a), Stamp(p, a), NowBalance(@) - Amount(i), 0)]
  /\ stamps' = Send(Receive(stamps, p, a), a, Dst(i), current)
  /\ UNCHANGED drawn

\* The debit is written for the time that the forwarded order is stamped with.
StampedAsSource(a, p) ==
  LET i == Oldest(p, a).val
      current == UpdateTime(Received(a, p), 0) IN
  /\ HandleTransferAsSource(a, p)
  /\ clock' = [clock EXCEPT ![a] = current]
  /\ history' = [history EXCEPT ![a] =
       UpdateHistory(@, current, current, NowBalance(@) - Amount(i), 0)]
  /\ stamps' = Send(Receive(stamps, p, a), a, Dst(i), current)
  /\ UNCHANGED drawn

\* The amount is pending from the time of the message to that of the credit.
StampedAsDestination(a, p) ==
  LET i == Oldest(p, a).val
      current == ReceivedAgain(a, p) IN
  /\ HandleTransferAsDestination(a, p)
  /\ clock' = [clock EXCEPT ![a] = current]
  /\ history' = [history EXCEPT ![a] =
       UpdateHistory(@, Stamp(p, a), current, NowBalance(@) + Amount(i), Amount(i))]
  /\ stamps' = Send(Receive(stamps, p, a), a, Parent, current)
  /\ UNCHANGED drawn

StampedStop(a, p) ==
  /\ HandleStop(a, p)
  /\ clock' = [clock EXCEPT ![a] = ReceivedAgain(a, p)]
  /\ stamps' = SendMulticast(Receive(stamps, p, a), a, ReceivedAgain(a, p))
  /\ UNCHANGED <<drawn, history>>

StampedReceive(a, p) ==
  /\ HandleOther(a, p) \/ WaitAllDone(a, p)
  /\ TickAt(a, Stamp(p, a))
  /\ ReceiveStamp(p, a)
  /\ UNCHANGED <<drawn, history>>

StampedSendHistory(a) ==
  /\ SendHistory(a)
  /\ Tick(a)
  /\ stamps' = Send(stamps, a, Parent, clock'[a])
  /\ UNCHANGED <<drawn, history>>

StampedChild(a) ==
  \/ StampedSendStarted(a)
  \/ StampedWaitStarted(a)
  \/ \E p \in Procs \ {a} :
       \/ StampedAsSource(a, p)
       \/ StampedAsDestination(a, p)
       \/ StampedStop(a, p)
       \/ StampedReceive(a, p)
  \/ StampedSendHistory(a)

-----------------------------------------------------------------------------
(***************************************************************************)
(* Threads of the parent.                                                  *)
(***************************************************************************)
SendPcs == {"local_send", "step1_send", "step2_send"}

DrawStamp(s) ==
  /\ ~ crashed
  /\ worker_pc[s] \in SendPcs
  /\ drawn[s] = NoStamp
  /\ Tick(Parent)
  /\ drawn' = [drawn EXCEPT ![s] = clock'[Parent]]
  /\ UNCHANGED <<vars, stamps, history>>

SendDrawn(s, account) ==
  /\ drawn[s] # NoStamp
  /\ stamps' = Send(stamps, Parent, account, drawn[s])
  /\ drawn' = [drawn EXCEPT ![s] = NoStamp]
  /\ UNCHANGED <<clock, history>>

ParentReceives(p) ==
  /\ TickAt(Parent, Stamp(p, Parent))
  /\ ReceiveStamp(p, Parent)
  /\ UNCHANGED <<drawn, history>>

StampedSend(s) ==
  \/ /\ LocalSend(s) \/ Step1Send(s)
     /\ SendDrawn(s, Src(task[s].order))
  \/ /\ Step2Send(s)
     /\ SendDrawn(s, Dst(task[s].order))

StampedAck(s) ==
  /\ LocalAck(s) \/ Step2Ack(s)
  /\ ParentReceives(Dst(task[s].order))

\* The steps of a worker that neither send nor receive.
Unstamped(s) ==
  /\ \/ WorkerTake(s)
     \/ WorkerExit(s)
     \/ Step1Found(s)
     \/ Step1NotFound(s)
     \/ Step2Push(s)
     \/ Step2Notify(s)
     \/ Step2Cleanup(s)
     \/ Crash(s)
  /\ UNCHANGED stampVars

StampedWorkerStep(s) == StampedSend(s) \/ StampedAck(s) \/ Unstamped(s)

StampedMainStep ==
  \/ /\ Phase1WaitStartup \/ Phase3WaitDone \/ Phase4CollectHistory
     /\ ParentReceives(cursor)
  \/ /\ Phase3Stop
     /\ Tick(Parent)
     /\ stamps' = SendMulticast(stamps, Parent, clock'[Parent])
     /\ UNCHANGED <<drawn, history>>
  \/ /\ \/ Phase2Submit
        \/ WaitAllComplete
        \/ DestroyContexts
        \/ StopShard
        \/ JoinShard
     /\ UNCHANGED stampVars

-----------------------------------------------------------------------------
StampedMain       == StampedMainStep /\ UNCHANGED childVars
StampedWorker(s)  == StampedWorkerStep(s) /\ UNCHANGED <<childVars, mainVars>>
StampedAccount(a) == StampedChild(a) /\ UNCHANGED parentVars

StampedNext ==
  \/ StampedMain
  \/ \E s \in Shards : DrawStamp(s) \/ StampedWorker(s)
  \/ \E a \in Accounts : StampedAccount(a)
  \/ Terminated /\ UNCHANGED stampVars

StampedSpec == StampedInit /\ [][StampedNext]_allVars

\* As FairSpec of BankSystem.
StampedFairSpec ==
  /\ StampedSpec
  /\ WF_allVars(StampedMain)
  /\ \A s \in Shards :
       WF_allVars(DrawStamp(s) \/ (StampedWorker(s) /\ worker_pc'[s] # "exited"))
  /\ \A a \in Accounts : WF_allVars(StampedAccount(a))
=============================================================================
