---------------------------- MODULE ChildWorker ----------------------------
(***************************************************************************)
(* An account process (src/process/child_worker.cpp): one thread that      *)
(* exchanges STARTED with the others, then serves TRANSFER until STOP,     *)
(* exchanges DONE and reports its history.  Between two receives it only   *)
(* computes and sends, so that a receive and what it causes are one step.  *)
(* Lamport clocks and the contents of the history other than the current   *)
(* balance are left to another module.                                     *)
(***************************************************************************)
EXTENDS Network

CONSTANTS
  InitialBalance,  \* args.balance of each account
  KeepDoneCount    \* TRUE: the DONEs counted before STOP still count after
                   \* it, as in child_work of lab_cpp.cpp; FALSE: they do
                   \* not, as in src/process/child_worker.cpp

ASSUME InitialBalanceAssumption == InitialBalance \in [Accounts -> 0 .. 255]
ASSUME KeepDoneCountAssumption == KeepDoneCount \in BOOLEAN

VARIABLES
  child_pc,    \* where the account is in ChildWorker::run
  peer,        \* loop variable i of send_started_and_wait
  balance,     \* now_balance(&history_)
  done_count,  \* DONE messages counted
  debited,     \* history variable: how often order i was debited
  credited     \* history variable: how often order i was credited

childVars == <<child_pc, peer, balance, done_count, debited, credited>>

\* "for (i = 1; ...) if (i == self_id_) continue;"
PeerFrom(a, i) == IF i = a THEN i + 1 ELSE i

ChildInit ==
  /\ child_pc = [a \in Accounts |-> "started"]
  /\ peer = [a \in Accounts |-> PeerFrom(a, 1)]
  /\ balance = InitialBalance
  /\ done_count = [a \in Accounts |-> 0]
  /\ debited = [i \in Orders |-> 0]
  /\ credited = [i \in Orders |-> 0]

\* Mutant: the loop of send_started_and_wait ends one account early.
AfterStartupEarly(a, i) ==
  child_pc' = [child_pc EXCEPT ![a] = IF i >= N THEN "message_loop"
                                                ELSE "wait_started"]

AfterStartup(a, i) ==
  child_pc' = [child_pc EXCEPT ![a] = IF i > N THEN "message_loop"
                                               ELSE "wait_started"]

(***************************************************************************)
(* send_started_and_wait                                                   *)
(***************************************************************************)
SendStarted(a) ==
  /\ child_pc[a] = "started"
  /\ chan' = SendMulticast(chan, a, Msg("STARTED", 0))
  /\ AfterStartup(a, peer[a])
  /\ UNCHANGED <<peer, balance, done_count, debited, credited>>

\* One message of each peer is awaited, in the order of the identifiers; its
\* type decides only whether a line is logged.
WaitStarted(a) ==
  /\ child_pc[a] = "wait_started"
  /\ HasMessage(peer[a], a)
  /\ chan' = Receive(chan, peer[a], a)
  /\ peer' = [peer EXCEPT ![a] = PeerFrom(a, peer[a] + 1)]
  /\ AfterStartup(a, PeerFrom(a, peer[a] + 1))
  /\ UNCHANGED <<balance, done_count, debited, credited>>

(***************************************************************************)
(* message_loop: receive_any returned the oldest message from process p.   *)
(***************************************************************************)
ReceivedInLoop(a, p, type) ==
  /\ child_pc[a] = "message_loop"
  /\ HasMessage(p, a)
  /\ Oldest(p, a).type = type

HandleTransferAsSource(a, p) ==
  LET i == Oldest(p, a).val IN
  /\ ReceivedInLoop(a, p, "TRANSFER")
  /\ Src(i) = a
  /\ balance' = [balance EXCEPT ![a] = @ - Amount(i)]
  /\ debited' = [debited EXCEPT ![i] = @ + 1]
  /\ chan' = Send(Receive(chan, p, a), a, Dst(i), Msg("TRANSFER", i))
  /\ UNCHANGED <<child_pc, peer, done_count, credited>>

\* Mutant: the order is acknowledged and not credited.
HandleTransferNotCredited(a, p) ==
  LET i == Oldest(p, a).val IN
  /\ ReceivedInLoop(a, p, "TRANSFER")
  /\ Src(i) # a /\ Dst(i) = a
  /\ chan' = Send(Receive(chan, p, a), a, Parent, Msg("ACK", 0))
  /\ UNCHANGED <<child_pc, peer, balance, done_count, debited, credited>>

HandleTransferAsDestination(a, p) ==
  LET i == Oldest(p, a).val IN
  /\ ReceivedInLoop(a, p, "TRANSFER")
  /\ Src(i) # a /\ Dst(i) = a
  /\ balance' = [balance EXCEPT ![a] = @ + Amount(i)]
  /\ credited' = [credited EXCEPT ![i] = @ + 1]
  /\ chan' = Send(Receive(chan, p, a), a, Parent, Msg("ACK", 0))
  /\ UNCHANGED <<child_pc, peer, done_count, debited>>

\* Mutant: the DONEs counted before STOP are forgotten.
HandleStopForgets(a, p) ==
  /\ ReceivedInLoop(a, p, "STOP")
  /\ chan' = SendMulticast(Receive(chan, p, a), a, Msg("DONE", 0))
  /\ done_count' = [done_count EXCEPT ![a] = 0]
  /\ child_pc' = [child_pc EXCEPT ![a] = "wait_all_done"]
  /\ UNCHANGED <<peer, balance, debited, credited>>

\* STOP: multicast DONE and leave the loop.  wait_all_done of the class
\* counts in a variable of its own that starts from 0.
HandleStop(a, p) ==
  /\ ReceivedInLoop(a, p, "STOP")
  /\ chan' = SendMulticast(Receive(chan, p, a), a, Msg("DONE", 0))
  /\ done_count' = [done_count EXCEPT ![a] = IF KeepDoneCount THEN @ ELSE 0]
  /\ child_pc' = [child_pc EXCEPT ![a] = "wait_all_done"]
  /\ UNCHANGED <<peer, balance, debited, credited>>

\* A DONE is counted; a message that none of the branches asks for is dropped.
HandleOther(a, p) ==
  /\ child_pc[a] = "message_loop"
  /\ HasMessage(p, a)
  /\ Oldest(p, a).type # "STOP"
  /\ Oldest(p, a).type = "TRANSFER" =>
       a \notin {Src(Oldest(p, a).val), Dst(Oldest(p, a).val)}
  /\ chan' = Receive(chan, p, a)
  /\ done_count' = [done_count EXCEPT ![a] =
                      IF Oldest(p, a).type = "DONE" THEN @ + 1 ELSE @]
  /\ UNCHANGED <<child_pc, peer, balance, debited, credited>>

\* Mutant: the counter counts down.
WaitAllDoneDown(a, p) ==
  /\ child_pc[a] = "wait_all_done"
  /\ done_count[a] # N - 1
  /\ HasMessage(p, a)
  /\ chan' = Receive(chan, p, a)
  /\ done_count' = [done_count EXCEPT ![a] = @ - 1]
  /\ UNCHANGED <<child_pc, peer, balance, debited, credited>>

(***************************************************************************)
(* wait_all_done: whatever is not a DONE is received and dropped.          *)
(***************************************************************************)
WaitAllDone(a, p) ==
  /\ child_pc[a] = "wait_all_done"
  /\ done_count[a] # N - 1
  /\ HasMessage(p, a)
  /\ chan' = Receive(chan, p, a)
  /\ done_count' = [done_count EXCEPT ![a] =
                      IF Oldest(p, a).type = "DONE" THEN @ + 1 ELSE @]
  /\ UNCHANGED <<child_pc, peer, balance, debited, credited>>

\* Mutant: one DONE too few.
SendHistoryEarly(a) ==
  /\ child_pc[a] = "wait_all_done"
  /\ done_count[a] = N - 2
  /\ chan' = Send(chan, a, Parent, Msg("BALANCE_HISTORY", balance[a]))
  /\ child_pc' = [child_pc EXCEPT ![a] = "finished"]
  /\ UNCHANGED <<peer, balance, done_count, debited, credited>>

\* The loop is over: send_history, and the process ends.
SendHistory(a) ==
  /\ child_pc[a] = "wait_all_done"
  /\ done_count[a] = N - 1
  /\ chan' = Send(chan, a, Parent, Msg("BALANCE_HISTORY", balance[a]))
  /\ child_pc' = [child_pc EXCEPT ![a] = "finished"]
  /\ UNCHANGED <<peer, balance, done_count, debited, credited>>

ChildStep(a) ==
  \/ SendStarted(a)
  \/ WaitStarted(a)
  \/ \E p \in Procs \ {a} :
       \/ HandleTransferAsSource(a, p)
       \/ HandleTransferAsDestination(a, p)
       \/ HandleStop(a, p)
       \/ HandleOther(a, p)
       \/ WaitAllDone(a, p)
  \/ SendHistory(a)
=============================================================================
