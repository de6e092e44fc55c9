----------------------------- MODULE TaskQueue -----------------------------
(***************************************************************************)
(* What a shard promises to the threads that use it, with no mutex, no     *)
(* condition variable and no threads: tasks are executed one at a time, in *)
(* the order in which they were submitted, and the worker leaves only once *)
(* it was told to stop and nothing is queued (account_shard.h, "one worker *)
(* thread per shard").  AccountShard and BankSystem implement it.          *)
(***************************************************************************)
EXTENDS Sequences

CONSTANTS
  Tasks,     \* the tasks a shard may be given
  NoTask     \* the value of the worker's local variable before it has a task

VARIABLES
  queue,     \* tasks submitted and not yet taken, oldest first
  current,   \* the task being executed, or NoTask
  worker,    \* "idle", "busy" or "exited"
  stopping   \* has the shard been told to stop?

vars == <<queue, current, worker, stopping>>

Init ==
  /\ queue = << >>
  /\ current = NoTask
  /\ worker = "idle"
  /\ stopping = FALSE

Submit(t) ==
  /\ queue' = Append(queue, t)
  /\ UNCHANGED <<current, worker, stopping>>

Take ==
  /\ worker = "idle"
  /\ queue # << >>
  /\ current' = Head(queue)
  /\ queue' = Tail(queue)
  /\ worker' = "busy"
  /\ UNCHANGED stopping

Finish ==
  /\ worker = "busy"
  /\ current' = NoTask
  /\ worker' = "idle"
  /\ UNCHANGED <<queue, stopping>>

Stop ==
  /\ stopping' = TRUE
  /\ UNCHANGED <<queue, current, worker>>

Exit ==
  /\ worker = "idle"
  /\ stopping
  /\ queue = << >>
  /\ worker' = "exited"
  /\ UNCHANGED <<queue, current, stopping>>

Next ==
  \/ \E t \in Tasks : Submit(t)
  \/ Take
  \/ Finish
  \/ Stop
  \/ Exit

Spec == Init /\ [][Next]_vars

\* A task at the head of the queue is eventually taken, and a task that is
\* being executed eventually ends.
Fairness == WF_vars(Take) /\ WF_vars(Finish)

FairSpec == Spec /\ Fairness
=============================================================================
