----------------------------- MODULE BankSystem -----------------------------
(***************************************************************************)
(* The whole system: the main thread and the worker threads of the parent  *)
(* process and the N account processes, over the network.                  *)
(***************************************************************************)
EXTENDS ParentController, ChildWorker

parentVars == <<poolVars, mainVars>>
vars == <<chan, childVars, parentVars>>

Init ==
  /\ NetworkInit
  /\ ChildInit
  /\ PoolInit
  /\ MainInit

Main       == MainStep /\ UNCHANGED childVars
Worker(s)  == WorkerStep(s) /\ UNCHANGED <<childVars, mainVars>>
Account(a) == ChildStep(a) /\ UNCHANGED parentVars

AllFinished ==
  /\ main_pc = "finished"
  /\ \A a \in Accounts : child_pc[a] = "finished"

\* Every process has ended: the behaviour stutters for ever.
Terminated == AllFinished /\ UNCHANGED vars

Next ==
  \/ Main
  \/ \E s \in Shards : Worker(s)
  \/ \E a \in Accounts : Account(a)
  \/ Terminated

Spec == Init /\ [][Next]_vars

\* The operating system runs every thread and every process that can run.
\* That a shard's worker sees it was told to stop is not assumed: AccountShard
\* shows that the notification of ~AccountShard can be lost.
FairSpec ==
  /\ Spec
  /\ WF_vars(Main)
  /\ \A s \in Shards : WF_vars(Worker(s) /\ worker_pc'[s] # "exited")
  /\ \A a \in Accounts : WF_vars(Account(a))
=============================================================================
