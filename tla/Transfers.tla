----------------------------- MODULE Transfers -----------------------------
(***************************************************************************)
(* The data of the system: accounts, shards, the transfer orders a run is  *)
(* asked to perform and the tasks they become (transfer_task.h).  An order *)
(* is known by its position in Workload, so that a TransferOrder message,  *)
(* which carries only (src, dst, amount), is the index of its order.       *)
(***************************************************************************)
EXTENDS Integers, Sequences

CONSTANTS
  N,          \* number of account processes: count_nodes - 1
  NumShards,  \* num_shards
  Workload    \* the calls of submit_transfer, in order: [src, dst, amount]

ASSUME NAssumption == N \in Nat \ {0}
ASSUME NumShardsAssumption == NumShards \in Nat \ {0}

Accounts == 1 .. N
Shards   == 0 .. NumShards - 1

\* A transfer between two different accounts, of a non-negative amount.
ASSUME WorkloadAssumption ==
  /\ Workload \in Seq([src : Accounts, dst : Accounts, amount : Nat])
  /\ \A i \in DOMAIN Workload : Workload[i].src # Workload[i].dst

Orders == 1 .. Len(Workload)
Src(i) == Workload[i].src
Dst(i) == Workload[i].dst
Amount(i) == Workload[i].amount

\* ShardManager::get_shard_id
GetShardId(a) == a % NumShards

IsLocal(i) == GetShardId(Src(i)) = GetShardId(Dst(i))

(***************************************************************************)
(* Tasks.  A cross-shard task also carries src_shard_id and dst_shard_id,  *)
(* which handle_cross_shard_transfer computes from the accounts; they are  *)
(* GetShardId(Src(order)) and GetShardId(Dst(order)) here.  Order 0 is the *)
(* "TransferTask task(0, 0, 0)" of worker_loop, a local transfer of        *)
(* nothing that is never executed.                                         *)
(***************************************************************************)
TaskTypes == {"LOCAL_TRANSFER", "CROSS_SHARD_STEP1", "CROSS_SHARD_STEP2"}
Task(type, i, corr) == [task_type |-> type, order |-> i, correlation_id |-> corr]

LocalTask(i)       == Task("LOCAL_TRANSFER", i, 0)
Step1Task(i, corr) == Task("CROSS_SHARD_STEP1", i, corr)
Step2Task(i, corr) == Task("CROSS_SHARD_STEP2", i, corr)
NoTask             == LocalTask(0)

Tasks == [task_type : TaskTypes, order : Orders, correlation_id : Nat]

\* CrossShardContext: the step 1 task and the flag; the creation time is
\* stored and never read.
Context(i, corr) ==
  [task |-> Step1Task(i, corr), step1_completed |-> FALSE]
Contexts == [task : Tasks, step1_completed : BOOLEAN]

\* The transfers phase 2 submits: i -> i+1 of amount i for every account but
\* the last, and N -> 1 of amount 1 when there are two accounts or more.
RingWorkload(n) ==
  [i \in 1 .. (IF n > 1 THEN n ELSE 0) |->
     IF i < n THEN [src |-> i, dst |-> i + 1, amount |-> i]
              ELSE [src |-> n, dst |-> 1, amount |-> 1]]
=============================================================================
