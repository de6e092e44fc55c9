# A verification project for the distributed bank transfer system

The repository moves money between *account processes*.  A *parent process*
starts the accounts, asks for a fixed set of transfers, and collects the
accounts' balance histories.  Inside the parent, transfers are distributed over
*shards*, each with a task queue and a worker thread; a transfer between accounts
of two shards is done in two steps.  The code exists twice, as modules under
`src/src` and as one file, `src/lab_cpp.cpp`; the two follow the same protocol and
differ in one point (`KeepDoneCount` below).

This project models the protocol, from the mutex of one shard to the whole
system, its clocks and the balance histories included, checks it with TLC and proves
its main claims with TLAPS, for any number of accounts, shards and transfers.

## 1. Inventory

| Component | State | Operations | Interacts through |
|---|---|---|---|
| `AccountShard` (`shard/account_shard.cpp`) | `task_queue_`, `queue_mutex_`, `queue_cv_`, `stop_flag_`, three counters | `submit_task`, `wait_completion`, `worker_loop`, destructor, the three task handlers | called by the main thread and by the workers of other shards; sends TRANSFER and receives ACK; calls back into the manager |
| `ShardManager` (`shard/shard_manager.cpp`) | `shards_`, `cross_shard_contexts_` under `context_mutex_`, `next_correlation_id_` | `submit_transfer`, `submit_cross_shard_step2`, `cleanup_cross_shard_context`, `wait_all_complete`, destructor | main thread and workers |
| `ParentController` (`process/parent_controller.cpp`) | loop variables, `all_history` | phases 1 to 4 | owns the manager; multicast STOP, receives STARTED, DONE, BALANCE_HISTORY |
| `ChildWorker` (`process/child_worker.cpp`) | `history_`, the DONE counters | `send_started_and_wait`, `message_loop`, `handle_transfer_as_source`, `handle_transfer_as_destination`, `wait_all_done`, `send_history` | messages only |
| Lamport clock (`common/clock.cpp`) | one counter per process, under a mutex | `update`, `get_time` | called around every send and receive |
| Balance history (`common/utils.cpp`) | 256 entries, an 8-bit length | `update_history`, `now_balance` | called by the handlers of `ChildWorker` |
| Transport (`labs_headers/message.h`) | channels | `send`, `send_multicast`, `receive`, `receive_any` | declared here, implemented by an external framework |

What makes it hard: the condition variable and the notifications outside its
mutex; a destructor that runs while workers call back into the object; two
paths by which an order can reach its destination; answers that name no request;
barriers (STARTED, STOP/DONE) whose messages can be overtaken by others; and a
`receive_any` that may return any account's message first.

What makes each part correct:

* a shard executes every task once, in order, and loses no wakeup;
* the manager brings every order to its source once, keeps the context of
  exactly the transfers under way, and abandons nothing when it is destroyed;
* an order is debited once and credited once, and money is conserved;
* nobody takes a message meant for somebody, or for something, else;
* phases 3 and 4 begin and end when they say they do, and the system ends;
* messages reach a process in the order of their stamps, entry t of a history is
  the account's state at time t, and at every time the histories, what is pending
  included, add up to what there was at the start.

## 2. Modules

| Module | What it is |
|---|---|
| `TaskQueue` | abstract: a FIFO queue, one worker, a stop that drains |
| `AccountShard` | one shard with its mutex, condition variable, worker and destructor |
| `AccountShardProperties` | what is claimed of it; the refinement to `TaskQueue` |
| `AccountShardProofs` | TLAPS proofs of those claims |
| `MCAccountShard` | model values |
| `Transfers` | accounts, shards, orders, tasks, contexts |
| `Ledger` | abstract: one debit and then one credit of each order |
| `Network` | FIFO channels (external code) |
| `ChildWorker` | the account process, one action per message handler |
| `ShardManager` | the worker threads' handlers, contexts, routing, lifetimes |
| `ParentController` | the main thread, phase by phase, destructor included |
| `BankSystem` | the composition, `Spec` and `FairSpec` |
| `BankSystemProperties` | what is claimed of it; the refinements to `Ledger` and, shard by shard, to `TaskQueue` |
| `Counting` | lemmas about FIFO queues, counts of their elements, and sums over finite sets |
| `BankSystemProofs` | TLAPS: types, routing and one receiver per channel, which the proofs below use |
| `ChannelProofs` | TLAPS: what each channel can hold; the two barriers |
| `RequestProofs` | TLAPS: one request per order, nothing abandoned; answers are ACKs, are counted once, and mean a credit where no account is paid twice |
| `ContextProofs` | TLAPS: the contexts of cross-shard transfers; the manager's shards are queues |
| `LocalBankProofs` | TLAPS, for transfers that stay in their shard: settlement, successes, `Ledger`, phases 3 and 4, money, how far a balance can go |
| `MCBankSystem` | workloads and balances |
| `BalanceHistory` | `init_history`, `update_history`, `now_balance` as operators on a buffer |
| `StampedBank` | `BankSystem` with clocks, stamps and histories |
| `StampedBankProperties` | what is claimed of those |
| `StampedBankProofs` | TLAPS: `StampedBank` implements `BankSystem`; stamps increase; histories are in place, keep the balance and add up at every time |
| `MCStampedBank` | further workloads |

The composition is in three layers.  `AccountShard` shows that a shard, with its
mutex and condition variable, behaves as `TaskQueue`.  `ShardManager` uses shards at
that level (`WorkerTake`, `WorkerExit`, `Push`), and `ShardsAreTaskQueues`, checked and
proved, says that step 2, which one worker pushes to another's shard, and the
destructor keep to `TaskQueue` as well.  The two layers thus keep the same contract.  That
every step of a worker in `ShardManager` is one the locked shard could take does not
follow from that: it rests on reading both against `worker_loop`.  Nor does liveness of
the stop carry over: `AccountShardGraceful` shows that the destructor's
notification can be lost.  `FairSpec` of `BankSystem` therefore does not assume that a
stopped worker exits, and `Termination` states it as a hypothesis.  `StampedBank`
conjoins each action of `BankSystem` with what it does to clocks, stamps and
histories; no action of `BankSystem` reads these, and `StampedImplementsBank` proves that
adding them adds no behaviour.  Above it all, `Ledger` is what the bank promises,
and `Stage` reads it off the history variables `debited` and `credited`.

### State and actions, and the code

`AccountShard`.  `queue_mutex` is "worker" from the moment the worker holds the lock
until it blocks, exits or pops; other critical sections only push or test for
emptiness and are one step that needs the mutex free.  `worker_pc` is "lock"
(about to take or retake the mutex), "blocking" (predicate false, still
holding the mutex), "waiting" (blocked on `queue_cv_`), "ready" (past the wait),
"busy" (`process_task`), "exited".  `stop_flag_` is an atomic that the destructor
writes without the mutex, so the store may fall between any two of these.  A
thread between the push and `notify_one` has `thread_pc` "notify".  `finished` is a history
variable: the tasks that `process_task` has returned from.

`ChildWorker`.  A thread of its own per account; between two receives it only
computes and sends, so that a receive and what follows from it are one action:
nobody can observe the account in between, and delaying a send is the same as
delaying its receipt.  `debited` and `credited` are history variables, counting how
often each order was executed.  An order is the index of the call of
`submit_transfer` that made it; the TRANSFER message carries that index for its
`(src, dst, amount)`.

`ShardManager`.  Each access of a worker to something another thread may touch
(queue, map, channel) is an action: `LocalSend`, `LocalAck`, `Step1Send`, `Step1Found` or
`Step1NotFound`, `Step2Push`, `Step2Notify`, `Step2Send`, `Step2Ack`, `Step2Cleanup`.  The manager's
destructor releases, in this order, the context mutex and map
(`DestroyContexts`), then shard after shard (`StopShard`, `JoinShard`; libstdc++, which
the Makefile's g++ uses, destroys a vector from its first element).  An access
to something released is undefined behaviour: the model lets it act as on the
stale memory, have no effect, or end the parent process (`Crash`).  `Step2Notify` is
the `notify_one` that `submit_task` calls on the target shard after it has released
that shard's mutex; the shard may be gone by then.

`ParentController`.  `main_pc` and `cursor` are the phase and its loop variable.

`StampedBank`.  `clock[p]` is the Lamport clock of process `p`; the threads of the
parent share one, under a mutex, so that an update is one step.  `stamps[p][q]` holds
`s_local_time` of the messages in `chan[p][q]`.  A worker draws a stamp (`DrawStamp`, into
`drawn`) and sends it in a later step, and other threads may draw and send in
between.  A handler of an account calls `update_lamport_time` up to three times;
`Received` and `ReceivedAgain` are the first two.  The clock is an integer: the code's
`int16_t` would wrap after 32767, long after the histories are full.

`BalanceHistory`.  `UpdateHistory` writes three runs of entries behind the last one:
the old balance up to the start of the change, the old balance with what is
pending up to its end, and the new balance.  The 8-bit length wraps to 0 when all
`MAX_T + 1` entries are written; `LastState` then is what precedes the buffer in
memory, some member of `Before`.

`KeepDoneCount` selects the account process: TRUE is `child_work` of `lab_cpp.cpp`,
where a DONE received before STOP still counts after it; FALSE is
`child_worker.cpp`, where it does not.

## 3. Runs

| Run | Instance | Shows |
|---|---|---|
| `AccountShard` | 2 peers, 3 tasks, fair | types, no lost task, dead `continue`, each task in exactly one place (unsubmitted, queued, running or executed), refinement of `TaskQueue` with its fairness, queued tasks run |
| `BankSerial` | `StampedBank`, N=3, 1 shard, ring, `lab_cpp.cpp`'s account, fair | settlement before STOP, what phases 3 and 4 announce, successes are credits, the ledger with its fairness, termination; entries in place, balances and consistent cuts of the histories |
| `BankParallel` | N=4, 2 shards, one local transfer in each, `child_worker.cpp`'s account | exact forwarding, conservation, settlement, no dropped TRANSFER and refinement of `Ledger` with two busy workers |
| `BankRing` | N=3, 2 shards, ring | types, both barriers, one request per order, nothing abandoned, no answer that is not an ACK, contexts, shards as queues |
| `BankShared` | `StampedBank`, N=3, 2 shards, two payers of one account, one in its shard and one not | one receiver per channel, answers counted against credits when an account is paid twice, stamps drawn by two threads |

Seven more runs each refute one claim of the repository's comments, output or
interface; section 6 lists them.

*Bounds.*  The only bounds are the constants: no action is capped, because every
order is submitted once and every process ends or waits.  Three accounts in two
shards is the least ring with both a local and a cross-shard transfer and with
two first steps in one queue (so that FIFO order matters).  `BankShared` adds what
the ring never does, two orders for one destination: a local transfer and the
second step of another wait for the same account, the two workers draw stamps
from the shared clock at the same time, and a step 2 that went to the wrong shard
would meet another receiver.  The destination is credited three times for the two
orders, and its surplus ACK is taken for the answer of the other order: what holds then is
`AnswersMatchCredits`, and `SuccessMeansCredited` does not.
`BankParallel` needs four accounts for two disjoint local pairs.  Three tasks and
two peers let a task be queued behind another while a third thread is about to
notify, and let a peer submit while the owner destroys.

The initial balances are 0, 1, 2, ..., so that they are distinct and the first payer
is overdrawn.  `MAX_T` is 63 in the passing runs, where no clock passes 40: a
history of theirs never fills, and a smaller buffer only makes the states
smaller.  `StampedLong` has the code's 255.  `Before` is one cleared entry where the buffer never
fills and nothing reads it; in `StampedLong` it has two balances, one of which is not
the account's, for what lies before the buffer is not under the program's control.

*Deadlock* is checked in `AccountShard` (where a blocked worker can always be woken
spuriously: what it waits for is `GracefulExit`'s question) and in `BankSerial`.  It
is not checked where the system really may stop: with `child_worker.cpp`'s count,
whose accounts can wait for ever (`BankParallel`, `BankHang`), where the parent can
crash in the manager's destructor or a stray ACK leaves a thread waiting
(`BankRing`, `BankShared`, `BankCross*`), and in `Stamped*`, whose question is an
invariant that fails.

*Fairness.*  Every thread and process that can take a step eventually does (the
operating system's scheduler); `receive_any` may pick any channel.  `StampedFairSpec`
says the same of `StampedBank`; drawing a stamp is a step of the worker that sends it.
Nothing makes a thread submit a task, nothing causes spurious wakeups, and a
stopped worker is not assumed to be woken.

*Workloads.*  The parent submits the ring `i -> i+1` and `N -> 1`; the other workloads are
calls of `submit_transfer`, which is public.

## 4. Which properties hold for which workload

For every workload: one receiver per channel, increasing stamps, the STARTED and
STOP/DONE barriers, one request per order, no abandoned first step, contexts that
match the transfers under way, no answer that is not an ACK, and successes that add up
with the ACKs still unread to the credits (`AnswersMatchCredits`).  Where no account is
paid twice, as in the ring, also: a success means a credit; with two orders for one
account, one of them across shards (`MCShared`), it does not.  When every transfer
stays in its shard: this again, exact forwarding, one credit per order,
conservation, settlement before STOP, no
dropped TRANSFER, the promises of phases 3 and 4, the refinement of `Ledger` and, with
`lab_cpp.cpp`'s count, its fairness and termination.  Cross-shard transfers break each
of the latter in the code as it is; section 6 says how.  (That no worker uses a destroyed member holds for local transfers
too, but says little: their handler touches no member of the manager.)

Of the histories: in `BankSerial`, whose transfers follow one another, entries are in
place, the last one has the balance, and at every time the balances and the
pending amounts add up.  `StampedCross` shows that the first of these needs the
transfers to stay in their shard, `StampedLong` that the second needs the times to
stay below 255.

## 5. Proofs

`AccountShardProofs` proves, for any sets of peers and tasks, that every reachable
state satisfies `TypeOK`, `NoLostTask`, `ContinueUnreachable` and `HeldOnce`, and that
`Spec` implements `TaskQueue!Spec`.  The assumptions are that the owner is not one of
the peers and that the worker's placeholder is not a task.

`NoLostTask` is not inductive alone: that the worker does not block on a non-empty
queue needs `BlockingEmpty` (it saw the queue empty) and `MutexHeld` (nobody pushed since);
`HeldOnce`, that the four places of a task are disjoint and together hold all tasks,
needs `TaskWhileBusy` and the types.  `IInv` is their conjunction;
`TypeStep`, `ControlStep` and `HeldStep` prove that each part is preserved, action by
action.  In the refinement a push, a pop, the end of a task, the store to the
flag and the exit are steps of the queue, everything else is a stutter.

`BankSystemProofs` proves, for any number of accounts and shards, any workload of
transfers between different accounts, any initial balances and both account
processes, that every reachable state satisfies `TypeOK` and
`OneReceiverPerChannel`.  The assumptions are those of the modules: at least one
account and one shard, no transfer from an account to itself, balances of a byte,
and a `NoHistory` that is not a balance.

`OneReceiverPerChannel` says nothing of why two threads do not meet, so it is not
inductive.  `IInv` adds two things to the types.  `Routed`: a worker in a handler
belongs to the shard of the account it sends to or waits for (`Serves`), and so does
every queued task that leads there (`Leads`); a local transfer has its two accounts in
one shard, and step 2 is pushed to the shard of the destination (`PushFacts`,
`SubmitType`).  `PhaseInv`:
no worker has begun in phase 1, and from phase 3 on all have left, because the
destructor joins them first to last.  Two workers that wait for one account are
then workers of the same shard, and the main thread never waits while a worker
does.  `AccountType`, `WorkerType` and `MainInvariant` prove that the three kinds of process
preserve the invariant, action by action, from lemmas about the operators on
channels and queues (`SendType`, `ReceiveType`, `TakeFacts`, `MoveFacts`, ...).

`StampedBankProofs` proves, under the same assumptions and that `MAX_T` is positive,
that `StampedSpec` implements `Spec` (each action is one of `BankSystem` or leaves its
variables alone), so that `OneReceiverPerChannel`, `TypeOK` and the routing invariant hold
of it too, and that every reachable state satisfies `StampsIncrease`.  The hard part is
the parent: several threads draw from one clock and send later.  `StampInv` says that
a message has one stamp, no later than the clock of its sender, that stamps
increase, and (`DrawnFresh`) that a stamp drawn and not yet sent is later than all on
their way to the accounts of the worker's shard.  The last is preserved because no
other worker sends to those accounts (`Serves`), and because the main thread, which
multicasts STOP, does so only after every worker has left (`PhaseInv`).
`AppendStamp`, `TailStamp` and the lemmas after them say what sending and receiving do to a
channel and its stamps.

`ChannelProofs` proves `StartupBarrier` and `StopBarrier`, under the assumptions of
`BankSystemProofs`.  `ChannelInv` says what a channel holds, by who its two ends are and
how far they have come: a message has one of the kinds its sender sends to its
receiver (`KindInv`); STARTED is the first message of an account and is in the channel
from when the account begins until the other end has read it (`StartInv`); STOP is the
last message of the parent, there from phase 3 until the account takes it, after
which that channel is empty (`StopInv`); a channel has one DONE at most, only from a
stopped account, and `done_count` counts no account twice (`DoneInv`).  Each part has one
lemma per way a channel changes (`StartAppend`, `StopSent`, `DoneSent`, ...), and one per
kind of process.  `WaitAllDone` of the last account then implies that all others were
stopped, and the end of `WaitStarted` that all had begun.

`RequestProofs` proves `RequestedOnce` and `DestroyedMeansRequested`.  A submitted order is
in exactly one of four places: a queue, a worker that is about to send it, the channel
to its source, or debited.  Each place is a number, and the proof is that the
steps move one from a place to the next (`HowMany` of `Counting` for the sequences).
That nothing is abandoned needs `ExitInv`: a worker leaves only when it was told to,
and with a queue that holds no first step.

The same module has the answers, for every workload.  `NoInvalidAck`: the steps that read an
answer are `LocalAck` and `Step2Ack` (`AnswerSteps`), and the first message of the account is
then neither a STARTED (those are gone once phase 1 is over, `ChannelInv`) nor a DONE or a
history, which an account sends only after STOP: `QuietInv` says that none has come while STOP
is not sent, and STOP follows the joins (`EveryAnswerIsAnAck`).  `AnswersMatchCredits`: a
credit sends one ACK and an answer read is counted once, by the shard of the account
(`CountedInv`, with the sums as `AckSum` and `CreditSum`; `AnswersAreCounted`).
`SuccessMeansCredited` has the hypothesis `PaidOnce`, no two orders have the same destination:
an ACK of an account means that some order that pays it was credited (`AckInv`), and
there is only one (`SuccessIsCreditedPaidOnce`).

`ContextProofs` proves `ContextTracksTransfer` and `ShardsAreTaskQueues`, for every workload.
`Lines` lays out, for each shard, the labels (order and correlation id) of the
cross-shard tasks its worker and its queue hold.  No id is in two places and, as
long as the map is alive, its contexts are those of the labels laid out (`TrackInv`); that ids
are issued in increasing order makes a new one differ from all (`NamesInv`), and
`WorkInv` says which kind of task a worker at each line holds.  Ids are at most
`Len(Workload)` (`IssuedInv`, counted by the loop of phase 2), which is the set of values
`ShardsAreTaskQueues` gives the elements of its queues.

`LocalBankProofs` has one hypothesis more, `LocalWorkload`: the two accounts of each
transfer are in one shard.  The code meets it for every workload when it runs with
one shard (`OneShardIsLocal`; `BankSerial`), and with more where transfers do not cross
(`BankParallel`); the `BankCross` runs of section 6 refute most of these results without it.
`LocalInv` is the life of an order as a balance: while the worker of its shard waits
for the ACK there is exactly one message of it, the request, the debit's forward or the ACK, and
otherwise there is none; debits are forwards on their way plus credits (`OrderInv`).
Before STOP an account answers only the order that is waited for (`AnswersInv`).
From it follow `ForwardedOnce`, `CreditedOnce`, `SettledBeforeStop`, `NoTransferDropped`,
`SuccessMeansCredited`, and that every step is a debit, a
credit or a stutter of `Ledger` (`BankIsLedger`).  `FarewellInv` says what an account still
says after STOP, a DONE and then its history, and what of it the parent has heard: hence
`AllStoppedAfterPhase3` and `HistoriesCollected`.

*Money.*  For every workload, local or not, the balances and what is debited and not
yet credited add up to the initial total.  This is a lemma (`BooksAlwaysBalance`) and no claim
about the code, for `debited` and `credited` change with the balances by definition; what it
allows is to put the one for the other.  Where each debit
is credited once, what is not yet credited is what the channels carry, so `Conservation`
follows for local workloads (`MoneyIsConserved`).  The sums are folds of
`FiniteSetsExt`, which choose the element they take first; `Counting` proves, by the
minimality principle of well-founded relations on the subsets of a finite set, that
changing one term changes the sum by as much.  That the induction is over a *set* of
subsets is what makes it possible here: an induction theorem over an operator is
out of the provers' reach.  `BalanceRange`, for every workload: an account has lost no more
than what was debited in all and gained no more than what was credited.  Where no
order is executed twice, a balance therefore stays within `Turnover`, the amount of all
orders, of the initial one (`BalancesStayNear`).

*Histories.*  For local workloads, `StampedBankProofs` proves `HistoryIndexedByTime`,
`HistoryKeepsBalance` and `SnapshotConserves` of every state that satisfies `InTime`: the clocks of
the accounts are below `MAX_T`.  The last two also need the balances to be within
16 bits (`BalancesFit`), which `BalancesAlwaysFit` proves when `Turnover` is at most
32767 - 255; with that, `SmallTransfersAreRecorded` assumes nothing but the workload and
`InTime`.  `StampedCross` violates `HistoryIndexedByTime` with a cross-shard transfer, and
`StampedLong` violates `HistoryKeepsBalance` once a clock reaches `MAX_T`: both hypotheses are
needed.

`HistoryUpdate` is what `update_history` does in the good case: if the entries are in
place up to the last and `start` is later than it, then after the call they are in
place up to `end`, those of before are untouched, the new ones hold the old balance up
to `end`, with the amount pending from `start` on, and the last holds the new balance.
That the good case is the only one is `HistoryInv`.  `PlacesInv` says that the entries are in
place and that the last is no later than the clock of its account; `ValuesInv` that the
last entry has the balance.  `Timely` and `IdleInv` say why no write comes too early: a
TRANSFER on its way is stamped later than the last entry of every account of its shard
but its sender's, which wrote its own entry at that very time; an ACK is stamped no
earlier than those entries; and while the worker waits for no ACK, the parent's
clock has reached them, and a stamp the worker has drawn is later.  These in turn
rest on there being one message of an order at a time (`LocalInv`) and on increasing
clocks (`StampInv`).  Then, action by action, `SourceWrites` and `DestinationWrites` for the two
TRANSFER handlers, and `HistoryKept` for the steps that write nothing.

Snapshots are about all accounts at one time, and the source's history shows a debit before
the destination's shows the credit.  `SnapshotInv` fills the gap: at every time, the values in
the histories, continued after their last entries, and what `OnItsWay` counts (the
amount of each forward not yet credited, from the time of the debit on) add up to the
initial total.  `SnapshotSource` moves an amount from the history of the source to
what is on its way; `SnapshotDestination` from there to the history of the destination,
whose pending entries reach back to the time of the debit (`SnapshotWritten`).  When each debit
was credited nothing is on its way (`SettledApart`), which is `SnapshotConserves`.

*Only model-checked.*  Liveness: the fairness part of `Ledger` and of `TaskQueue`, `Termination`,
and that queued tasks run (fairness and ENABLED are out of the prover's reach).

## 6. Where the code does not do what it says

| Run | Claim | What happens |
|---|---|---|
| `AccountShardGraceful` | the destructor closes the thread gracefully (`account_shard.h:37`) | the flag and the notification fall between the worker's test and its wait; `join` never returns |
| `BankCrossTwice` | one increase per order (`banking.h:16-21`) | the source's forward and step 2 both credit the destination |
| `BankCrossStopped` | "all accounts have stopped" (`parent_controller.cpp:76`) | a second ACK was taken for the answer to STOP |
| `BankCrossDestroy` | threads exit normally (`shard_manager.h:42`) | workers use the destroyed map, mutex or shard |
| `BankHang` | run() ends by reporting the history (`child_worker.h:46-50`) | a DONE before STOP is forgotten; the account and the parent wait for ever |
| `StampedCross` | entry t is the state at time t (`banking.h:39-40`) | step 2 reaches the destination before the source's earlier stamped forward, whose entries are then written behind later ones |
| `StampedLong` | `now_balance` is the current balance (`utils.h:28-30`) | the entry for time 255 (`MAX_T`, a legal time) brings the 8-bit length to 0, and the entry before the buffer is read |

`StampedLong` takes some forty transfers in sequence (`MCLong`), more than phase 2 submits;
`submit_transfer` is public and sets no limit.

The same steps have other consequences that have no run of their own:
`wait_completion` and `wait_all_complete` return while a task still runs or after an
already polled shard got a step 2; step 2 does not wait for the debit; a forward
that comes after STOP is dropped; when two transfers share a destination, the
second ACK of one is taken for the answer of the other, so that a success is counted for
an order that is not credited (`MCShared`); `step1_completed` is set
on a copy.

## 7. Not modelled

* The wrap of the 16-bit clock at 32767, which the histories do not reach, and
  `get_lamport_time`, whose value is only logged.
* The protocol's arithmetic is on integers; `BalanceHistory` keeps the 16-bit balances
  and the 8-bit length, and `HistoryKeepsBalance` compares the two.
* `transfer` and `bank_operations` of `lab_cpp.cpp`: nothing in the repository calls
  them, and the framework that might is not part of it.
* Messages with a wrong magic number, transport errors (the transport ends the
  program), exceptions in the handlers (nothing throws), logging and statistics
  output, process creation, `main.cpp` (only prints), the empty test files.

## 8. Plan

Done: shard, manager, parent, accounts, their composition; clocks, stamps and
histories; the ledger; the notification of `submit_task` as a step of its own; proofs of
every safety property of the shard and of the composition that a passing run checks.

Left:

1. `submit_transfer` called by several threads: it is public, but the parent calls it
   from its main thread only, and the model makes the submission of a cross-shard
   transfer (id, context, push) one step.
2. What a cross-shard transfer does promise in the code as it is, as a second abstract
   ledger: one debit, and at most two credits in any order with it.
