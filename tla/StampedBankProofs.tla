------------------------- MODULE StampedBankProofs -------------------------
(***************************************************************************)
(* Proofs about StampedBank, for any number of accounts and shards, any    *)
(* workload, either version of the account process and any length of the   *)
(* histories.                                                              *)
(***************************************************************************)
EXTENDS StampedBankProperties, LocalBankProofs

-----------------------------------------------------------------------------
(***************************************************************************)
(* The clocks, stamps and histories restrict nothing: a step of the        *)
(* stamped system is one of the system, or a stamp being drawn.            *)
(***************************************************************************)
LEMMA StampedAccountSteps ==
  ASSUME NEW a \in Accounts, StampedAccount(a)
  PROVE  Account(a)
  <1>1. CASE StampedSendStarted(a) \/ StampedWaitStarted(a) \/ StampedSendHistory(a)
    BY <1>1 DEF StampedAccount, StampedSendStarted, StampedWaitStarted,
                StampedSendHistory, Account, ChildStep
  <1>2. ASSUME NEW p \in Procs \ {a},
               \/ StampedAsSource(a, p)
               \/ StampedAsDestination(a, p)
               \/ StampedStop(a, p)
               \/ StampedReceive(a, p)
        PROVE  Account(a)
    <2>1. \/ HandleTransferAsSource(a, p)
          \/ HandleTransferAsDestination(a, p)
          \/ HandleStop(a, p)
          \/ HandleOther(a, p)
          \/ WaitAllDone(a, p)
      BY <1>2 DEF StampedAsSource, StampedAsDestination, StampedStop,
                  StampedReceive
    <2> QED
      BY <2>1 DEF StampedAccount, Account, ChildStep
  <1> QED
    BY <1>1, <1>2 DEF StampedAccount, StampedChild

LEMMA StampedWorkerSteps ==
  ASSUME NEW s \in Shards, StampedWorker(s)
  PROVE  Worker(s)
  BY DEF StampedWorker, StampedWorkerStep, StampedSend, StampedAck, Unstamped,
         Worker, WorkerStep

LEMMA StampedMainSteps == StampedMain => Main
  BY DEF StampedMain, StampedMainStep, Main, MainStep

LEMMA StampedSteps == [StampedNext]_allVars => [Next]_vars
  <1> SUFFICES ASSUME [StampedNext]_allVars PROVE [Next]_vars
    OBVIOUS
  <1>1. CASE StampedMain
    BY <1>1, StampedMainSteps DEF Next
  <1>2. ASSUME NEW s \in Shards, StampedWorker(s)
        PROVE  Next
    BY <1>2, StampedWorkerSteps DEF Next
  <1>3. ASSUME NEW s \in Shards, DrawStamp(s)
        PROVE  UNCHANGED vars
    BY <1>3 DEF DrawStamp
  <1>4. ASSUME NEW a \in Accounts, StampedAccount(a)
        PROVE  Next
    BY <1>4, StampedAccountSteps DEF Next
  <1>5. CASE Terminated /\ UNCHANGED stampVars
    BY <1>5 DEF Next
  <1>6. CASE UNCHANGED allVars
    BY <1>6 DEF allVars
  <1> QED
    BY <1>1, <1>2, <1>3, <1>4, <1>5, <1>6 DEF StampedNext

\* The stamped system implements the system: whatever holds of BankSystem
\* holds with the clocks and histories of the code.
THEOREM StampedImplementsBank == StampedSpec => Spec
  <1>1. StampedInit => Init
    BY DEF StampedInit
  <1> QED
    BY <1>1, StampedSteps, PTL DEF StampedSpec, Spec

\* The invariant of BankSystem holds of the stamped system.
LEMMA BankInvariance == StampedSpec => []IInv
  BY StampedImplementsBank, Invariance, PTL

-----------------------------------------------------------------------------
(***************************************************************************)
(* Sequences of stamps.                                                    *)
(***************************************************************************)
Below(q, t)  == \A j \in 1 .. Len(q) : q[j] < t
Increases(q) == \A j, k \in 1 .. Len(q) : j < k => q[j] < q[k]

LEMMA BelowLarger ==
  ASSUME NEW q \in Seq(Nat), NEW t \in Nat, NEW u \in Nat, t <= u, Below(q, t)
  PROVE  Below(q, u)
  BY ElementOfSeq DEF Below

\* A later stamp can be sent on a channel.
LEMMA AppendStamp ==
  ASSUME NEW q \in Seq(Nat), Increases(q), NEW t \in Nat, Below(q, t)
  PROVE  /\ Append(q, t) \in Seq(Nat)
         /\ Len(Append(q, t)) = Len(q) + 1
         /\ Increases(Append(q, t))
         /\ \A u \in Nat : t < u => Below(Append(q, t), u)
  <1>1. /\ Append(q, t) \in Seq(Nat)
        /\ Len(q) \in Nat
        /\ Len(Append(q, t)) = Len(q) + 1
        /\ \A j \in 1 .. Len(q) : Append(q, t)[j] = q[j]
        /\ Append(q, t)[Len(q) + 1] = t
    BY AppendProperties, LenProperties
  <1>2. \A j \in 1 .. Len(q) : q[j] \in Nat /\ q[j] < t
    BY ElementOfSeq DEF Below
  <1>3. ASSUME NEW j \in 1 .. Len(q) + 1, NEW k \in 1 .. Len(q) + 1, j < k
        PROVE  Append(q, t)[j] < Append(q, t)[k]
    <2>1. j \in 1 .. Len(q)
      BY <1>1, <1>3
    <2>2. CASE k = Len(q) + 1
      BY <1>1, <1>2, <2>1, <2>2
    <2>3. CASE k # Len(q) + 1
      <3>1. k \in 1 .. Len(q)
        BY <1>1, <2>3
      <3> QED
        BY <1>1, <1>3, <2>1, <3>1 DEF Increases
    <2> QED
      BY <2>2, <2>3
  <1>4. ASSUME NEW u \in Nat, t < u, NEW j \in 1 .. Len(q) + 1
        PROVE  Append(q, t)[j] < u
    <2>1. CASE j = Len(q) + 1
      BY <1>1, <1>4, <2>1
    <2>2. CASE j # Len(q) + 1
      <3>1. j \in 1 .. Len(q)
        BY <1>1, <2>2
      <3> QED
        BY <1>1, <1>2, <1>4, <3>1
    <2> QED
      BY <2>1, <2>2
  <1>5. Increases(Append(q, t))
    BY <1>1, <1>3 DEF Increases
  <1>6. \A u \in Nat : t < u => Below(Append(q, t), u)
    BY <1>1, <1>4 DEF Below
  <1> QED
    BY <1>1, <1>5, <1>6

\* The oldest stamp can be taken away.
LEMMA TailStamp ==
  ASSUME NEW q \in Seq(Nat), Increases(q), q # << >>
  PROVE  /\ Tail(q) \in Seq(Nat)
         /\ Len(Tail(q)) = Len(q) - 1
         /\ Increases(Tail(q))
         /\ \A u \in Nat : Below(q, u) => Below(Tail(q), u)
         /\ Head(q) \in Nat
  <1>1. /\ Tail(q) \in Seq(Nat)
        /\ Head(q) \in Nat
        /\ Len(q) \in Nat
        /\ Len(Tail(q)) = Len(q) - 1
        /\ \A j \in 1 .. Len(Tail(q)) : Tail(q)[j] = q[j + 1]
    BY HeadTailProperties, LenProperties
  <1>2. \A j \in 1 .. Len(Tail(q)) : j + 1 \in 1 .. Len(q)
    BY <1>1
  <1>3. Increases(Tail(q))
    BY <1>1, <1>2 DEF Increases
  <1>4. \A u \in Nat : Below(q, u) => Below(Tail(q), u)
    BY <1>1, <1>2 DEF Below
  <1> QED
    BY <1>1, <1>3, <1>4

-----------------------------------------------------------------------------
(***************************************************************************)
(* Channels with their stamps, and clocks that are past every stamp sent.  *)
(***************************************************************************)
StampChannels == [Procs -> [Procs -> Seq(Nat)]]

Stamped(c, st, clk) ==
  /\ c \in Channels
  /\ st \in StampChannels
  /\ clk \in [Procs -> Nat]
  /\ \A p, q \in Procs : /\ Len(st[p][q]) = Len(c[p][q])
                         /\ Increases(st[p][q])
                         /\ Below(st[p][q], clk[p] + 1)

\* The channels to the accounts stamps that will be drawn later can go to.
NoLater(st, new) ==
  \A a \in Accounts, u \in Nat : Below(st[Parent][a], u) => Below(new[Parent][a], u)

\* update_lamport_time moves a clock forward.
LEMMA UpdateFacts ==
  \A t, r \in Nat : /\ UpdateTime(t, r) \in Nat
                    /\ t < UpdateTime(t, r)
                    /\ r < UpdateTime(t, r)
  BY DEF UpdateTime

LEMMA StampedFacts ==
  ASSUME NEW c, NEW st, NEW clk, Stamped(c, st, clk),
         NEW x \in Procs, NEW y \in Procs
  PROVE  /\ c[x][y] \in Seq(Message)
         /\ st[x][y] \in Seq(Nat)
         /\ clk[x] \in Nat
         /\ clk[x] + 1 \in Nat
         /\ Len(st[x][y]) = Len(c[x][y])
         /\ Increases(st[x][y])
         /\ Below(st[x][y], clk[x] + 1)
  <1>1. clk[x] \in Nat
    BY DEF Stamped
  <1>2. c[x][y] \in Seq(Message) /\ st[x][y] \in Seq(Nat)
    BY DEF Stamped, Channels, StampChannels
  <1> QED
    BY <1>1, <1>2 DEF Stamped

LEMMA ClockMoves ==
  ASSUME NEW c, NEW st, NEW clk, Stamped(c, st, clk),
         NEW p \in Procs, NEW t \in Nat, clk[p] <= t
  PROVE  Stamped(c, st, [clk EXCEPT ![p] = t])
  <1> DEFINE new == [clk EXCEPT ![p] = t]
  <1>1. new \in [Procs -> Nat] /\ \A x \in Procs : clk[x] \in Nat /\ clk[x] <= new[x]
    BY DEF Stamped
  <1> HIDE DEF new
  <1>2. ASSUME NEW x \in Procs, NEW y \in Procs
        PROVE  Below(st[x][y], new[x] + 1)
    <2>1. /\ st[x][y] \in Seq(Nat)
          /\ Below(st[x][y], clk[x] + 1)
          /\ clk[x] + 1 \in Nat /\ new[x] + 1 \in Nat /\ clk[x] + 1 <= new[x] + 1
      BY <1>1, StampedFacts
    <2> QED
      BY <2>1, BelowLarger
  <1> QED
    BY <1>1, <1>2 DEF Stamped, new

LEMMA ReceiveStamped ==
  ASSUME NEW c, NEW st, NEW clk, Stamped(c, st, clk),
         NEW p \in Procs, NEW q \in Procs, c[p][q] # << >>
  PROVE  /\ Stamped(Receive(c, p, q), Receive(st, p, q), clk)
         /\ Head(st[p][q]) \in Nat
         /\ NoLater(st, Receive(st, p, q))
  <1>1. /\ c[p][q] \in Seq(Message)
        /\ st[p][q] \in Seq(Nat)
        /\ Increases(st[p][q])
        /\ Len(st[p][q]) = Len(c[p][q])
        /\ clk[p] + 1 \in Nat
    BY DEF Stamped, Channels, StampChannels
  <1>2. st[p][q] # << >>
    BY <1>1, EmptySeq, LenProperties
  <1>3. /\ Tail(c[p][q]) \in Seq(Message)
        /\ Len(Tail(c[p][q])) = Len(c[p][q]) - 1
    BY <1>1, HeadTailProperties
  <1>4. /\ Tail(st[p][q]) \in Seq(Nat)
        /\ Len(Tail(st[p][q])) = Len(st[p][q]) - 1
        /\ Increases(Tail(st[p][q]))
        /\ \A u \in Nat : Below(st[p][q], u) => Below(Tail(st[p][q]), u)
        /\ Head(st[p][q]) \in Nat
    BY <1>1, <1>2, TailStamp
  <1>5. /\ Receive(c, p, q) \in Channels
        /\ Receive(st, p, q) \in StampChannels
    BY <1>3, <1>4 DEF Stamped, Channels, StampChannels, Receive
  <1>6. ASSUME NEW x \in Procs, NEW y \in Procs
        PROVE  \/ /\ x = p /\ y = q
                  /\ Receive(c, p, q)[x][y] = Tail(c[p][q])
                  /\ Receive(st, p, q)[x][y] = Tail(st[p][q])
               \/ /\ Receive(c, p, q)[x][y] = c[x][y]
                  /\ Receive(st, p, q)[x][y] = st[x][y]
    BY DEF Stamped, Channels, StampChannels, Receive
  <1>7. ASSUME NEW x \in Procs, NEW y \in Procs
        PROVE  /\ Len(Receive(st, p, q)[x][y]) = Len(Receive(c, p, q)[x][y])
               /\ Increases(Receive(st, p, q)[x][y])
               /\ \A u \in Nat : Below(st[x][y], u) => Below(Receive(st, p, q)[x][y], u)
               /\ Below(Receive(st, p, q)[x][y], clk[x] + 1)
    <2>1. /\ Len(st[x][y]) = Len(c[x][y])
          /\ Increases(st[x][y])
          /\ Below(st[x][y], clk[x] + 1)
          /\ clk[x] + 1 \in Nat
      BY StampedFacts
    <2>2. CASE /\ x = p /\ y = q
               /\ Receive(c, p, q)[x][y] = Tail(c[p][q])
               /\ Receive(st, p, q)[x][y] = Tail(st[p][q])
      BY <1>1, <1>3, <1>4, <2>1, <2>2
    <2>3. CASE /\ Receive(c, p, q)[x][y] = c[x][y]
               /\ Receive(st, p, q)[x][y] = st[x][y]
      BY <2>1, <2>3
    <2> QED
      BY <1>6, <2>2, <2>3
  <1>8. NoLater(st, Receive(st, p, q))
    BY <1>7, ProcFacts DEF NoLater
  <1> QED
    BY <1>4, <1>5, <1>7, <1>8 DEF Stamped

LEMMA SendStamped ==
  ASSUME NEW c, NEW st, NEW clk, Stamped(c, st, clk),
         NEW p \in Procs, NEW q \in Procs, NEW msg \in Message, NEW t \in Nat,
         Below(st[p][q], t), t <= clk[p]
  PROVE  /\ Stamped(Send(c, p, q, msg), Send(st, p, q, t), clk)
         /\ p # Parent => NoLater(st, Send(st, p, q, t))
         /\ \A y \in Procs \ {q} : Send(st, p, q, t)[p][y] = st[p][y]
  <1>1. /\ c[p][q] \in Seq(Message)
        /\ st[p][q] \in Seq(Nat)
        /\ Increases(st[p][q])
        /\ Len(st[p][q]) = Len(c[p][q])
        /\ clk[p] + 1 \in Nat /\ clk[p] \in Nat
    BY DEF Stamped, Channels, StampChannels
  <1>2. Len(Append(c[p][q], msg)) = Len(c[p][q]) + 1
    BY <1>1, AppendProperties
  <1>3. /\ Append(st[p][q], t) \in Seq(Nat)
        /\ Len(Append(st[p][q], t)) = Len(st[p][q]) + 1
        /\ Increases(Append(st[p][q], t))
        /\ Below(Append(st[p][q], t), clk[p] + 1)
    <2>1. t < clk[p] + 1
      BY <1>1
    <2> QED
      BY <1>1, <2>1, AppendStamp
  <1>4. /\ Send(c, p, q, msg) \in Channels
        /\ Send(st, p, q, t) \in StampChannels
    BY <1>3, SendType DEF Stamped, StampChannels, Send
  <1>5. ASSUME NEW x \in Procs, NEW y \in Procs
        PROVE  \/ /\ x = p /\ y = q
                  /\ Send(c, p, q, msg)[x][y] = Append(c[p][q], msg)
                  /\ Send(st, p, q, t)[x][y] = Append(st[p][q], t)
               \/ /\ x # p \/ y # q
                  /\ Send(c, p, q, msg)[x][y] = c[x][y]
                  /\ Send(st, p, q, t)[x][y] = st[x][y]
    BY DEF Stamped, Channels, StampChannels, Send
  <1>6. ASSUME NEW x \in Procs, NEW y \in Procs
        PROVE  /\ Len(Send(st, p, q, t)[x][y]) = Len(Send(c, p, q, msg)[x][y])
               /\ Increases(Send(st, p, q, t)[x][y])
               /\ Below(Send(st, p, q, t)[x][y], clk[x] + 1)
    <2>1. CASE /\ x = p /\ y = q
               /\ Send(c, p, q, msg)[x][y] = Append(c[p][q], msg)
               /\ Send(st, p, q, t)[x][y] = Append(st[p][q], t)
      BY <1>1, <1>2, <1>3, <2>1
    <2>2. CASE /\ Send(c, p, q, msg)[x][y] = c[x][y]
               /\ Send(st, p, q, t)[x][y] = st[x][y]
      BY <2>2, StampedFacts
    <2> QED
      BY <1>5, <2>1, <2>2
  <1>7. p # Parent => NoLater(st, Send(st, p, q, t))
    BY <1>5, ProcFacts DEF NoLater
  <1>8. \A y \in Procs \ {q} : Send(st, p, q, t)[p][y] = st[p][y]
    BY <1>5
  <1>9. clk \in [Procs -> Nat]
    BY DEF Stamped
  <1> QED
    BY <1>4, <1>6, <1>7, <1>8, <1>9 DEF Stamped

LEMMA MulticastStamped ==
  ASSUME NEW c, NEW st, NEW clk, Stamped(c, st, clk),
         NEW p \in Procs, NEW msg \in Message, NEW t \in Nat,
         \A q \in Procs : Below(st[p][q], t), t <= clk[p]
  PROVE  /\ Stamped(SendMulticast(c, p, msg), SendMulticast(st, p, t), clk)
         /\ p # Parent => NoLater(st, SendMulticast(st, p, t))
  <1>1. /\ \A q \in Procs : /\ c[p][q] \in Seq(Message)
                            /\ st[p][q] \in Seq(Nat)
                            /\ Increases(st[p][q])
                            /\ Len(st[p][q]) = Len(c[p][q])
        /\ clk[p] + 1 \in Nat /\ clk[p] \in Nat
    BY DEF Stamped, Channels, StampChannels
  <1>2. \A q \in Procs : Len(Append(c[p][q], msg)) = Len(c[p][q]) + 1
    BY <1>1, AppendProperties
  <1>3. \A q \in Procs : /\ Append(st[p][q], t) \in Seq(Nat)
                         /\ Len(Append(st[p][q], t)) = Len(st[p][q]) + 1
                         /\ Increases(Append(st[p][q], t))
                         /\ Below(Append(st[p][q], t), clk[p] + 1)
    <2>1. t < clk[p] + 1
      BY <1>1
    <2> QED
      BY <1>1, <2>1, AppendStamp
  <1>4. [q \in Procs |-> IF q = p THEN st[p][q] ELSE Append(st[p][q], t)]
          \in [Procs -> Seq(Nat)]
    BY <1>1, <1>3
  <1>5. /\ SendMulticast(c, p, msg) \in Channels
        /\ SendMulticast(st, p, t) \in StampChannels
    BY <1>4, MulticastType DEF Stamped, StampChannels, SendMulticast
  <1>6. ASSUME NEW x \in Procs, NEW y \in Procs
        PROVE  \/ /\ x = p
                  /\ SendMulticast(c, p, msg)[x][y] = Append(c[p][y], msg)
                  /\ SendMulticast(st, p, t)[x][y] = Append(st[p][y], t)
               \/ /\ x # p \/ y = p
                  /\ SendMulticast(c, p, msg)[x][y] = c[x][y]
                  /\ SendMulticast(st, p, t)[x][y] = st[x][y]
    BY DEF Stamped, Channels, StampChannels, SendMulticast
  <1>7. ASSUME NEW x \in Procs, NEW y \in Procs
        PROVE  /\ Len(SendMulticast(st, p, t)[x][y])
                    = Len(SendMulticast(c, p, msg)[x][y])
               /\ Increases(SendMulticast(st, p, t)[x][y])
               /\ Below(SendMulticast(st, p, t)[x][y], clk[x] + 1)
    <2>1. CASE /\ x = p
               /\ SendMulticast(c, p, msg)[x][y] = Append(c[p][y], msg)
               /\ SendMulticast(st, p, t)[x][y] = Append(st[p][y], t)
      BY <1>1, <1>2, <1>3, <2>1
    <2>2. CASE /\ SendMulticast(c, p, msg)[x][y] = c[x][y]
               /\ SendMulticast(st, p, t)[x][y] = st[x][y]
      BY <2>2, StampedFacts
    <2> QED
      BY <1>6, <2>1, <2>2
  <1>8. p # Parent => NoLater(st, SendMulticast(st, p, t))
    BY <1>6, ProcFacts DEF NoLater
  <1>9. clk \in [Procs -> Nat]
    BY DEF Stamped
  <1> QED
    BY <1>5, <1>7, <1>8, <1>9 DEF Stamped

\* A process that moves its clock before it sends sends a later stamp.
LEMMA Later ==
  ASSUME NEW c, NEW st, NEW clk, Stamped(c, st, clk),
         NEW p \in Procs, NEW t \in Nat, clk[p] < t
  PROVE  \A q \in Procs : Below(st[p][q], t)
  <1>1. ASSUME NEW q \in Procs
        PROVE  Below(st[p][q], t)
    <2>1. /\ st[p][q] \in Seq(Nat)
          /\ clk[p] \in Nat /\ clk[p] + 1 \in Nat
          /\ Below(st[p][q], clk[p] + 1)
      BY StampedFacts
    <2>2. clk[p] + 1 <= t
      BY <2>1
    <2> QED
      BY <2>1, <2>2, BelowLarger
  <1> QED
    BY <1>1

LEMMA SendNow ==
  ASSUME NEW c, NEW st, NEW clk, Stamped(c, st, clk),
         NEW p \in Procs, NEW q \in Procs, NEW msg \in Message,
         NEW t \in Nat, clk[p] < t
  PROVE  /\ Stamped(Send(c, p, q, msg), Send(st, p, q, t), [clk EXCEPT ![p] = t])
         /\ p # Parent => NoLater(st, Send(st, p, q, t))
  <1> DEFINE new == [clk EXCEPT ![p] = t]
  <1>1. clk \in [Procs -> Nat] /\ clk[p] <= t /\ new[p] = t
    BY DEF Stamped
  <1>2. Stamped(c, st, new)
    BY <1>1, ClockMoves
  <1>3. Below(st[p][q], t)
    BY Later
  <1>4. t <= new[p]
    BY <1>1
  <1> HIDE DEF new
  <1>5. /\ Stamped(Send(c, p, q, msg), Send(st, p, q, t), new)
        /\ p # Parent => NoLater(st, Send(st, p, q, t))
    BY <1>2, <1>3, <1>4, SendStamped
  <1> QED
    BY <1>5 DEF new

LEMMA MulticastNow ==
  ASSUME NEW c, NEW st, NEW clk, Stamped(c, st, clk),
         NEW p \in Procs, NEW msg \in Message, NEW t \in Nat, clk[p] < t
  PROVE  /\ Stamped(SendMulticast(c, p, msg), SendMulticast(st, p, t),
                    [clk EXCEPT ![p] = t])
         /\ p # Parent => NoLater(st, SendMulticast(st, p, t))
  <1> DEFINE new == [clk EXCEPT ![p] = t]
  <1>1. clk \in [Procs -> Nat] /\ clk[p] <= t /\ new[p] = t
    BY DEF Stamped
  <1>2. Stamped(c, st, new)
    BY <1>1, ClockMoves
  <1>3. \A q \in Procs : Below(st[p][q], t)
    BY Later
  <1>4. t <= new[p]
    BY <1>1
  <1> HIDE DEF new
  <1>5. /\ Stamped(SendMulticast(c, p, msg), SendMulticast(st, p, t), new)
        /\ p # Parent => NoLater(st, SendMulticast(st, p, t))
    BY <1>2, <1>3, <1>4, MulticastStamped
  <1> QED
    BY <1>5 DEF new

\* q receives the oldest message of p and moves its clock past its stamp.
LEMMA ReceiveNow ==
  ASSUME NEW c, NEW st, NEW clk, Stamped(c, st, clk),
         NEW p \in Procs, NEW q \in Procs, c[p][q] # << >>
  PROVE  /\ Stamped(Receive(c, p, q), Receive(st, p, q),
                    [clk EXCEPT ![q] = UpdateTime(@, Head(st[p][q]))])
         /\ NoLater(st, Receive(st, p, q))
         /\ clk[q] <= UpdateTime(clk[q], Head(st[p][q]))
  <1>1. /\ Stamped(Receive(c, p, q), Receive(st, p, q), clk)
        /\ Head(st[p][q]) \in Nat
        /\ NoLater(st, Receive(st, p, q))
    BY ReceiveStamped
  <1>2. clk[q] \in Nat
    BY DEF Stamped
  <1> DEFINE t == UpdateTime(clk[q], Head(st[p][q]))
  <1>3. t \in Nat /\ clk[q] < t
    BY <1>1, <1>2, UpdateFacts
  <1> HIDE DEF t
  <1>4. clk[q] <= t
    BY <1>2, <1>3
  <1>5. Stamped(Receive(c, p, q), Receive(st, p, q), [clk EXCEPT ![q] = t])
    BY <1>1, <1>3, <1>4, ClockMoves
  <1> QED
    BY <1>1, <1>4, <1>5 DEF t

-----------------------------------------------------------------------------
(***************************************************************************)
(* The invariant: a stamp a worker has drawn and not sent is later than    *)
(* every stamp on its way to an account of its shard.                      *)
(***************************************************************************)
DrawnFresh ==
  \A s \in Shards : drawn[s] # NoStamp =>
    /\ worker_pc[s] \in SendPcs
    /\ drawn[s] <= clock[Parent]
    /\ \A a \in Accounts : GetShardId(a) = s => Below(stamps[Parent][a], drawn[s])

StampInv ==
  /\ Stamped(chan, stamps, clock)
  /\ drawn \in [Shards -> Nat]
  /\ DrawnFresh

\* The steps that neither draw nor send a stamp of a worker.
LEMMA FreshKept ==
  ASSUME StampInv, Stamped(chan', stamps', clock'),
         clock[Parent] <= clock'[Parent], UNCHANGED drawn,
         \A s \in Shards : worker_pc[s] \in SendPcs => worker_pc'[s] = worker_pc[s],
         NoLater(stamps, stamps')
  PROVE  StampInv'
  <1>1. clock[Parent] \in Nat /\ clock'[Parent] \in Nat
    BY ProcFacts DEF StampInv, Stamped
  <1>2. ASSUME NEW s \in Shards, drawn[s] # NoStamp
        PROVE  /\ worker_pc'[s] \in SendPcs
               /\ drawn[s] <= clock'[Parent]
               /\ \A a \in Accounts : GetShardId(a) = s =>
                    Below(stamps'[Parent][a], drawn[s])
    <2>1. drawn[s] \in Nat
      BY DEF StampInv
    <2>2. /\ worker_pc[s] \in SendPcs
          /\ drawn[s] <= clock[Parent]
          /\ \A a \in Accounts : GetShardId(a) = s =>
               Below(stamps[Parent][a], drawn[s])
      BY <1>2 DEF StampInv, DrawnFresh
    <2>3. \A a \in Accounts : GetShardId(a) = s => Below(stamps'[Parent][a], drawn[s])
      BY <2>1, <2>2 DEF NoLater
    <2> QED
      BY <1>1, <2>1, <2>2, <2>3
  <1>3. DrawnFresh'
    BY <1>2 DEF DrawnFresh
  <1> QED
    BY <1>3 DEF StampInv

LEMMA NoLaterTransitive ==
  ASSUME NEW st1, NEW st2, NEW st3, NoLater(st1, st2), NoLater(st2, st3)
  PROVE  NoLater(st1, st3)
  BY DEF NoLater

LEMMA AccountStamps ==
  ASSUME IInv, StampInv, NEW a \in Accounts, StampedAccount(a)
  PROVE  StampInv'
  <1>0. /\ a \in Procs /\ Parent \in Procs /\ a # Parent
        /\ Stamped(chan, stamps, clock)
        /\ clock[a] \in Nat /\ clock \in [Procs -> Nat]
    BY ProcFacts DEF StampInv, Stamped
  <1> SUFFICES /\ Stamped(chan', stamps', clock')
               /\ NoLater(stamps, stamps')
               /\ \E t : clock' = [clock EXCEPT ![a] = t]
               /\ UNCHANGED drawn
    <2>1. ASSUME \E t : clock' = [clock EXCEPT ![a] = t]
          PROVE  clock[Parent] <= clock'[Parent]
      BY <1>0, <2>1
    <2>2. UNCHANGED worker_pc
      BY DEF StampedAccount, parentVars, poolVars
    <2> QED
      BY <2>1, <2>2, FreshKept
  <1>1. CASE StampedSendStarted(a)
    <2> DEFINE t == UpdateTime(clock[a], 0)
    <2>1. t \in Nat /\ clock[a] < t
      BY <1>0, UpdateFacts
    <2>2. /\ chan' = SendMulticast(chan, a, Msg("STARTED", 0))
          /\ clock' = [clock EXCEPT ![a] = t]
          /\ stamps' = SendMulticast(stamps, a, t)
          /\ UNCHANGED drawn
      BY <1>0, <1>1 DEF StampedSendStarted, SendStarted, Tick
    <2> HIDE DEF t
    <2>3. Msg("STARTED", 0) \in Message
      BY MessageFacts
    <2> QED
      BY <1>0, <2>1, <2>2, <2>3, MulticastNow
  <1>2. ASSUME NEW p \in Procs, chan[p][a] # << >>,
               TickAt(a, Stamp(p, a)), ReceiveStamp(p, a),
               chan' = Receive(chan, p, a), UNCHANGED drawn
        PROVE  /\ Stamped(chan', stamps', clock')
               /\ NoLater(stamps, stamps')
               /\ \E t : clock' = [clock EXCEPT ![a] = t]
    BY <1>0, <1>2, ReceiveNow DEF TickAt, ReceiveStamp, Stamp
  <1>3. CASE StampedWaitStarted(a)
    <2>1. peer[a] \in Procs
      BY <1>3, ProcFacts
      DEF StampedWaitStarted, WaitStarted, IInv, TypeOK, ChildTypeOK
    <2> QED
      BY <1>2, <1>3, <2>1 DEF StampedWaitStarted, WaitStarted, HasMessage
  <1>4. ASSUME NEW p \in Procs \ {a}, StampedReceive(a, p)
        PROVE  /\ Stamped(chan', stamps', clock')
               /\ NoLater(stamps, stamps')
               /\ \E t : clock' = [clock EXCEPT ![a] = t]
               /\ UNCHANGED drawn
    BY <1>2, <1>4 DEF StampedReceive, HandleOther, WaitAllDone, HasMessage
  <1>5. ASSUME NEW p \in Procs \ {a}, HasMessage(p, a)
        PROVE  /\ Stamped(Receive(chan, p, a), Receive(stamps, p, a), clock)
               /\ NoLater(stamps, Receive(stamps, p, a))
               /\ UpdateTime(Received(a, p), 0) \in Nat
               /\ clock[a] < UpdateTime(Received(a, p), 0)
               /\ ReceivedAgain(a, p) \in Nat
               /\ clock[a] < ReceivedAgain(a, p)
    <2>1. /\ Stamped(Receive(chan, p, a), Receive(stamps, p, a), clock)
          /\ NoLater(stamps, Receive(stamps, p, a))
          /\ Stamp(p, a) \in Nat
      BY <1>0, <1>5, ReceiveStamped DEF HasMessage, Stamp
    <2>2. Received(a, p) \in Nat /\ clock[a] < Received(a, p)
      BY <1>0, <2>1, UpdateFacts DEF Received
    <2>3. /\ UpdateTime(Received(a, p), 0) \in Nat
          /\ Received(a, p) < UpdateTime(Received(a, p), 0)
          /\ ReceivedAgain(a, p) \in Nat
          /\ Received(a, p) < ReceivedAgain(a, p)
      BY <2>1, <2>2, UpdateFacts DEF ReceivedAgain
    <2> QED
      BY <1>0, <2>1, <2>2, <2>3
  <1>6. ASSUME NEW p \in Procs \ {a}, HasMessage(p, a), NEW d \in Procs,
               NEW msg \in Message, NEW t \in Nat, clock[a] < t,
               chan' = Send(Receive(chan, p, a), a, d, msg),
               stamps' = Send(Receive(stamps, p, a), a, d, t),
               clock' = [clock EXCEPT ![a] = t], UNCHANGED drawn
        PROVE  /\ Stamped(chan', stamps', clock')
               /\ NoLater(stamps, stamps')
               /\ \E u : clock' = [clock EXCEPT ![a] = u]
    <2>1. /\ Stamped(Receive(chan, p, a), Receive(stamps, p, a), clock)
          /\ NoLater(stamps, Receive(stamps, p, a))
      BY <1>5, <1>6
    <2>2. /\ Stamped(chan', stamps', clock')
          /\ NoLater(Receive(stamps, p, a), stamps')
      BY <1>0, <1>6, <2>1, SendNow
    <2> QED
      BY <1>6, <2>1, <2>2, NoLaterTransitive
  <1>7. ASSUME NEW p \in Procs \ {a}, StampedAsSource(a, p)
        PROVE  /\ Stamped(chan', stamps', clock')
               /\ NoLater(stamps, stamps')
               /\ \E t : clock' = [clock EXCEPT ![a] = t]
               /\ UNCHANGED drawn
    <2> DEFINE i == Oldest(p, a).val
               t == UpdateTime(Received(a, p), 0)
    <2>1. HasMessage(p, a) /\ Oldest(p, a).type = "TRANSFER"
      BY <1>7 DEF StampedAsSource, HandleTransferAsSource, ReceivedInLoop
    <2>2. i \in Orders /\ Dst(i) \in Procs
      BY <2>1, ReceivedFacts DEF IInv, TypeOK
    <2>3. t \in Nat /\ clock[a] < t
      BY <1>5, <2>1
    <2>4. /\ chan' = Send(Receive(chan, p, a), a, Dst(i), Msg("TRANSFER", i))
          /\ stamps' = Send(Receive(stamps, p, a), a, Dst(i), t)
          /\ clock' = [clock EXCEPT ![a] = t]
          /\ UNCHANGED drawn
      BY <1>7 DEF StampedAsSource, HandleTransferAsSource
    <2> HIDE DEF i, t
    <2>5. Msg("TRANSFER", i) \in Message
      BY <2>2, MessageFacts
    <2> QED
      BY <1>6, <2>1, <2>2, <2>3, <2>4, <2>5
  <1>8. ASSUME NEW p \in Procs \ {a}, StampedAsDestination(a, p)
        PROVE  /\ Stamped(chan', stamps', clock')
               /\ NoLater(stamps, stamps')
               /\ \E t : clock' = [clock EXCEPT ![a] = t]
               /\ UNCHANGED drawn
    <2> DEFINE t == ReceivedAgain(a, p)
    <2>1. HasMessage(p, a)
      BY <1>8 DEF StampedAsDestination, HandleTransferAsDestination, ReceivedInLoop
    <2>2. t \in Nat /\ clock[a] < t
      BY <1>5, <2>1
    <2>3. /\ chan' = Send(Receive(chan, p, a), a, Parent, Msg("ACK", 0))
          /\ stamps' = Send(Receive(stamps, p, a), a, Parent, t)
          /\ clock' = [clock EXCEPT ![a] = t]
          /\ UNCHANGED drawn
      BY <1>8 DEF StampedAsDestination, HandleTransferAsDestination
    <2> HIDE DEF t
    <2>4. Msg("ACK", 0) \in Message
      BY MessageFacts
    <2> QED
      BY <1>0, <1>6, <2>1, <2>2, <2>3, <2>4
  <1>9. ASSUME NEW p \in Procs \ {a}, StampedStop(a, p)
        PROVE  /\ Stamped(chan', stamps', clock')
               /\ NoLater(stamps, stamps')
               /\ \E t : clock' = [clock EXCEPT ![a] = t]
               /\ UNCHANGED drawn
    <2> DEFINE t == ReceivedAgain(a, p)
    <2>1. HasMessage(p, a)
      BY <1>9 DEF StampedStop, HandleStop, ReceivedInLoop
    <2>2. /\ t \in Nat /\ clock[a] < t
          /\ Stamped(Receive(chan, p, a), Receive(stamps, p, a), clock)
          /\ NoLater(stamps, Receive(stamps, p, a))
      BY <1>5, <2>1
    <2>3. /\ chan' = SendMulticast(Receive(chan, p, a), a, Msg("DONE", 0))
          /\ stamps' = SendMulticast(Receive(stamps, p, a), a, t)
          /\ clock' = [clock EXCEPT ![a] = t]
          /\ UNCHANGED drawn
      BY <1>9 DEF StampedStop, HandleStop
    <2> HIDE DEF t
    <2>4. Msg("DONE", 0) \in Message
      BY MessageFacts
    <2>5. /\ Stamped(chan', stamps', clock')
          /\ NoLater(Receive(stamps, p, a), stamps')
      BY <1>0, <2>2, <2>3, <2>4, MulticastNow
    <2> QED
      BY <2>2, <2>3, <2>5, NoLaterTransitive
  <1>10. CASE StampedSendHistory(a)
    <2> DEFINE t == UpdateTime(clock[a], 0)
    <2>1. t \in Nat /\ clock[a] < t
      BY <1>0, UpdateFacts
    <2>2. /\ chan' = Send(chan, a, Parent, Msg("BALANCE_HISTORY", balance[a]))
          /\ clock' = [clock EXCEPT ![a] = t]
          /\ stamps' = Send(stamps, a, Parent, t)
          /\ UNCHANGED drawn
      BY <1>0, <1>10 DEF StampedSendHistory, SendHistory, Tick
    <2> HIDE DEF t
    <2>3. Msg("BALANCE_HISTORY", balance[a]) \in Message
      BY MessageFacts DEF IInv, TypeOK, ChildTypeOK
    <2> QED
      BY <1>0, <2>1, <2>2, <2>3, SendNow
  <1> QED
    BY <1>1, <1>3, <1>4, <1>7, <1>8, <1>9, <1>10
    DEF StampedAccount, StampedChild, StampedWaitStarted

\* A worker with a stamp sends it to an account of its shard.
LEMMA SendDrawnStamps ==
  ASSUME IInv, StampInv, NEW s \in Shards, StampedSend(s)
  PROVE  StampInv'
  <1>0. /\ Parent \in Procs
        /\ Stamped(chan, stamps, clock)
        /\ drawn \in [Shards -> Nat]
    BY ProcFacts DEF StampInv
  <1>1. PICK x : /\ \/ x = Src(task[s].order) /\ (LocalSend(s) \/ Step1Send(s))
                    \/ x = Dst(task[s].order) /\ Step2Send(s)
                 /\ SendOrder(s, x)
                 /\ SendDrawn(s, x)
    BY DEF StampedSend, LocalSend, Step1Send, Step2Send
  <1>2. task[s] \in Tasks /\ x \in Accounts /\ GetShardId(x) = s
    <2>1. /\ task[s] \in Tasks
          /\ Serves(worker_pc[s], task[s], s)
      BY <1>1 DEF LocalSend, Step1Send, Step2Send, WorkerAt, IInv, Routed, WorkerRouted
    <2>2. Src(task[s].order) \in Accounts /\ Dst(task[s].order) \in Accounts
      BY <2>1, TaskFacts, OrderFacts
    <2>3. GetShardId(x) = s
      BY <1>1, <2>1
      DEF LocalSend, Step1Send, Step2Send, WorkerAt, Serves, AckPcs, SourcePcs
    <2> QED
      BY <1>1, <2>1, <2>2, <2>3
  <1>3. /\ drawn[s] # NoStamp
        /\ stamps' = Send(stamps, Parent, x, drawn[s])
        /\ drawn' = [drawn EXCEPT ![s] = NoStamp]
        /\ UNCHANGED clock
        /\ chan' = Send(chan, Parent, x, Msg("TRANSFER", task[s].order))
    BY <1>1 DEF SendDrawn, SendOrder
  <1>4. /\ drawn[s] \in Nat
        /\ drawn[s] <= clock[Parent]
        /\ Below(stamps[Parent][x], drawn[s])
    BY <1>0, <1>2, <1>3 DEF StampInv, DrawnFresh
  <1>5. /\ Stamped(chan', stamps', clock')
        /\ \A y \in Procs \ {x} : stamps'[Parent][y] = stamps[Parent][y]
    <2>1. Msg("TRANSFER", task[s].order) \in Message /\ x \in Procs
      BY <1>2, TaskFacts, MessageFacts, ProcFacts
    <2> QED
      BY <1>0, <1>3, <1>4, <2>1, SendStamped
  <1>6. drawn' \in [Shards -> Nat]
    BY <1>0, <1>3 DEF NoStamp
  <1>7. ASSUME NEW r \in Shards, drawn'[r] # NoStamp
        PROVE  /\ worker_pc'[r] \in SendPcs
               /\ drawn'[r] <= clock'[Parent]
               /\ \A a \in Accounts : GetShardId(a) = r =>
                    Below(stamps'[Parent][a], drawn'[r])
    <2>1. r # s /\ drawn'[r] = drawn[r]
      BY <1>0, <1>3, <1>7
    <2>2. worker_pc'[r] = worker_pc[r]
      BY <1>1, <2>1
      DEF LocalSend, Step1Send, Step2Send, WorkerGoTo, IInv, TypeOK, PoolTypeOK
    <2>3. \A a \in Accounts : GetShardId(a) = r => stamps'[Parent][a] = stamps[Parent][a]
      BY <1>2, <1>5, <2>1, ProcFacts
    <2> QED
      BY <1>3, <1>7, <2>1, <2>2, <2>3 DEF StampInv, DrawnFresh
  <1>8. DrawnFresh'
    BY <1>7 DEF DrawnFresh
  <1> QED
    BY <1>5, <1>6, <1>8 DEF StampInv

\* The parent receives from account p.
LEMMA ParentReceivesStamps ==
  ASSUME StampInv, NEW p \in Procs, HasMessage(p, Parent), ParentReceives(p),
         chan' = Receive(chan, p, Parent),
         \A s \in Shards : worker_pc[s] \in SendPcs => worker_pc'[s] = worker_pc[s]
  PROVE  StampInv'
  <1>1. Stamped(chan, stamps, clock) /\ Parent \in Procs /\ clock \in [Procs -> Nat]
    BY ProcFacts DEF StampInv, Stamped
  <1>2. /\ stamps' = Receive(stamps, p, Parent)
        /\ clock' = [clock EXCEPT ![Parent] =
                       UpdateTime(@, Head(stamps[p][Parent]))]
        /\ UNCHANGED drawn
    BY DEF ParentReceives, TickAt, ReceiveStamp, Stamp
  <1>3. /\ Stamped(chan', stamps', clock')
        /\ NoLater(stamps, stamps')
        /\ clock[Parent] <= UpdateTime(clock[Parent], Head(stamps[p][Parent]))
    BY <1>1, <1>2, ReceiveNow DEF HasMessage
  <1>4. clock'[Parent] = UpdateTime(clock[Parent], Head(stamps[p][Parent]))
    BY <1>1, <1>2
  <1>5. clock[Parent] <= clock'[Parent]
    BY <1>3, <1>4
  <1> QED
    BY <1>2, <1>3, <1>5, FreshKept

\* Nothing is sent or received, and no worker with a stamp moves.
LEMMA UnstampedKept ==
  ASSUME StampInv, UNCHANGED <<chan, stampVars>>,
         \A s \in Shards : worker_pc[s] \in SendPcs => worker_pc'[s] = worker_pc[s]
  PROVE  StampInv'
  <1>1. UNCHANGED <<chan, clock, stamps, drawn>>
    BY DEF stampVars
  <1>2. clock[Parent] \in Nat
    BY ProcFacts DEF StampInv, Stamped
  <1>3. NoLater(stamps, stamps')
    BY <1>1 DEF NoLater
  <1>4. Stamped(chan', stamps', clock')
    BY <1>1 DEF StampInv
  <1> QED
    BY <1>1, <1>2, <1>3, <1>4, FreshKept

LEMMA WorkerStamps ==
  ASSUME IInv, StampInv, NEW s \in Shards, StampedWorker(s)
  PROVE  StampInv'
  <1>0. worker_pc \in [Shards -> WorkerPcs]
    BY DEF IInv, TypeOK, PoolTypeOK
  <1>1. CASE StampedSend(s)
    BY <1>1, SendDrawnStamps
  <1>2. CASE StampedAck(s)
    <2> DEFINE p == Dst(task[s].order)
    <2>1. /\ HasMessage(p, Parent)
          /\ chan' = Receive(chan, p, Parent)
          /\ ParentReceives(p)
      BY <1>2 DEF StampedAck, LocalAck, Step2Ack
    <2>2. worker_pc[s] \in {"local_ack", "step2_ack"}
      BY <1>2 DEF StampedAck, LocalAck, Step2Ack, WorkerAt
    <2>3. p \in Procs
      BY <2>2, TaskFacts, OrderFacts, ProcFacts DEF IInv, Routed, WorkerRouted
    <2>4. \A r \in Shards : worker_pc[r] \in SendPcs => worker_pc'[r] = worker_pc[r]
      BY <1>0, <1>2, <2>2
      DEF StampedAck, LocalAck, Step2Ack, HandlerReturns, WorkerGoTo, SendPcs
    <2> HIDE DEF p
    <2> QED
      BY <2>1, <2>3, <2>4, ParentReceivesStamps
  <1>3. CASE Unstamped(s)
    <2>1. UNCHANGED <<chan, stampVars>>
      BY <1>3 DEF Unstamped, WorkerTake, WorkerExit, Step1Found, Step1NotFound,
                  Step2Push, Step2Notify, Step2Cleanup, Crash
    <2>2. \A r \in Shards : worker_pc[r] \in SendPcs => worker_pc'[r] = worker_pc[r]
      BY <1>0, <1>3
      DEF Unstamped, WorkerTake, WorkerExit, Step1Found, Step1NotFound,
          Step2Push, Step2Notify, Step2Cleanup, Crash,
          WorkerAt, HandlerReturns, WorkerGoTo, SendPcs
    <2> QED
      BY <2>1, <2>2, UnstampedKept
  <1> QED
    BY <1>1, <1>2, <1>3 DEF StampedWorker, StampedWorkerStep

\* A stamp that is drawn is later than all the parent has sent.
LEMMA DrawStamps ==
  ASSUME StampInv, NEW s \in Shards, DrawStamp(s)
  PROVE  StampInv'
  <1> DEFINE t == UpdateTime(clock[Parent], 0)
  <1>0. /\ Parent \in Procs
        /\ Stamped(chan, stamps, clock)
        /\ clock \in [Procs -> Nat] /\ clock[Parent] \in Nat
        /\ drawn \in [Shards -> Nat]
    BY ProcFacts DEF StampInv, Stamped
  <1>1. t \in Nat /\ clock[Parent] < t
    BY <1>0, UpdateFacts
  <1>2. /\ clock' = [clock EXCEPT ![Parent] = t]
        /\ clock'[Parent] = t
        /\ drawn' = [drawn EXCEPT ![s] = t]
        /\ worker_pc[s] \in SendPcs
        /\ UNCHANGED <<chan, stamps, worker_pc>>
    BY <1>0 DEF DrawStamp, Tick, vars, parentVars, poolVars
  <1> HIDE DEF t
  <1>3. Stamped(chan', stamps', clock')
    <2>1. clock[Parent] <= t
      BY <1>0, <1>1
    <2> QED
      BY <1>0, <1>1, <1>2, <2>1, ClockMoves
  <1>4. \A q \in Procs : Below(stamps[Parent][q], t)
    BY <1>0, <1>1, Later
  <1>5. ASSUME NEW r \in Shards, drawn'[r] # NoStamp
        PROVE  /\ worker_pc'[r] \in SendPcs
               /\ drawn'[r] <= clock'[Parent]
               /\ \A a \in Accounts : GetShardId(a) = r =>
                    Below(stamps'[Parent][a], drawn'[r])
    <2>1. CASE r = s
      <3>1. drawn'[r] = t
        BY <1>0, <1>2, <2>1
      <3> QED
        BY <1>1, <1>2, <1>4, <2>1, <3>1, ProcFacts
    <2>2. CASE r # s
      <3>1. drawn'[r] = drawn[r] /\ drawn[r] \in Nat
        BY <1>0, <1>2, <2>2
      <3>2. /\ worker_pc[r] \in SendPcs
            /\ drawn[r] <= clock[Parent]
            /\ \A a \in Accounts : GetShardId(a) = r =>
                 Below(stamps[Parent][a], drawn[r])
        BY <1>5, <3>1 DEF StampInv, DrawnFresh
      <3>3. drawn[r] <= t
        BY <1>0, <1>1, <3>1, <3>2
      <3> QED
        BY <1>2, <3>1, <3>2, <3>3
    <2> QED
      BY <2>1, <2>2
  <1>6. DrawnFresh'
    BY <1>5 DEF DrawnFresh
  <1>7. drawn' \in [Shards -> Nat]
    BY <1>0, <1>1, <1>2
  <1> QED
    BY <1>3, <1>6, <1>7 DEF StampInv

LEMMA MainStamps ==
  ASSUME IInv, StampInv, StampedMain
  PROVE  StampInv'
  <1>1. CASE /\ Phase1WaitStartup \/ Phase3WaitDone \/ Phase4CollectHistory
             /\ ParentReceives(cursor)
    <2>1. cursor \in Accounts
      BY <1>1 DEF Phase1WaitStartup, Phase3WaitDone, Phase4CollectHistory, MainAt,
                  IInv, TypeOK, MainTypeOK, CursorRange
    <2>2. /\ HasMessage(cursor, Parent)
          /\ chan' = Receive(chan, cursor, Parent)
          /\ UNCHANGED worker_pc
      BY <1>1 DEF Phase1WaitStartup, Phase3WaitDone, Phase4CollectHistory,
                  ReceiveNext, poolVars
    <2> QED
      BY <1>1, <2>1, <2>2, ParentReceivesStamps, ProcFacts
  <1>2. CASE /\ Phase3Stop
             /\ Tick(Parent)
             /\ stamps' = SendMulticast(stamps, Parent, clock'[Parent])
             /\ UNCHANGED <<drawn, history>>
    <2> DEFINE t == UpdateTime(clock[Parent], 0)
    <2>1. /\ Parent \in Procs
          /\ Stamped(chan, stamps, clock)
          /\ clock \in [Procs -> Nat] /\ clock[Parent] \in Nat
      BY ProcFacts DEF StampInv, Stamped
    <2>2. t \in Nat /\ clock[Parent] < t
      BY <2>1, UpdateFacts
    <2>3. /\ clock' = [clock EXCEPT ![Parent] = t]
          /\ stamps' = SendMulticast(stamps, Parent, t)
          /\ chan' = SendMulticast(chan, Parent, Msg("STOP", 0))
          /\ UNCHANGED drawn
      BY <1>2, <2>1 DEF Phase3Stop, Tick
    <2> HIDE DEF t
    <2>4. Stamped(chan', stamps', clock')
      <3>1. Msg("STOP", 0) \in Message
        BY MessageFacts
      <3> QED
        BY <2>1, <2>2, <2>3, <3>1, MulticastNow
    <2>5. \A s \in Shards : worker_pc[s] = "exited"
      BY <1>2 DEF Phase3Stop, MainAt, IInv, PhaseInv
    <2>6. \A s \in Shards : drawn[s] = NoStamp
      BY <2>5 DEF StampInv, DrawnFresh, SendPcs
    <2>7. DrawnFresh' /\ drawn' \in [Shards -> Nat]
      BY <2>3, <2>6 DEF DrawnFresh, StampInv
    <2> QED
      BY <2>4, <2>7 DEF StampInv
  <1>3. CASE /\ \/ Phase2Submit
                \/ WaitAllComplete
                \/ DestroyContexts
                \/ StopShard
                \/ JoinShard
             /\ UNCHANGED stampVars
    <2>1. UNCHANGED chan /\ UNCHANGED worker_pc
      BY <1>3 DEF Phase2Submit, SubmitTransfer, WaitAllComplete, DestroyContexts,
                  StopShard, JoinShard, poolVars
    <2> QED
      BY <1>3, <2>1, UnstampedKept
  <1> QED
    BY <1>1, <1>2, <1>3 DEF StampedMain, StampedMainStep

LEMMA StampInitial == StampedInit => StampInv
  <1> SUFFICES ASSUME StampedInit PROVE StampInv
    OBVIOUS
  <1>1. chan \in Channels
    BY Initial DEF StampedInit, IInv, TypeOK
  <1>2. << >> \in Seq(Nat) /\ Len(<< >>) = 0
    BY EmptySeq
  <1>3. stamps \in StampChannels /\ clock \in [Procs -> Nat]
    BY <1>2 DEF StampedInit, StampChannels
  <1>4. \A p, q \in Procs : stamps[p][q] = << >> /\ chan[p][q] = << >>
    BY DEF StampedInit, Init, NetworkInit
  <1>5. Stamped(chan, stamps, clock)
    BY <1>1, <1>2, <1>3, <1>4 DEF Stamped, Increases, Below
  <1>6. drawn \in [Shards -> Nat] /\ \A s \in Shards : drawn[s] = NoStamp
    BY DEF StampedInit, NoStamp
  <1> QED
    BY <1>5, <1>6 DEF StampInv, DrawnFresh

LEMMA StampInductive == IInv /\ StampInv /\ [StampedNext]_allVars => StampInv'
  <1> SUFFICES ASSUME IInv, StampInv, [StampedNext]_allVars PROVE StampInv'
    OBVIOUS
  <1>1. CASE StampedMain
    BY <1>1, MainStamps
  <1>2. ASSUME NEW s \in Shards, DrawStamp(s) \/ StampedWorker(s)
        PROVE  StampInv'
    BY <1>2, DrawStamps, WorkerStamps
  <1>3. ASSUME NEW a \in Accounts, StampedAccount(a)
        PROVE  StampInv'
    BY <1>3, AccountStamps
  <1>4. CASE UNCHANGED allVars
    BY <1>4, UnstampedKept DEF allVars, vars, parentVars, poolVars
  <1>5. CASE Terminated /\ UNCHANGED stampVars
    BY <1>4, <1>5 DEF Terminated, allVars
  <1> QED
    BY <1>1, <1>2, <1>3, <1>4, <1>5 DEF StampedNext

LEMMA StampInvariance == StampedSpec => []StampInv
  <1>1. StampedInit => StampInv
    BY StampInitial
  <1>2. IInv /\ IInv' /\ StampInv /\ [StampedNext]_allVars => StampInv'
    BY StampInductive
  <1> QED
    BY <1>1, <1>2, BankInvariance, PTL DEF StampedSpec

\* On every channel the stamps increase (clock.cpp:9-13,
\* account_shard.cpp:105-107): two threads of the parent draw from one clock
\* and send later, but never to the same account.
THEOREM StampsIncreaseAlways == StampedSpec => []StampsIncrease
  <1>1. StampInv => StampsIncrease
    <2> SUFFICES ASSUME StampInv,
                        NEW p \in Procs, NEW q \in Procs,
                        NEW j \in DOMAIN stamps[p][q], NEW k \in DOMAIN stamps[p][q],
                        j < k
                 PROVE  stamps[p][q][j] < stamps[p][q][k]
      BY DEF StampsIncrease
    <2>1. stamps[p][q] \in Seq(Nat) /\ Increases(stamps[p][q])
      BY StampedFacts DEF StampInv
    <2>2. DOMAIN stamps[p][q] = 1 .. Len(stamps[p][q])
      BY <2>1, LenProperties
    <2> QED
      BY <2>1, <2>2 DEF Increases
  <1> QED
    BY <1>1, StampInvariance, PTL

-----------------------------------------------------------------------------
(***************************************************************************)
(* Arithmetic of the buffer's ring and of 16-bit balances.                 *)
(***************************************************************************)
LEMMA RingFacts ==
  ASSUME NEW m \in Nat \ {0}, NEW x \in Int
  PROVE  /\ 0 <= x /\ x < m => x % m = x /\ x \div m = 0
         /\ 0 <= x + m /\ x < 0 => x % m = x + m
  BY SMT

\* The 16-bit value of a sum depends only on that of its parts.
LEMMA BalanceFacts ==
  ASSUME NEW x \in Int, NEW y \in Int
  PROVE  /\ ToBalance(x) \in Int
         /\ ToBalance(ToBalance(x) + y) = ToBalance(x + y)
         /\ -32768 <= x /\ x <= 32767 => ToBalance(x) = x
  <1>1. /\ (((x + 32768) % 65536) - 32768 + y + 32768) % 65536
             = (x + y + 32768) % 65536
        /\ -32768 <= x /\ x <= 32767 => (x + 32768) % 65536 = x + 32768
        /\ (x + 32768) % 65536 \in Int
    BY SMT
  <1>2. /\ ToBalance(x) \in Int
        /\ -32768 <= x /\ x <= 32767 => ToBalance(x) = x
    BY <1>1 DEF ToBalance
  <1>3. ToBalance(ToBalance(x) + y) = ToBalance(x + y)
    BY <1>1 DEF ToBalance
  <1> QED
    BY <1>2, <1>3

-----------------------------------------------------------------------------
(***************************************************************************)
(* update_history on a history whose entries are in place.                 *)
(***************************************************************************)
Entries ==
  [s_time : Int, s_balance : Int, s_balance_pending_in : Int]

Histories ==
  [s_history_len : Nat, s_history : [0 .. MAX_T -> Entries], before : Before]

\* The entries of h are those of the times 0 .. t, and there is room for more.
InPlace(h, t) ==
  /\ h \in Histories
  /\ t \in Nat /\ t < MAX_T
  /\ h.s_history_len = t + 1
  /\ \A k \in 0 .. t : h.s_history[k].s_time = k

LEMMA LastInPlace ==
  ASSUME NEW h, NEW t, InPlace(h, t)
  PROVE  /\ LastState(h) = h.s_history[t]
         /\ LastState(h).s_time = t
         /\ LastState(h).s_balance \in Int
         /\ NowBalance(h) = h.s_history[t].s_balance
         /\ t \in 0 .. MAX_T
  <1>1. t \in 0 .. MAX_T /\ t \in 0 .. t
    BY MaxTAssumption DEF InPlace
  <1>2. h.s_history[t] \in Entries
    BY <1>1 DEF InPlace, Histories
  <1>3. LastState(h) = h.s_history[t]
    BY <1>1 DEF InPlace, LastState
  <1> QED
    BY <1>1, <1>2, <1>3 DEF InPlace, NowBalance, Entries

\* q are n entries from time first on, each with bal and pending.
Run(q, first, n, bal, pending) ==
  /\ q \in Seq(Entries)
  /\ Len(q) = n
  /\ \A k \in 1 .. n : q[k] = State(first + k - 1, bal, pending)

LEMMA SteadyFacts ==
  ASSUME NEW first \in Int, NEW end \in Int, first <= end,
         NEW bal \in Int, NEW pending \in Int
  PROVE  Run(Steady(first, end, bal, pending), first, end - first, bal, pending)
  <1> DEFINE n == IF first < end THEN end - first ELSE 0
             s == Steady(first, end, bal, pending)
  <1>1. n \in Nat
    OBVIOUS
  <1>2. \A k \in 1 .. n : State(first + k - 1, bal, pending) \in Entries
    BY <1>1 DEF State, Entries
  <1>3. s = [k \in 1 .. n |-> State(first + k - 1, bal, pending)]
    BY DEF Steady
  <1> HIDE DEF n, s
  <1>4. s \in [1 .. n -> Entries]
    BY <1>2, <1>3
  <1>5. s \in Seq(Entries) /\ Len(s) = n
    BY <1>1, <1>4, SeqDef, LenProperties
  <1>6. \A k \in 1 .. n : s[k] = State(first + k - 1, bal, pending)
    BY <1>3
  <1>7. n = end - first
    BY DEF n
  <1> QED
    BY <1>5, <1>6, <1>7 DEF Run, s

\* Entries that fit are written behind those that are there.
LEMMA WriteFacts ==
  ASSUME NEW h, NEW t, InPlace(h, t),
         NEW new \in Seq(Entries), Len(new) > 0, t + Len(new) < MAX_T
  PROVE  /\ WriteBehind(h, new) \in Histories
         /\ WriteBehind(h, new).s_history_len = t + Len(new) + 1
         /\ \A k \in 0 .. t : WriteBehind(h, new).s_history[k] = h.s_history[k]
         /\ \A k \in t + 1 .. t + Len(new) :
              WriteBehind(h, new).s_history[k] = new[k - t]
  <1> DEFINE m == HistoryLen
             len == h.s_history_len
             offset(k) == (k - len) % m
             last(k) == offset(k) + ((Len(new) - 1 - offset(k)) \div m) * m
             buffer == [k \in 0 .. MAX_T |->
                          IF offset(k) < Len(new) THEN new[last(k) + 1]
                                                  ELSE h.s_history[k]]
             g == WriteBehind(h, new)
  <1>1. /\ m \in Nat \ {0} /\ m = MAX_T + 1 /\ MAX_T \in Nat
        /\ t \in Nat /\ len = t + 1 /\ len \in Nat
        /\ Len(new) \in Nat
    BY MaxTAssumption, LenProperties DEF HistoryLen, InPlace
  <1>2. g = [h EXCEPT !.s_history_len = (len + Len(new)) % m, !.s_history = buffer]
    BY DEF WriteBehind
  <1>3. (len + Len(new)) % m = t + Len(new) + 1
    <2>1. 0 <= len + Len(new) /\ len + Len(new) < m /\ len + Len(new) \in Int
      BY <1>1
    <2> HIDE DEF m, len
    <2>2. (len + Len(new)) % m = len + Len(new)
      BY <1>1, <2>1, RingFacts
    <2> QED
      BY <1>1, <2>2
  <1>4. ASSUME NEW k \in 0 .. MAX_T, k \in t + 1 .. t + Len(new)
        PROVE  buffer[k] = new[k - t]
    <2>1. k - len \in Int /\ 0 <= k - len /\ k - len < m
      BY <1>1, <1>4
    <2>2. offset(k) = k - len
      <3> HIDE DEF m, len
      <3> QED
        BY <1>1, <2>1, RingFacts
    <2>3. /\ Len(new) - 1 - (k - len) \in Int
          /\ 0 <= Len(new) - 1 - (k - len)
          /\ Len(new) - 1 - (k - len) < m
      BY <1>1, <1>4
    <2>4. (Len(new) - 1 - offset(k)) \div m = 0
      <3>1. (Len(new) - 1 - (k - len)) \div m = 0
        <4> DEFINE x == Len(new) - 1 - (k - len)
        <4>1. x \in Int /\ 0 <= x /\ x < m
          BY <2>3
        <4> HIDE DEF x, m
        <4>2. x \div m = 0
          BY <1>1, <4>1, RingFacts
        <4> QED
          BY <4>2 DEF x
      <3> HIDE DEF offset, m, len
      <3> QED
        BY <2>2, <3>1
    <2>5. offset(k) < Len(new) /\ last(k) + 1 = k - t
      <3> HIDE DEF offset
      <3>1. offset(k) < Len(new)
        BY <1>1, <1>4, <2>2
      <3>2. last(k) = offset(k) + 0 * m
        BY <2>4
      <3> HIDE DEF last
      <3>3. last(k) = k - len
        BY <1>1, <1>4, <2>2, <3>2
      <3> QED
        BY <1>1, <1>4, <3>1, <3>3
    <2>6. buffer[k] = IF offset(k) < Len(new) THEN new[last(k) + 1]
                                               ELSE h.s_history[k]
      OBVIOUS
    <2> HIDE DEF buffer, offset, last
    <2> QED
      BY <2>5, <2>6
  <1>5. ASSUME NEW k \in 0 .. MAX_T, ~ k \in t + 1 .. t + Len(new)
        PROVE  buffer[k] = h.s_history[k]
    <2>1. offset(k) \in Int /\ ~ offset(k) < Len(new)
      <3>1. CASE k > t
        <4>1. k - len \in Int /\ 0 <= k - len /\ k - len < m /\ k - len >= Len(new)
          BY <1>1, <1>5, <3>1
        <4>2. offset(k) = k - len
          <5> HIDE DEF m, len
          <5> QED
            BY <1>1, <4>1, RingFacts
        <4> HIDE DEF offset
        <4> QED
          BY <1>1, <4>1, <4>2
      <3>2. CASE ~ k > t
        <4>1. /\ k - len \in Int /\ k - len < 0 /\ 0 <= k - len + m
              /\ k - len + m >= Len(new)
          BY <1>1, <3>2
        <4>2. offset(k) = k - len + m
          <5> HIDE DEF m, len
          <5> QED
            BY <1>1, <4>1, RingFacts
        <4> HIDE DEF offset
        <4> QED
          BY <1>1, <4>1, <4>2
      <3> QED
        BY <3>1, <3>2
    <2>2. buffer[k] = IF offset(k) < Len(new) THEN new[last(k) + 1]
                                               ELSE h.s_history[k]
      OBVIOUS
    <2> HIDE DEF buffer, offset, last
    <2> QED
      BY <2>1, <2>2
  <1>6. buffer \in [0 .. MAX_T -> Entries]
    <2>1. DOMAIN buffer = 0 .. MAX_T /\ buffer = [k \in 0 .. MAX_T |-> buffer[k]]
      OBVIOUS
    <2> HIDE DEF buffer
    <2>2. ASSUME NEW k \in 0 .. MAX_T
          PROVE  buffer[k] \in Entries
      <3>1. CASE k \in t + 1 .. t + Len(new)
        <4>1. k - t \in 1 .. Len(new)
          BY <1>1, <3>1
        <4> QED
          BY <1>4, <3>1, <4>1, ElementOfSeq
      <3>2. CASE ~ k \in t + 1 .. t + Len(new)
        BY <1>5, <3>2 DEF InPlace, Histories
      <3> QED
        BY <3>1, <3>2
    <2> QED
      BY <2>1, <2>2
  <1> HIDE DEF buffer
  <1>7. /\ g \in Histories
        /\ g.s_history_len = t + Len(new) + 1
        /\ g.s_history = buffer
    <2>1. h \in Histories /\ t + Len(new) + 1 \in Nat
      BY <1>1 DEF InPlace
    <2>2. g = [h EXCEPT !.s_history_len = t + Len(new) + 1, !.s_history = buffer]
      BY <1>2, <1>3
    <2> HIDE DEF g
    <2> QED
      BY <1>6, <2>1, <2>2 DEF Histories
  <1>8. \A k \in 0 .. t : g.s_history[k] = h.s_history[k]
    <2>1. \A k \in 0 .. t : k \in 0 .. MAX_T /\ ~ k \in t + 1 .. t + Len(new)
      BY <1>1
    <2> QED
      BY <1>5, <1>7, <2>1
  <1>9. \A k \in t + 1 .. t + Len(new) : g.s_history[k] = new[k - t]
    <2>1. \A k \in t + 1 .. t + Len(new) : k \in 0 .. MAX_T
      BY <1>1
    <2> QED
      BY <1>4, <1>7, <2>1
  <1> QED
    BY <1>7, <1>8, <1>9

\* q is r followed by s.
Joined(q, r, s) ==
  /\ q \in Seq(Entries)
  /\ Len(q) = Len(r) + Len(s)
  /\ \A k \in 1 .. Len(r) : q[k] = r[k]
  /\ \A k \in 1 .. Len(s) : q[Len(r) + k] = s[k]

LEMMA JoinFacts ==
  ASSUME NEW r \in Seq(Entries), NEW s \in Seq(Entries)
  PROVE  Joined(r \o s, r, s)
  <1>1. Len(r) \in Nat /\ Len(s) \in Nat
    BY LenProperties
  <1>2. /\ r \o s \in Seq(Entries)
        /\ Len(r \o s) = Len(r) + Len(s)
        /\ \A i \in 1 .. Len(r) + Len(s) : (r \o s)[i] =
             IF i <= Len(r) THEN r[i] ELSE s[i - Len(r)]
    BY ConcatProperties
  <1>3. \A k \in 1 .. Len(r) : k \in 1 .. Len(r) + Len(s) /\ k <= Len(r)
    BY <1>1
  <1>4. \A k \in 1 .. Len(s) : /\ Len(r) + k \in 1 .. Len(r) + Len(s)
                               /\ ~ Len(r) + k <= Len(r)
                               /\ Len(r) + k - Len(r) = k
    BY <1>1
  <1> QED
    BY <1>2, <1>3, <1>4 DEF Joined

\* The history g is h, whose last entry is that of time t, and what follows:
\* nothing new before start, pending from start on, and amount at end.
Extends(g, h, t, start, end, amount, pending) ==
  /\ InPlace(g, end)
  /\ \A k \in 0 .. t : g.s_history[k] = h.s_history[k]
  /\ \A k \in t + 1 .. start - 1 : g.s_history[k] = State(k, NowBalance(h), 0)
  /\ \A k \in start .. end - 1 : g.s_history[k] = State(k, NowBalance(h), pending)
  /\ g.s_history[end] = State(end, ToBalance(amount), 0)
  /\ NowBalance(g) = ToBalance(amount)

\* A change that starts after the last entry and ends before the buffer does
\* puts every entry in the place of its time (utils.cpp:3-30).
LEMMA HistoryUpdate ==
  ASSUME NEW h, NEW t, InPlace(h, t),
         NEW start \in Nat, NEW end \in Nat, t < start, start <= end, end < MAX_T,
         NEW amount \in Int, NEW pending \in Int
  PROVE  Extends(UpdateHistory(h, start, end, amount, pending),
                 h, t, start, end, amount, pending)
  <1> DEFINE bal == NowBalance(h)
             a == Steady(t + 1, start, bal, 0)
             b == Steady(start, end, bal, pending)
             c == << State(end, ToBalance(amount), 0) >>
             new == a \o b \o c
             g == UpdateHistory(h, start, end, amount, pending)
  <1>1. /\ t \in Nat /\ MAX_T \in Nat
        /\ LastState(h).s_time = t
        /\ LastState(h).s_balance = bal
        /\ bal \in Int
        /\ ToBalance(amount) \in Int
    <2>1. t \in Nat /\ MAX_T \in Nat
      BY MaxTAssumption DEF InPlace
    <2>2. /\ LastState(h).s_time = t
          /\ LastState(h).s_balance \in Int
      BY LastInPlace
    <2>3. ToBalance(amount) \in Int
      <3>1. 0 \in Int
        OBVIOUS
      <3> QED
        BY <3>1, BalanceFacts
    <2> QED
      BY <2>1, <2>2, <2>3 DEF NowBalance
  <1>2. g = WriteBehind(h, new)
    BY <1>1 DEF UpdateHistory
  <1> HIDE DEF bal, g
  <1>3. /\ a \in Seq(Entries)
        /\ Len(a) = start - t - 1
        /\ \A k \in 1 .. Len(a) : a[k] = State(t + k, bal, 0)
    <2> DEFINE f == t + 1
    <2>1. f \in Int /\ start \in Int /\ f <= start /\ 0 \in Int
      BY <1>1
    <2> HIDE DEF f
    <2>2. Run(Steady(f, start, bal, 0), f, start - f, bal, 0)
      BY <1>1, <2>1, SteadyFacts
    <2>3. start - f = start - t - 1 /\ \A k \in Nat : f + k - 1 = t + k
      BY <1>1 DEF f
    <2>4. \A k \in 1 .. start - f : a[k] = State(f + k - 1, bal, 0)
      BY <2>2 DEF Run, f
    <2>5. \A k \in 1 .. start - f : k \in Nat
      OBVIOUS
    <2> QED
      BY <2>2, <2>3, <2>4, <2>5 DEF Run, f
  <1>4. /\ b \in Seq(Entries)
        /\ Len(b) = end - start
        /\ \A k \in 1 .. Len(b) : b[k] = State(start + k - 1, bal, pending)
    <2>1. start \in Int /\ end \in Int
      OBVIOUS
    <2>2. Run(b, start, end - start, bal, pending)
      BY <1>1, <2>1, SteadyFacts
    <2> QED
      BY <2>2 DEF Run
  <1>5. c \in Seq(Entries) /\ Len(c) = 1 /\ c[1] = State(end, ToBalance(amount), 0)
    BY <1>1 DEF State, Entries
  <1> HIDE DEF a, b, c
  <1>6. Joined(a \o b, a, b) /\ Joined(new, a \o b, c)
    <2>1. Joined(a \o b, a, b)
      BY <1>3, <1>4, JoinFacts
    <2> HIDE DEF new
    <2>2. a \o b \in Seq(Entries)
      BY <2>1 DEF Joined
    <2>3. Joined((a \o b) \o c, a \o b, c)
      BY <1>5, <2>2, JoinFacts
    <2> QED
      BY <2>1, <2>3 DEF new
  <1>7. /\ new \in Seq(Entries)
        /\ Len(a \o b) = end - t - 1
        /\ Len(new) = end - t
    <2> HIDE DEF new
    <2> QED
      BY <1>1, <1>3, <1>4, <1>5, <1>6 DEF Joined
  <1>8. /\ \A k \in 1 .. start - t - 1 : new[k] = State(t + k, bal, 0)
        /\ \A k \in start - t .. end - t - 1 : new[k] = State(t + k, bal, pending)
        /\ new[end - t] = State(end, ToBalance(amount), 0)
    <2> HIDE DEF new
    <2>1. ASSUME NEW k \in 1 .. start - t - 1
          PROVE  new[k] = State(t + k, bal, 0)
      <3>1. k \in 1 .. Len(a \o b) /\ k \in 1 .. Len(a)
        BY <1>1, <1>3, <1>7
      <3>2. new[k] = (a \o b)[k] /\ (a \o b)[k] = a[k]
        BY <1>6, <3>1 DEF Joined
      <3> QED
        BY <1>3, <3>1, <3>2
    <2>2. ASSUME NEW k \in start - t .. end - t - 1
          PROVE  new[k] = State(t + k, bal, pending)
      <3> DEFINE j == k - Len(a)
      <3>1. /\ k \in 1 .. Len(a \o b)
            /\ j \in 1 .. Len(b)
            /\ Len(a) + j = k
            /\ start + j - 1 = t + k
        BY <1>1, <1>3, <1>4, <1>7
      <3> HIDE DEF j
      <3>2. new[k] = (a \o b)[k]
        BY <1>6, <3>1 DEF Joined
      <3>3. (a \o b)[Len(a) + j] = b[j]
        BY <1>6, <3>1 DEF Joined
      <3>4. b[j] = State(start + j - 1, bal, pending)
        BY <1>4, <3>1
      <3> QED
        BY <3>1, <3>2, <3>3, <3>4
    <2>3. new[end - t] = State(end, ToBalance(amount), 0)
      <3>1. 1 \in 1 .. Len(c) /\ Len(a \o b) + 1 = end - t
        BY <1>1, <1>5, <1>7
      <3>2. new[Len(a \o b) + 1] = c[1]
        BY <1>6, <3>1 DEF Joined
      <3> QED
        BY <1>5, <3>1, <3>2
    <2> QED
      BY <2>1, <2>2, <2>3
  <1> HIDE DEF new
  <1>9. /\ g \in Histories
        /\ g.s_history_len = end + 1
        /\ \A k \in 0 .. t : g.s_history[k] = h.s_history[k]
        /\ \A k \in t + 1 .. end : g.s_history[k] = new[k - t]
    <2>1. Len(new) > 0 /\ t + Len(new) = end /\ t + Len(new) < MAX_T
      BY <1>1, <1>7
    <2>2. /\ WriteBehind(h, new) \in Histories
          /\ WriteBehind(h, new).s_history_len = t + Len(new) + 1
          /\ \A k \in 0 .. t : WriteBehind(h, new).s_history[k] = h.s_history[k]
          /\ \A k \in t + 1 .. t + Len(new) :
               WriteBehind(h, new).s_history[k] = new[k - t]
      BY <1>7, <2>1, WriteFacts
    <2> QED
      BY <1>2, <2>1, <2>2
  <1>10. ASSUME NEW k \in t + 1 .. start - 1
         PROVE  g.s_history[k] = State(k, bal, 0)
    <2>1. k \in t + 1 .. end /\ k - t \in 1 .. start - t - 1 /\ t + (k - t) = k
      BY <1>1
    <2> QED
      BY <1>8, <1>9, <2>1
  <1>11. ASSUME NEW k \in start .. end - 1
         PROVE  g.s_history[k] = State(k, bal, pending)
    <2>1. k \in t + 1 .. end /\ k - t \in start - t .. end - t - 1 /\ t + (k - t) = k
      BY <1>1
    <2> QED
      BY <1>8, <1>9, <2>1
  <1>12. g.s_history[end] = State(end, ToBalance(amount), 0)
    <2>1. end \in t + 1 .. end
      BY <1>1
    <2> QED
      BY <1>8, <1>9, <2>1
  <1>13. ASSUME NEW k \in 0 .. end
         PROVE  g.s_history[k].s_time = k
    <2>1. k \in 0 .. t \/ k \in t + 1 .. start - 1 \/ k \in start .. end - 1 \/ k = end
      BY <1>1
    <2>2. CASE k \in 0 .. t
      BY <1>9, <2>2 DEF InPlace
    <2>3. CASE k \in t + 1 .. start - 1
      <3>1. g.s_history[k] = State(k, bal, 0)
        BY <1>10, <2>3
      <3> QED
        BY <3>1 DEF State
    <2>4. CASE k \in start .. end - 1
      <3>1. g.s_history[k] = State(k, bal, pending)
        BY <1>11, <2>4
      <3> QED
        BY <3>1 DEF State
    <2>5. CASE k = end
      BY <1>12, <2>5 DEF State
    <2> QED
      BY <2>1, <2>2, <2>3, <2>4, <2>5
  <1>14. InPlace(g, end)
    BY <1>9, <1>13 DEF InPlace
  <1>15. NowBalance(g) = ToBalance(amount)
    BY <1>12, <1>14, LastInPlace DEF State
  <1> QED
    BY <1>9, <1>10, <1>11, <1>12, <1>14, <1>15 DEF Extends, bal, g

-----------------------------------------------------------------------------
(***************************************************************************)
(* Stamps and histories.  A TRANSFER on its way within a shard has a later *)
(* stamp than the last entry of every account of the shard, but for the    *)
(* sender's own, which is of that time; an ACK has no earlier one.         *)
(***************************************************************************)
\* Message m of sender p, with stamp u, and the account a whose last entry is
\* that of time t.
Ahead(m, u, p, a, t) ==
  /\ m.type = "TRANSFER" /\ GetShardId(Src(m.val)) = GetShardId(a) =>
       IF a = p THEN t = u ELSE t < u
  /\ m.type = "ACK" /\ GetShardId(p) = GetShardId(a) => t <= u

\* v is the last entry of each account.
Timely(c, st, v) ==
  \A p, q \in Procs, a \in Accounts : \A j \in 1 .. Len(c[p][q]) :
    Ahead(c[p][q][j], st[p][q][j], p, a, v[a])

\* No such message is about the accounts of shard s.
Clear(c, s) ==
  \A p, q \in Procs : \A j \in 1 .. Len(c[p][q]) :
    /\ c[p][q][j].type = "TRANSFER" => GetShardId(Src(c[p][q][j].val)) # s
    /\ c[p][q][j].type = "ACK" => GetShardId(p) # s

LEMMA TimelySend ==
  ASSUME NEW c, NEW st, NEW clk, Stamped(c, st, clk), NEW v, Timely(c, st, v),
         NEW p \in Procs, NEW q \in Procs, NEW m \in Message, NEW u \in Nat,
         \A a \in Accounts : Ahead(m, u, p, a, v[a])
  PROVE  Timely(Send(c, p, q, m), Send(st, p, q, u), v)
  <1> SUFFICES ASSUME NEW x \in Procs, NEW y \in Procs, NEW a \in Accounts,
                      NEW j \in 1 .. Len(Send(c, p, q, m)[x][y])
               PROVE  Ahead(Send(c, p, q, m)[x][y][j], Send(st, p, q, u)[x][y][j],
                            x, a, v[a])
    BY DEF Timely
  <1>1. /\ c[x][y] \in Seq(Message) /\ st[x][y] \in Seq(Nat)
        /\ Len(st[x][y]) = Len(c[x][y]) /\ Len(c[x][y]) \in Nat
    BY StampedFacts, LenProperties
  <1>2. CASE x = p /\ y = q
    <2>1. /\ Send(c, p, q, m)[x][y] = Append(c[x][y], m)
          /\ Send(st, p, q, u)[x][y] = Append(st[x][y], u)
      BY <1>2 DEF Stamped, Channels, StampChannels, Send
    <2>2. /\ Len(Append(c[x][y], m)) = Len(c[x][y]) + 1
          /\ \A k \in 1 .. Len(c[x][y]) : Append(c[x][y], m)[k] = c[x][y][k]
          /\ Append(c[x][y], m)[Len(c[x][y]) + 1] = m
      BY <1>1, AppendFacts
    <2>3. /\ \A k \in 1 .. Len(st[x][y]) : Append(st[x][y], u)[k] = st[x][y][k]
          /\ Append(st[x][y], u)[Len(st[x][y]) + 1] = u
      <3>1. st[x][y] \in Seq(Nat) /\ u \in Nat
        BY <1>1
      <3> QED
        BY <3>1, AppendProperties
    <2>4. CASE j = Len(c[x][y]) + 1
      BY <1>1, <1>2, <2>1, <2>2, <2>3, <2>4
    <2>5. CASE j # Len(c[x][y]) + 1
      <3>1. j \in 1 .. Len(c[x][y])
        BY <1>1, <2>1, <2>2, <2>5
      <3>2. Ahead(c[x][y][j], st[x][y][j], x, a, v[a])
        BY <3>1 DEF Timely
      <3> QED
        BY <1>1, <2>1, <2>2, <2>3, <3>1, <3>2
    <2> QED
      BY <2>4, <2>5
  <1>3. CASE ~ (x = p /\ y = q)
    <2>1. /\ Send(c, p, q, m)[x][y] = c[x][y]
          /\ Send(st, p, q, u)[x][y] = st[x][y]
      BY <1>3 DEF Stamped, Channels, StampChannels, Send
    <2> QED
      BY <2>1 DEF Timely
  <1> QED
    BY <1>2, <1>3

LEMMA TimelyMulticast ==
  ASSUME NEW c, NEW st, NEW clk, Stamped(c, st, clk), NEW v, Timely(c, st, v),
         NEW p \in Procs, NEW m \in Message, NEW u \in Nat,
         m.type \notin {"TRANSFER", "ACK"}
  PROVE  Timely(SendMulticast(c, p, m), SendMulticast(st, p, u), v)
  <1> SUFFICES ASSUME NEW x \in Procs, NEW y \in Procs, NEW a \in Accounts,
                      NEW j \in 1 .. Len(SendMulticast(c, p, m)[x][y])
               PROVE  Ahead(SendMulticast(c, p, m)[x][y][j],
                            SendMulticast(st, p, u)[x][y][j], x, a, v[a])
    BY DEF Timely
  <1>1. /\ c[x][y] \in Seq(Message) /\ st[x][y] \in Seq(Nat)
        /\ Len(st[x][y]) = Len(c[x][y]) /\ Len(c[x][y]) \in Nat
    BY StampedFacts, LenProperties
  <1>2. CASE x = p /\ y # p
    <2>1. /\ SendMulticast(c, p, m)[x][y] = Append(c[x][y], m)
          /\ SendMulticast(st, p, u)[x][y] = Append(st[x][y], u)
      BY <1>2 DEF Stamped, Channels, StampChannels, SendMulticast
    <2>2. /\ Len(Append(c[x][y], m)) = Len(c[x][y]) + 1
          /\ \A k \in 1 .. Len(c[x][y]) : Append(c[x][y], m)[k] = c[x][y][k]
          /\ Append(c[x][y], m)[Len(c[x][y]) + 1] = m
      BY <1>1, AppendFacts
    <2>3. \A k \in 1 .. Len(st[x][y]) : Append(st[x][y], u)[k] = st[x][y][k]
      BY <1>1, AppendFacts
    <2>4. CASE j = Len(c[x][y]) + 1
      BY <2>1, <2>2, <2>4 DEF Ahead
    <2>5. CASE j # Len(c[x][y]) + 1
      <3>1. j \in 1 .. Len(c[x][y])
        BY <1>1, <2>1, <2>2, <2>5
      <3>2. Ahead(c[x][y][j], st[x][y][j], x, a, v[a])
        BY <3>1 DEF Timely
      <3> QED
        BY <1>1, <2>1, <2>2, <2>3, <3>1, <3>2
    <2> QED
      BY <2>4, <2>5
  <1>3. CASE ~ (x = p /\ y # p)
    <2>1. /\ SendMulticast(c, p, m)[x][y] = c[x][y]
          /\ SendMulticast(st, p, u)[x][y] = st[x][y]
      BY <1>3 DEF Stamped, Channels, StampChannels, SendMulticast
    <2> QED
      BY <2>1 DEF Timely
  <1> QED
    BY <1>2, <1>3

LEMMA TimelyReceive ==
  ASSUME NEW c, NEW st, NEW clk, Stamped(c, st, clk), NEW v, Timely(c, st, v),
         NEW p \in Procs, NEW q \in Procs, c[p][q] # << >>
  PROVE  /\ Timely(Receive(c, p, q), Receive(st, p, q), v)
         /\ \A a \in Accounts : Ahead(Head(c[p][q]), Head(st[p][q]), p, a, v[a])
         /\ Head(st[p][q]) \in Nat
  <1>1. /\ \A x, y \in Procs : /\ c[x][y] \in Seq(Message)
                               /\ st[x][y] \in Seq(Nat)
                               /\ Len(st[x][y]) = Len(c[x][y])
                               /\ Len(c[x][y]) \in Nat
    BY StampedFacts, LenProperties
  <1>2. st[p][q] # << >>
    BY <1>1, EmptySeq
  <1>3. /\ Head(c[p][q]) = c[p][q][1]
        /\ Len(c[p][q]) \in Nat \ {0}
        /\ Len(Tail(c[p][q])) = Len(c[p][q]) - 1
        /\ \A j \in 1 .. Len(c[p][q]) - 1 : Tail(c[p][q])[j] = c[p][q][j + 1]
    BY <1>1, TakeHeadFacts
  <1>4. /\ Head(st[p][q]) = st[p][q][1] /\ Head(st[p][q]) \in Nat
        /\ \A j \in 1 .. Len(st[p][q]) - 1 : Tail(st[p][q])[j] = st[p][q][j + 1]
    BY <1>1, <1>2, TakeHeadFacts
  <1>5. \A a \in Accounts : Ahead(Head(c[p][q]), Head(st[p][q]), p, a, v[a])
    <2>1. 1 \in 1 .. Len(c[p][q])
      BY <1>3
    <2> QED
      BY <1>3, <1>4, <2>1 DEF Timely
  <1>6. ASSUME NEW x \in Procs, NEW y \in Procs, NEW a \in Accounts,
               NEW j \in 1 .. Len(Receive(c, p, q)[x][y])
        PROVE  Ahead(Receive(c, p, q)[x][y][j], Receive(st, p, q)[x][y][j],
                     x, a, v[a])
    <2>1. CASE x = p /\ y = q
      <3>1. /\ Receive(c, p, q)[x][y] = Tail(c[p][q])
            /\ Receive(st, p, q)[x][y] = Tail(st[p][q])
        BY <2>1 DEF Stamped, Channels, StampChannels, Receive
      <3>2. j \in 1 .. Len(c[p][q]) - 1 /\ j + 1 \in 1 .. Len(c[p][q])
        BY <1>3, <3>1
      <3>3. Ahead(c[p][q][j + 1], st[p][q][j + 1], p, a, v[a])
        BY <3>2 DEF Timely
      <3> QED
        BY <1>1, <1>3, <1>4, <2>1, <3>1, <3>2, <3>3
    <2>2. CASE ~ (x = p /\ y = q)
      <3>1. /\ Receive(c, p, q)[x][y] = c[x][y]
            /\ Receive(st, p, q)[x][y] = st[x][y]
        BY <2>2 DEF Stamped, Channels, StampChannels, Receive
      <3> QED
        BY <3>1 DEF Timely
    <2> QED
      BY <2>1, <2>2
  <1> QED
    BY <1>4, <1>5, <1>6 DEF Timely

\* The history of an account may grow when nothing is on its way in its shard.
LEMMA TimelyRaise ==
  ASSUME NEW c, NEW st, NEW v, Timely(c, st, v), NEW w,
         \A a \in Accounts : w[a] = v[a] \/ Clear(c, GetShardId(a))
  PROVE  Timely(c, st, w)
  <1> SUFFICES ASSUME NEW p \in Procs, NEW q \in Procs, NEW a \in Accounts,
                      NEW j \in 1 .. Len(c[p][q])
               PROVE  Ahead(c[p][q][j], st[p][q][j], p, a, w[a])
    BY DEF Timely
  <1>1. CASE w[a] = v[a]
    BY <1>1 DEF Timely
  <1>2. CASE Clear(c, GetShardId(a))
    BY <1>2 DEF Clear, Ahead
  <1> QED
    BY <1>1, <1>2

\* A TRANSFER that is received is the only message on its way in its shard,
\* whose worker waits for the ACK of its order.
LEMMA OnlyTransfer ==
  ASSUME LocalWorkload, IInv, KindInv, LocalInv,
         NEW a \in Accounts, NEW p \in Procs \ {a}, HasMessage(p, a),
         Oldest(p, a).type = "TRANSFER"
  PROVE  LET i == Oldest(p, a).val IN
         /\ i \in Orders /\ Src(i) \in Accounts /\ Dst(i) \in Accounts
         /\ Amount(i) \in Nat
         /\ (p = Parent /\ a = Src(i)) \/ (p = Src(i) /\ a = Dst(i))
         /\ GetShardId(Src(i)) = GetShardId(a) /\ GetShardId(a) \in Shards
         /\ worker_pc[GetShardId(a)] = "local_ack"
         /\ Clear(Receive(chan, p, a), GetShardId(a))
  <1> DEFINE i == Oldest(p, a).val
             s == GetShardId(a)
             c == Receive(chan, p, a)
  <1>0. chan \in Channels /\ a \in Procs /\ Parent \in Procs
    BY ProcFacts DEF IInv, TypeOK
  <1>1. /\ chan[p][a] \in Seq(Carries(p, a))
        /\ chan[p][a] \in Seq(Message)
        /\ chan[p][a] # << >>
    BY <1>0, ChannelType DEF KindInv, Kinds, HasMessage
  <1>2. /\ Oldest(p, a) \in Carries(p, a)
        /\ Oldest(p, a) = chan[p][a][1]
        /\ Len(chan[p][a]) \in Nat \ {0}
    BY <1>1, TakeHeadFacts DEF Oldest
  <1>3. /\ i \in Orders
        /\ Oldest(p, a) = Msg("TRANSFER", i)
        /\ IF p = Parent THEN a \in {Src(i), Dst(i)} ELSE p = Src(i) /\ a = Dst(i)
    BY <1>2 DEF Carries, Message, MessageTypes, Msg
  <1>4. /\ Src(i) \in Accounts /\ Dst(i) \in Accounts /\ Amount(i) \in Nat
        /\ Src(i) \in Procs /\ Dst(i) \in Procs
    BY <1>3, OrderFacts, ProcFacts
  <1>5. (p = Parent /\ a = Src(i)) \/ (p = Src(i) /\ a = Dst(i))
    <2>1. CASE p = Parent
      <3>1. 1 \in 1 .. Len(chan[Parent][a])
        BY <1>2, <2>1
      <3>2. chan[Parent][a][1] = Oldest(p, a)
        BY <1>2, <2>1
      <3>3. chan[Parent][a][1].type = "TRANSFER" =>
              Src(chan[Parent][a][1].val) = a
        BY <3>1 DEF LocalInv, SourceOnly
      <3> QED
        BY <2>1, <3>2, <3>3
    <2> QED
      BY <1>3, <2>1
  <1>6. GetShardId(Src(i)) = s /\ GetShardId(Dst(i)) = s /\ s \in Shards
    BY <1>3, <1>4, <1>5, ShardFacts DEF LocalWorkload, IsLocal
  <1> HIDE DEF i, s
  <1>7. /\ \A k \in Orders, x, y \in Procs :
             chan[x][y] \in Seq(Message) /\ CopiesOf(k, chan[x][y]) \in Nat
        /\ \A k \in Orders : /\ Requests(k) = CopiesOf(k, chan[Parent][Src(k)])
                             /\ Forwards(k) = CopiesOf(k, chan[Src(k)][Dst(k)])
    <2>1. \A x, y \in Procs : chan[x][y] \in Seq(Message)
      BY <1>0, ChannelType
    <2>2. \A k \in Orders : Src(k) \in Procs /\ Dst(k) \in Procs
      BY OrderFacts, ProcFacts
    <2>3. \A k \in Orders, x, y \in Procs :
            MessagesOf(k, x, y) = CopiesOf(k, chan[x][y])
      BY <2>1, MessageCount DEF MessagesOf, CopiesOf
    <2> QED
      BY <1>0, <2>1, <2>2, <2>3, CopiesFacts DEF Requests, Forwards
  <1>8. CopiesOf(i, chan[p][a]) # 0
    <2>1. 1 \in 1 .. Len(chan[p][a]) /\ chan[p][a][1] = Msg("TRANSFER", i)
      BY <1>2, <1>3
    <2> QED
      BY <1>1, <2>1, CopiesFacts
  <1>9. /\ Held(i)
        /\ debited[i] \in Nat /\ credited[i] \in Nat /\ Replies(i) \in Nat
        /\ Requests(i) \in Nat /\ Forwards(i) \in Nat
        /\ Requests(i) + Forwards(i) + Replies(i) = 1
    <2>1. /\ debited[i] \in Nat /\ credited[i] \in Nat /\ Replies(i) \in Nat
          /\ Requests(i) \in Nat /\ Forwards(i) \in Nat
      BY <1>3, OrderNumbers
    <2>2. Balanced(Held(i), Requests(i), Forwards(i), Replies(i), debited[i],
                   credited[i])
      BY <1>3 DEF LocalInv, OrderInv
    <2>3. Requests(i) # 0 \/ Forwards(i) # 0
      BY <1>3, <1>5, <1>7, <1>8
    <2>4. Held(i)
      BY <2>2, <2>3 DEF Balanced
    <2> QED
      BY <2>1, <2>2, <2>4 DEF Balanced
  <1>10. /\ worker_pc[s] = "local_ack" /\ task[s].order = i
         /\ ~ AfterStop
    <2>1. worker_pc[s] = "local_ack" /\ task[s].order = i
      BY <1>6, <1>9 DEF Held, Waiting
    <2>2. ~ AfterStop
      BY <1>6, <2>1 DEF IInv, PhaseInv, AfterStop
    <2> QED
      BY <2>1, <2>2
  <1>11. \A k \in Orders : Held(k) /\ GetShardId(Src(k)) = s => k = i
    BY <1>10 DEF Held, Waiting
  <1>12. /\ CopiesOf(i, c[Parent][Src(i)]) = 0
         /\ CopiesOf(i, c[Src(i)][Dst(i)]) = 0
         /\ Replies(i) = 0
    <2>1. CopiesOf(i, Tail(chan[p][a])) = CopiesOf(i, chan[p][a]) - 1
      BY <1>1, <1>3, CopiesChange DEF Oldest
    <2>2. /\ c[p][a] = Tail(chan[p][a])
          /\ \A x, y \in Procs : ~ (x = p /\ y = a) => c[x][y] = chan[x][y]
      BY <1>0, ReceiveAt
    <2>3. Src(i) # Parent
      BY <1>4, ProcFacts
    <2>4. CASE p = Parent /\ a = Src(i)
      <3>1. Requests(i) = 1 /\ Forwards(i) = 0 /\ Replies(i) = 0
        BY <1>3, <1>7, <1>8, <1>9, <2>4
      <3>2. c[Src(i)][Dst(i)] = chan[Src(i)][Dst(i)]
        BY <1>4, <2>2, <2>3, <2>4
      <3> QED
        BY <1>3, <1>7, <2>1, <2>2, <2>4, <3>1, <3>2
    <2>5. CASE p = Src(i) /\ a = Dst(i)
      <3>1. Requests(i) = 0 /\ Forwards(i) = 1 /\ Replies(i) = 0
        BY <1>3, <1>7, <1>8, <1>9, <2>5
      <3>2. c[Parent][Src(i)] = chan[Parent][Src(i)]
        BY <1>0, <1>4, <2>2, <2>3, <2>5
      <3> QED
        BY <1>3, <1>7, <2>1, <2>2, <2>5, <3>1, <3>2
    <2> QED
      BY <1>5, <2>4, <2>5
  <1>13. \A x, y \in Procs : /\ c[x][y] \in Seq(Message)
                             /\ \A j \in 1 .. Len(c[x][y]) :
                                  \E k \in 1 .. Len(chan[x][y]) :
                                    c[x][y][j] = chan[x][y][k]
    <2> SUFFICES ASSUME NEW x \in Procs, NEW y \in Procs
                 PROVE  /\ c[x][y] \in Seq(Message)
                        /\ \A j \in 1 .. Len(c[x][y]) :
                             \E k \in 1 .. Len(chan[x][y]) :
                               c[x][y][j] = chan[x][y][k]
      OBVIOUS
    <2>1. CASE x = p /\ y = a
      <3>1. c[x][y] = Tail(chan[p][a])
        BY <1>0, <2>1, ReceiveAt
      <3>2. /\ Tail(chan[p][a]) \in Seq(Message)
            /\ Len(chan[p][a]) \in Nat \ {0}
            /\ Len(Tail(chan[p][a])) = Len(chan[p][a]) - 1
            /\ \A j \in 1 .. Len(chan[p][a]) - 1 :
                 Tail(chan[p][a])[j] = chan[p][a][j + 1]
        BY <1>1, TakeHeadFacts
      <3>3. \A j \in 1 .. Len(chan[p][a]) - 1 : j + 1 \in 1 .. Len(chan[p][a])
        BY <3>2
      <3> QED
        BY <2>1, <3>1, <3>2, <3>3
    <2>2. CASE ~ (x = p /\ y = a)
      <3>1. c[x][y] = chan[x][y]
        BY <1>0, <2>2, ReceiveAt
      <3> QED
        BY <1>0, <3>1, ChannelType
    <2> QED
      BY <2>1, <2>2
  <1>14. ASSUME NEW x \in Procs, NEW y \in Procs, NEW j \in 1 .. Len(c[x][y]),
                c[x][y][j].type = "TRANSFER",
                GetShardId(Src(c[x][y][j].val)) = s
         PROVE  FALSE
    <2>1. PICK n \in 1 .. Len(chan[x][y]) : c[x][y][j] = chan[x][y][n]
      BY <1>13
    <2>2. chan[x][y][n] \in Carries(x, y)
      BY <2>1, ElementOfSeq DEF KindInv, Kinds
    <2>3. PICK k \in Orders :
            /\ k = c[x][y][j].val
            /\ c[x][y][j] = Msg("TRANSFER", k)
            /\ IF x = Parent THEN y \in {Src(k), Dst(k)} ELSE x = Src(k) /\ y = Dst(k)
      BY <1>14, <2>1, <2>2 DEF Carries, Message, MessageTypes, Msg
    <2>4. (x = Parent /\ y = Src(k)) \/ (x = Src(k) /\ y = Dst(k))
      <3>1. x = Parent => y = Src(k)
        <4> SUFFICES ASSUME x = Parent PROVE y = Src(k)
          OBVIOUS
        <4>1. y \in Accounts
          BY <2>3, OrderFacts
        <4>2. chan[x][y][n].type = "TRANSFER" => Src(chan[x][y][n].val) = y
          BY <2>1, <4>1 DEF LocalInv, SourceOnly
        <4> QED
          BY <1>14, <2>1, <2>3, <4>2
      <3>2. x # Parent => x = Src(k) /\ y = Dst(k)
        BY <2>3
      <3> QED
        BY <3>1, <3>2, Zenon
    <2>5. CopiesOf(k, chan[x][y]) # 0 /\ CopiesOf(k, c[x][y]) # 0
      <3>1. chan[x][y] \in Seq(Message) /\ chan[x][y][n] = Msg("TRANSFER", k)
        BY <1>7, <2>1, <2>3
      <3>2. c[x][y] \in Seq(Message) /\ c[x][y][j] = Msg("TRANSFER", k)
        BY <1>13, <2>3
      <3>3. CopiesOf(k, chan[x][y]) # 0
        BY <3>1, CopiesFacts
      <3>4. CopiesOf(k, c[x][y]) # 0
        BY <3>2, CopiesFacts
      <3> QED
        BY <3>3, <3>4
    <2>6. Requests(k) # 0 \/ Forwards(k) # 0
      BY <1>7, <2>4, <2>5
    <2>7. Held(k)
      BY <2>6 DEF LocalInv, OrderInv, Balanced
    <2>8. k = i
      BY <1>11, <1>14, <2>3, <2>7
    <2> QED
      BY <1>12, <2>4, <2>5, <2>8
  <1>15. ASSUME NEW x \in Procs, NEW y \in Procs, NEW j \in 1 .. Len(c[x][y]),
                c[x][y][j].type = "ACK", GetShardId(x) = s
         PROVE  FALSE
    <2>1. PICK n \in 1 .. Len(chan[x][y]) : c[x][y][j] = chan[x][y][n]
      BY <1>13
    <2>2. chan[x][y][n] \in Carries(x, y)
      BY <2>1, ElementOfSeq DEF KindInv, Kinds
    <2>3. x # Parent /\ y = Parent
      BY <1>15, <2>1, <2>2 DEF Carries
    <2>4. x \in Accounts
      BY <2>3 DEF Procs, Accounts, Parent
    <2>5. Answered(x)
      BY <1>10, <1>15, <2>1, <2>3, <2>4 DEF LocalInv, AnswersInv, AnswersIn
    <2>6. PICK k \in Orders : Dst(k) = x /\ Held(k)
      BY <2>5 DEF Answered
    <2>7. GetShardId(Src(k)) = s
      BY <1>15, <2>6 DEF LocalWorkload, IsLocal
    <2>8. k = i
      BY <1>11, <2>6, <2>7
    <2>9. Len(chan[x][y]) = 0
      BY <1>12, <2>3, <2>6, <2>8 DEF Replies
    <2> QED
      BY <2>1, <2>9
  <1>16. Clear(c, s)
    BY <1>14, <1>15 DEF Clear
  <1> QED
    BY <1>3, <1>4, <1>5, <1>6, <1>10, <1>16 DEF i, s

-----------------------------------------------------------------------------
(***************************************************************************)
(* The invariant of the histories.  The last entry of an account is that   *)
(* of a time its own clock has reached.  While the worker of a shard waits *)
(* for no ACK, the parent's clock has reached those times too, and a stamp *)
(* it has drawn is later: what it sends next finds them in the past.       *)
(***************************************************************************)
\* The times of the last entries.
Newest(h) == [a \in Accounts |-> h[a].s_history_len - 1]

\* The entries of shard s are not later than t, and earlier than stamp d.
Behind(s, v, t, d) ==
  \A a \in Accounts : GetShardId(a) = s =>
    v[a] <= t /\ (d # NoStamp => v[a] < d)

PlacesInv ==
  /\ history \in [Accounts -> Histories]
  /\ \A a \in Accounts : /\ InPlace(history[a], Newest(history)[a])
                         /\ Newest(history)[a] <= clock[a]

ValuesInv == \A a \in Accounts : NowBalance(history[a]) = ToBalance(balance[a])

IdleInv ==
  \A s \in Shards : worker_pc[s] # "local_ack" =>
    Behind(s, Newest(history), clock[Parent], drawn[s])

HistoryInv ==
  /\ PlacesInv
  /\ ValuesInv
  /\ IdleInv
  /\ Timely(chan, stamps, Newest(history))

\* The bound: no account's clock has reached the length of the buffer.
InTime == \A a \in Accounts : clock[a] < MAX_T

\* Clocks never go back.
Onward == \A p \in Procs : clock[p] \in Nat /\ clock'[p] \in Nat /\ clock[p] <= clock'[p]

LEMMA OnwardTo ==
  ASSUME StampInv, NEW p \in Procs, NEW t \in Nat, clock[p] <= t,
         clock' = [clock EXCEPT ![p] = t]
  PROVE  Onward
  <1>1. clock \in [Procs -> Nat]
    BY DEF StampInv, Stamped
  <1> QED
    BY <1>1 DEF Onward

LEMMA OnwardSame ==
  ASSUME StampInv, clock' = clock
  PROVE  Onward
  <1>1. clock \in [Procs -> Nat]
    BY DEF StampInv, Stamped
  <1> QED
    BY <1>1 DEF Onward

LEMMA OnwardTick ==
  ASSUME StampInv, NEW p \in Procs, Tick(p)
  PROVE  Onward
  <1>1. clock \in [Procs -> Nat] /\ clock[p] \in Nat
    BY DEF StampInv, Stamped
  <1> DEFINE t == UpdateTime(clock[p], 0)
  <1>2. t \in Nat /\ clock[p] < t
    BY <1>1, UpdateFacts
  <1>3. clock' = [clock EXCEPT ![p] = t]
    BY DEF Tick
  <1> HIDE DEF t
  <1>4. clock[p] <= t
    BY <1>1, <1>2
  <1> QED
    BY <1>2, <1>3, <1>4, OnwardTo

LEMMA OnwardTickAt ==
  ASSUME StampInv, NEW p \in Procs, NEW q \in Procs, HasMessage(q, p),
         TickAt(p, Stamp(q, p))
  PROVE  /\ Onward
         /\ Stamp(q, p) \in Nat
         /\ Stamp(q, p) < clock'[p]
  <1>1. clock \in [Procs -> Nat] /\ clock[p] \in Nat
    BY DEF StampInv, Stamped
  <1>2. Stamp(q, p) \in Nat
    BY ReceiveStamped DEF StampInv, HasMessage, Stamp
  <1> DEFINE t == UpdateTime(clock[p], Stamp(q, p))
  <1>3. t \in Nat /\ clock[p] < t /\ Stamp(q, p) < t
    BY <1>1, <1>2, UpdateFacts
  <1>4. clock' = [clock EXCEPT ![p] = t] /\ clock'[p] = t
    BY <1>1 DEF TickAt
  <1> HIDE DEF t
  <1>5. clock[p] <= t
    BY <1>1, <1>3
  <1> QED
    BY <1>2, <1>3, <1>4, <1>5, OnwardTo

\* A step that writes nothing into a history.
LEMMA HistoryKept ==
  ASSUME HistoryInv, Onward, UNCHANGED <<history, balance>>,
         Timely(chan', stamps', Newest(history)),
         \A s \in Shards : worker_pc'[s] # "local_ack" =>
           \/ worker_pc[s] # "local_ack" /\ drawn'[s] = drawn[s]
           \/ Behind(s, Newest(history), clock'[Parent], drawn'[s])
  PROVE  HistoryInv'
  <1>0. \A a \in Accounts : a \in Procs
    BY ProcFacts
  <1>1. Newest(history)' = Newest(history)
    BY DEF Newest
  <1>2. \A a \in Accounts : Newest(history)[a] \in Nat
    BY DEF HistoryInv, PlacesInv, InPlace
  <1>3. PlacesInv'
    <2>1. ASSUME NEW a \in Accounts
          PROVE  /\ InPlace(history[a], Newest(history)[a])
                 /\ Newest(history)[a] <= clock'[a]
      <3>1. /\ InPlace(history[a], Newest(history)[a])
            /\ Newest(history)[a] <= clock[a]
        BY DEF HistoryInv, PlacesInv
      <3>2. clock[a] <= clock'[a] /\ clock[a] \in Nat /\ clock'[a] \in Nat
        BY <1>0 DEF Onward
      <3> QED
        BY <1>2, <3>1, <3>2
    <2> QED
      BY <1>1, <2>1 DEF HistoryInv, PlacesInv
  <1>4. ValuesInv'
    BY DEF HistoryInv, ValuesInv
  <1>5. ASSUME NEW s \in Shards, worker_pc'[s] # "local_ack"
        PROVE  Behind(s, Newest(history), clock'[Parent], drawn'[s])
    <2>1. CASE worker_pc[s] # "local_ack" /\ drawn'[s] = drawn[s]
      <3>1. Behind(s, Newest(history), clock[Parent], drawn[s])
        BY <2>1 DEF HistoryInv, IdleInv
      <3>2. /\ clock[Parent] <= clock'[Parent]
            /\ clock[Parent] \in Nat /\ clock'[Parent] \in Nat
        BY ProcFacts DEF Onward
      <3> QED
        BY <1>2, <2>1, <3>1, <3>2 DEF Behind
    <2> QED
      BY <1>5, <2>1
  <1>6. IdleInv'
    BY <1>1, <1>5 DEF IdleInv
  <1> QED
    BY <1>1, <1>3, <1>4, <1>6 DEF HistoryInv

\* The account that handles a TRANSFER writes its history up to its clock while
\* the worker of its shard waits.
LEMMA HistoryWritten ==
  ASSUME HistoryInv, Onward, NEW a \in Accounts, NEW g, NEW current,
         history' = [history EXCEPT ![a] = g],
         InPlace(g, current), current = clock'[a],
         NowBalance(g) = ToBalance(balance'[a]),
         \A b \in Accounts : b # a => balance'[b] = balance[b],
         worker_pc[GetShardId(a)] = "local_ack", UNCHANGED <<worker_pc, drawn>>,
         Timely(chan', stamps', [Newest(history) EXCEPT ![a] = current])
  PROVE  HistoryInv' /\ Newest(history') = [Newest(history) EXCEPT ![a] = current]
  <1> DEFINE v == Newest(history)
             w == [v EXCEPT ![a] = current]
  <1>0. \A b \in Accounts : b \in Procs
    BY ProcFacts
  <1>1. /\ history' \in [Accounts -> Histories]
        /\ history'[a] = g
        /\ \A b \in Accounts : b # a => history'[b] = history[b]
        /\ g \in Histories /\ g.s_history_len = current + 1 /\ current \in Nat
    BY DEF HistoryInv, PlacesInv, InPlace
  <1>2. /\ v \in [Accounts -> Nat]
        /\ \A b \in Accounts : InPlace(history[b], v[b]) /\ v[b] <= clock[b]
    <2>1. \A b \in Accounts : InPlace(history[b], v[b]) /\ v[b] <= clock[b]
      BY DEF HistoryInv, PlacesInv
    <2>2. \A b \in Accounts : v[b] \in Nat
      BY <2>1 DEF InPlace
    <2>3. v = [b \in Accounts |-> history[b].s_history_len - 1]
      BY DEF Newest
    <2> HIDE DEF v
    <2> QED
      BY <2>1, <2>2, <2>3
  <1>3. Newest(history') = w
    <2>1. \A b \in Accounts : history'[b].s_history_len - 1 = w[b]
      <3> TAKE b \in Accounts
      <3>1. CASE b = a
        BY <1>1, <1>2, <3>1
      <3>2. CASE b # a
        <4>1. v[b] = history[b].s_history_len - 1
          BY DEF Newest
        <4> HIDE DEF v
        <4> QED
          BY <1>1, <1>2, <3>2, <4>1
      <3> QED
        BY <3>1, <3>2
    <2>2. w = [b \in Accounts |-> w[b]]
      BY <1>2
    <2> HIDE DEF w
    <2> QED
      BY <2>1, <2>2 DEF Newest
  <1>4. /\ w[a] = current
        /\ \A b \in Accounts : b # a => w[b] = v[b]
    BY <1>2
  <1> HIDE DEF v, w
  <1>5. ASSUME NEW b \in Accounts
        PROVE  /\ InPlace(history'[b], w[b]) /\ w[b] <= clock'[b]
               /\ NowBalance(history'[b]) = ToBalance(balance'[b])
    <2>1. CASE b = a
      <3>1. InPlace(history'[b], w[b]) /\ NowBalance(history'[b]) = ToBalance(balance'[b])
        BY <1>1, <1>4, <2>1
      <3>2. w[b] = clock'[b] /\ clock'[b] \in Nat
        BY <1>0, <1>4, <2>1 DEF Onward
      <3> QED
        BY <3>1, <3>2
    <2>2. CASE b # a
      <3>1. /\ InPlace(history'[b], w[b])
            /\ NowBalance(history'[b]) = ToBalance(balance'[b])
        BY <1>1, <1>2, <1>4, <2>2 DEF HistoryInv, ValuesInv
      <3>2. /\ w[b] <= clock[b] /\ w[b] \in Nat
            /\ clock[b] <= clock'[b] /\ clock[b] \in Nat /\ clock'[b] \in Nat
        BY <1>0, <1>2, <1>4, <2>2 DEF Onward
      <3> QED
        BY <3>1, <3>2
    <2> QED
      BY <2>1, <2>2
  <1>6. PlacesInv' /\ ValuesInv'
    BY <1>1, <1>3, <1>5 DEF PlacesInv, ValuesInv
  <1>7. ASSUME NEW s \in Shards, worker_pc'[s] # "local_ack"
        PROVE  Behind(s, w, clock'[Parent], drawn'[s])
    <2>1. worker_pc[s] # "local_ack" /\ s # GetShardId(a)
      BY <1>7
    <2>2. Behind(s, v, clock[Parent], drawn[s])
      BY <2>1 DEF HistoryInv, IdleInv, v
    <2>3. \A b \in Accounts : GetShardId(b) = s => w[b] = v[b] /\ v[b] \in Nat
      BY <1>2, <1>4, <2>1
    <2>4. /\ clock[Parent] <= clock'[Parent]
          /\ clock[Parent] \in Nat /\ clock'[Parent] \in Nat
      BY ProcFacts DEF Onward
    <2> QED
      BY <2>2, <2>3, <2>4 DEF Behind
  <1>8. IdleInv'
    BY <1>3, <1>7 DEF IdleInv
  <1>9. Timely(chan', stamps', w)
    BY DEF v, w
  <1>10. HistoryInv'
    BY <1>3, <1>6, <1>8, <1>9 DEF HistoryInv
  <1> QED
    BY <1>3, <1>10 DEF v, w

\* The TRANSFER or the ACK that the account then sends is not earlier than the
\* entries of its shard.
LEMMA TransferTimely ==
  ASSUME StampInv, NEW a \in Accounts, NEW p \in Procs, HasMessage(p, a),
         Clear(Receive(chan, p, a), GetShardId(a)),
         NEW v \in [Accounts -> Nat], Timely(chan, stamps, v),
         NEW d \in Procs, NEW m \in Message, NEW current \in Nat,
         \A b \in Accounts : GetShardId(b) = GetShardId(a) => v[b] < current,
         m.type = "TRANSFER" => GetShardId(Src(m.val)) = GetShardId(a)
  PROVE  Timely(Send(Receive(chan, p, a), a, d, m),
                Send(Receive(stamps, p, a), a, d, current),
                [v EXCEPT ![a] = current])
  <1> DEFINE w == [v EXCEPT ![a] = current]
             c == Receive(chan, p, a)
             st == Receive(stamps, p, a)
  <1>1. a \in Procs /\ Stamped(chan, stamps, clock) /\ chan[p][a] # << >>
    BY ProcFacts DEF StampInv, HasMessage
  <1>2. Stamped(c, st, clock)
    BY <1>1, ReceiveStamped
  <1>3. Timely(c, st, v)
    BY <1>1, TimelyReceive
  <1>4. \A b \in Accounts : w[b] = v[b] \/ Clear(c, GetShardId(b))
    OBVIOUS
  <1>5. w[a] = current /\ \A b \in Accounts : b # a => w[b] = v[b]
    OBVIOUS
  <1> HIDE DEF w, c, st
  <1>6. Timely(c, st, w)
    BY <1>3, <1>4, TimelyRaise
  <1>7. ASSUME NEW b \in Accounts
        PROVE  Ahead(m, current, a, b, w[b])
    <2>1. GetShardId(b) = GetShardId(a) =>
            w[b] <= current /\ (IF b = a THEN w[b] = current ELSE w[b] < current)
      <3>1. CASE b = a
        BY <1>5, <3>1
      <3>2. CASE b # a
        <4>1. w[b] = v[b] /\ v[b] \in Nat
          BY <1>5, <3>2
        <4>2. GetShardId(b) = GetShardId(a) => w[b] <= current /\ w[b] < current
          BY <4>1
        <4> QED
          BY <3>2, <4>2
      <3> QED
        BY <3>1, <3>2
    <2> QED
      BY <2>1 DEF Ahead
  <1>8. Timely(Send(c, a, d, m), Send(st, a, d, current), w)
    BY <1>1, <1>2, <1>6, <1>7, TimelySend
  <1> QED
    BY <1>8 DEF w, c, st

\* When a TRANSFER is received, the entries of its shard are those of earlier
\* times, but for the sender's.
LEMMA TransferStamps ==
  ASSUME LocalWorkload, IInv, KindInv, LocalInv, StampInv, HistoryInv,
         NEW a \in Accounts, NEW p \in Procs \ {a}, HasMessage(p, a),
         Oldest(p, a).type = "TRANSFER"
  PROVE  /\ Stamp(p, a) \in Nat
         /\ Newest(history) \in [Accounts -> Nat]
         /\ \A b \in Accounts : GetShardId(b) = GetShardId(a) =>
              IF b = p THEN Newest(history)[b] = Stamp(p, a)
                       ELSE Newest(history)[b] < Stamp(p, a)
         /\ \A t \in {UpdateTime(Received(a, p), 0), ReceivedAgain(a, p)} :
              t \in Nat /\ clock[a] <= t /\ Stamp(p, a) < t
  <1>1. /\ a \in Procs /\ Stamped(chan, stamps, clock) /\ chan[p][a] # << >>
        /\ clock[a] \in Nat
    BY ProcFacts DEF StampInv, HasMessage, Stamped
  <1>2. \A b \in Accounts : Newest(history)[b] \in Nat
    BY DEF HistoryInv, PlacesInv, InPlace
  <1>3. Newest(history) \in [Accounts -> Nat]
    BY <1>2 DEF Newest
  <1> DEFINE v == Newest(history)
  <1> HIDE DEF v
  <1>4. /\ \A b \in Accounts : Ahead(Oldest(p, a), Stamp(p, a), p, b, v[b])
        /\ Stamp(p, a) \in Nat
    <2>1. Timely(chan, stamps, v)
      BY DEF HistoryInv, v
    <2>2. /\ \A b \in Accounts : Ahead(Head(chan[p][a]), Head(stamps[p][a]), p, b, v[b])
          /\ Head(stamps[p][a]) \in Nat
      BY <1>1, <2>1, TimelyReceive
    <2> QED
      BY <2>2 DEF Oldest, Stamp
  <1>5. GetShardId(Src(Oldest(p, a).val)) = GetShardId(a)
    BY OnlyTransfer
  <1>6. \A b \in Accounts : GetShardId(b) = GetShardId(a) =>
          IF b = p THEN v[b] = Stamp(p, a) ELSE v[b] < Stamp(p, a)
    BY <1>4, <1>5 DEF Ahead
  <1>7. /\ Received(a, p) \in Nat /\ clock[a] < Received(a, p)
        /\ Stamp(p, a) < Received(a, p)
    BY <1>1, <1>4, UpdateFacts DEF Received
  <1>8. /\ UpdateTime(Received(a, p), 0) \in Nat
        /\ Received(a, p) < UpdateTime(Received(a, p), 0)
        /\ ReceivedAgain(a, p) \in Nat
        /\ Received(a, p) < ReceivedAgain(a, p)
    BY <1>4, <1>7, UpdateFacts DEF ReceivedAgain
  <1>9. /\ clock[a] <= UpdateTime(Received(a, p), 0)
        /\ Stamp(p, a) < UpdateTime(Received(a, p), 0)
        /\ clock[a] <= ReceivedAgain(a, p)
        /\ Stamp(p, a) < ReceivedAgain(a, p)
    BY <1>1, <1>4, <1>7, <1>8
  <1> QED
    BY <1>3, <1>4, <1>6, <1>8, <1>9 DEF v

\* The source writes the debit, and nothing is pending for it.
LEMMA SourceWrites ==
  ASSUME LocalWorkload, IInv, KindInv, LocalInv, StampInv, HistoryInv, InTime',
         NEW a \in Accounts, NEW p \in Procs \ {a}, StampedAsSource(a, p),
         UNCHANGED worker_pc
  PROVE  LET i == Oldest(p, a).val
             v == Newest(history)
             current == UpdateTime(Received(a, p), 0) IN
         /\ i \in Orders /\ a = Src(i)
         /\ v[a] < current
         /\ clock'[a] = current /\ current < MAX_T
         /\ history' = [history EXCEPT ![a] = history'[a]]
         /\ Extends(history'[a], history[a], v[a], current, current,
                    NowBalance(history[a]) - Amount(i), 0)
         /\ Newest(history') = [v EXCEPT ![a] = current]
         /\ HistoryInv'
  <1> DEFINE i == Oldest(p, a).val
             v == Newest(history)
             h == history[a]
             u == Stamp(p, a)
             current == UpdateTime(Received(a, p), 0)
             g == UpdateHistory(h, current, current, NowBalance(h) - Amount(i), 0)
             m == Msg("TRANSFER", i)
  <1>1. /\ HasMessage(p, a) /\ Oldest(p, a).type = "TRANSFER"
        /\ Src(i) = a
        /\ balance' = [balance EXCEPT ![a] = @ - Amount(i)]
        /\ chan' = Send(Receive(chan, p, a), a, Dst(i), m)
        /\ clock' = [clock EXCEPT ![a] = current]
        /\ history' = [history EXCEPT ![a] = g]
        /\ stamps' = Send(Receive(stamps, p, a), a, Dst(i), current)
        /\ UNCHANGED drawn
    BY DEF StampedAsSource, HandleTransferAsSource, ReceivedInLoop
  <1>2. /\ i \in Orders /\ Amount(i) \in Int /\ Dst(i) \in Procs
        /\ GetShardId(Src(i)) = GetShardId(a)
        /\ worker_pc[GetShardId(a)] = "local_ack"
        /\ Clear(Receive(chan, p, a), GetShardId(a))
    <2>1. HasMessage(p, a) /\ Oldest(p, a).type = "TRANSFER"
      BY <1>1
    <2>2. /\ i \in Orders /\ Dst(i) \in Accounts /\ Amount(i) \in Nat
          /\ GetShardId(Src(i)) = GetShardId(a)
          /\ worker_pc[GetShardId(a)] = "local_ack"
          /\ Clear(Receive(chan, p, a), GetShardId(a))
      BY <2>1, OnlyTransfer
    <2> HIDE DEF i
    <2>3. Dst(i) \in Procs
      BY <2>2, ProcFacts
    <2>4. Amount(i) \in Int
      BY <2>2
    <2> QED
      BY <2>2, <2>3, <2>4
  <1>3. /\ u \in Nat /\ v \in [Accounts -> Nat]
        /\ current \in Nat /\ clock[a] <= current
        /\ \A b \in Accounts : GetShardId(b) = GetShardId(a) => v[b] < current
    <2>1. /\ u \in Nat /\ v \in [Accounts -> Nat]
          /\ \A b \in Accounts : GetShardId(b) = GetShardId(a) =>
               IF b = p THEN v[b] = u ELSE v[b] < u
          /\ current \in Nat /\ clock[a] <= current /\ u < current
      BY <1>1, TransferStamps
    <2>2. \A b \in Accounts : v[b] \in Nat
      BY <2>1
    <2> HIDE DEF u, v, current
    <2> QED
      BY <2>1, <2>2
  <1>4. a \in Procs /\ clock \in [Procs -> Nat]
    BY ProcFacts DEF StampInv, Stamped
  <1>5. Onward /\ clock'[a] = current
    <2> HIDE DEF current
    <2> QED
      BY <1>1, <1>3, <1>4, OnwardTo
  <1>6. current < MAX_T
    BY <1>5 DEF InTime
  <1>7. /\ InPlace(h, v[a]) /\ NowBalance(h) \in Int
        /\ NowBalance(h) = ToBalance(balance[a])
        /\ balance[a] \in Int /\ balance \in [Accounts -> Int]
        /\ history \in [Accounts -> Histories]
    <2>1. InPlace(h, v[a]) /\ NowBalance(h) = ToBalance(balance[a])
      BY DEF HistoryInv, PlacesInv, ValuesInv
    <2>2. balance \in [Accounts -> Int] /\ history \in [Accounts -> Histories]
      BY DEF IInv, TypeOK, ChildTypeOK, HistoryInv, PlacesInv
    <2> HIDE DEF h, v
    <2>3. NowBalance(h) \in Int
      BY <2>1, LastInPlace
    <2> QED
      BY <2>1, <2>2, <2>3
  <1> HIDE DEF i, v, h, u, current, m
  <1>8. Extends(g, h, v[a], current, current, NowBalance(h) - Amount(i), 0)
    <2>1. /\ v[a] < current /\ current <= current
          /\ NowBalance(h) - Amount(i) \in Int /\ 0 \in Int
      BY <1>2, <1>3, <1>7
    <2> QED
      BY <1>3, <1>6, <1>7, <2>1, HistoryUpdate
  <1>9. history'[a] = g /\ history' = [history EXCEPT ![a] = history'[a]]
    BY <1>1, <1>7
  <1>10. NowBalance(g) = ToBalance(balance'[a])
    <2>1. NowBalance(g) = ToBalance(NowBalance(h) - Amount(i))
      BY <1>8 DEF Extends
    <2>2. ToBalance(ToBalance(balance[a]) + (0 - Amount(i)))
            = ToBalance(balance[a] + (0 - Amount(i)))
      <3>1. 0 - Amount(i) \in Int
        BY <1>2
      <3> QED
        BY <1>7, <3>1, BalanceFacts
    <2>3. /\ NowBalance(h) - Amount(i) = ToBalance(balance[a]) + (0 - Amount(i))
          /\ balance'[a] = balance[a] + (0 - Amount(i))
      BY <1>1, <1>2, <1>7
    <2> QED
      BY <2>1, <2>2, <2>3
  <1>11. Timely(chan', stamps', [v EXCEPT ![a] = current])
    <2>1. Timely(chan, stamps, v)
      BY DEF HistoryInv, v
    <2>2. m \in Message /\ m.val = i
      BY <1>2, MessageFacts DEF m, Msg
    <2> QED
      BY <1>1, <1>2, <1>3, <2>1, <2>2, TransferTimely
  <1>12. \A b \in Accounts : b # a => balance'[b] = balance[b]
    BY <1>1
  <1>13. InPlace(g, current)
    BY <1>8 DEF Extends
  <1>14. HistoryInv' /\ Newest(history') = [v EXCEPT ![a] = current]
    <2> HIDE DEF g
    <2>1. /\ worker_pc[GetShardId(a)] = "local_ack" /\ Onward
          /\ history' = [history EXCEPT ![a] = g] /\ current = clock'[a]
          /\ UNCHANGED <<worker_pc, drawn>>
          /\ Timely(chan', stamps', [Newest(history) EXCEPT ![a] = current])
      BY <1>1, <1>2, <1>5, <1>11 DEF v
    <2> QED
      BY <1>10, <1>12, <1>13, <2>1, HistoryWritten DEF v
  <1>15. v[a] < current
    BY <1>3
  <1>16. Extends(history'[a], h, v[a], current, current, NowBalance(h) - Amount(i), 0)
    BY <1>8, <1>9
  <1> HIDE DEF g
  <1> QED
    BY <1>1, <1>2, <1>5, <1>6, <1>9, <1>14, <1>15, <1>16 DEF i, v, h, current

\* The destination writes the credit; from the stamp of the debit on it is
\* pending.
LEMMA DestinationWrites ==
  ASSUME LocalWorkload, IInv, KindInv, LocalInv, StampInv, HistoryInv, InTime',
         NEW a \in Accounts, NEW p \in Procs \ {a}, StampedAsDestination(a, p),
         UNCHANGED worker_pc
  PROVE  LET i == Oldest(p, a).val
             v == Newest(history)
             u == Stamp(p, a)
             current == ReceivedAgain(a, p) IN
         /\ i \in Orders /\ a = Dst(i) /\ p = Src(i)
         /\ u \in Nat /\ v[a] < u /\ u < current /\ v[p] = u
         /\ clock'[a] = current /\ current < MAX_T
         /\ history' = [history EXCEPT ![a] = history'[a]]
         /\ Extends(history'[a], history[a], v[a], u, current,
                    NowBalance(history[a]) + Amount(i), Amount(i))
         /\ Newest(history') = [v EXCEPT ![a] = current]
         /\ HistoryInv'
  <1> DEFINE i == Oldest(p, a).val
             v == Newest(history)
             h == history[a]
             u == Stamp(p, a)
             current == ReceivedAgain(a, p)
             g == UpdateHistory(h, u, current, NowBalance(h) + Amount(i), Amount(i))
             m == Msg("ACK", 0)
  <1>1. /\ HasMessage(p, a) /\ Oldest(p, a).type = "TRANSFER"
        /\ Src(i) # a /\ Dst(i) = a
        /\ balance' = [balance EXCEPT ![a] = @ + Amount(i)]
        /\ chan' = Send(Receive(chan, p, a), a, Parent, m)
        /\ clock' = [clock EXCEPT ![a] = current]
        /\ history' = [history EXCEPT ![a] = g]
        /\ stamps' = Send(Receive(stamps, p, a), a, Parent, current)
        /\ UNCHANGED drawn
    BY DEF StampedAsDestination, HandleTransferAsDestination, ReceivedInLoop
  <1>2. /\ i \in Orders /\ Amount(i) \in Int /\ p = Src(i)
        /\ p \in Accounts /\ GetShardId(p) = GetShardId(a)
        /\ Parent \in Procs
        /\ worker_pc[GetShardId(a)] = "local_ack"
        /\ Clear(Receive(chan, p, a), GetShardId(a))
    <2>1. HasMessage(p, a) /\ Oldest(p, a).type = "TRANSFER"
      BY <1>1
    <2>2. /\ i \in Orders /\ Amount(i) \in Nat
          /\ Src(i) \in Accounts /\ GetShardId(Src(i)) = GetShardId(a)
          /\ (p = Parent /\ a = Src(i)) \/ (p = Src(i) /\ a = Dst(i))
          /\ worker_pc[GetShardId(a)] = "local_ack"
          /\ Clear(Receive(chan, p, a), GetShardId(a))
      BY <2>1, OnlyTransfer
    <2> HIDE DEF i
    <2>3. Parent \in Procs /\ p = Src(i)
      BY <1>1, <2>2, ProcFacts
    <2>4. Amount(i) \in Int
      BY <2>2
    <2> QED
      BY <2>2, <2>3, <2>4
  <1>3. /\ u \in Nat /\ v \in [Accounts -> Nat]
        /\ current \in Nat /\ clock[a] <= current
        /\ \A b \in Accounts : GetShardId(b) = GetShardId(a) => v[b] < current
        /\ v[a] < u /\ u < current /\ v[p] = u
    <2>1. /\ u \in Nat /\ v \in [Accounts -> Nat]
          /\ \A b \in Accounts : GetShardId(b) = GetShardId(a) =>
               IF b = p THEN v[b] = u ELSE v[b] < u
          /\ current \in Nat /\ clock[a] <= current /\ u < current
      BY <1>1, TransferStamps
    <2>2. \A b \in Accounts : v[b] \in Nat
      BY <2>1
    <2> HIDE DEF u, v, current
    <2>3. v[p] = u /\ v[a] < u
      BY <1>2, <2>1
    <2>4. \A b \in Accounts : GetShardId(b) = GetShardId(a) => v[b] < current
      BY <2>1, <2>2
    <2> QED
      BY <2>1, <2>3, <2>4
  <1>4. a \in Procs /\ clock \in [Procs -> Nat]
    BY ProcFacts DEF StampInv, Stamped
  <1>5. Onward /\ clock'[a] = current
    <2> HIDE DEF current
    <2> QED
      BY <1>1, <1>3, <1>4, OnwardTo
  <1>6. current < MAX_T
    BY <1>5 DEF InTime
  <1>7. /\ InPlace(h, v[a]) /\ NowBalance(h) \in Int
        /\ NowBalance(h) = ToBalance(balance[a])
        /\ balance[a] \in Int /\ balance \in [Accounts -> Int]
        /\ history \in [Accounts -> Histories]
    <2>1. InPlace(h, v[a]) /\ NowBalance(h) = ToBalance(balance[a])
      BY DEF HistoryInv, PlacesInv, ValuesInv
    <2>2. balance \in [Accounts -> Int] /\ history \in [Accounts -> Histories]
      BY DEF IInv, TypeOK, ChildTypeOK, HistoryInv, PlacesInv
    <2> HIDE DEF h, v
    <2>3. NowBalance(h) \in Int
      BY <2>1, LastInPlace
    <2> QED
      BY <2>1, <2>2, <2>3
  <1> HIDE DEF i, v, h, u, current, m
  <1>8. Extends(g, h, v[a], u, current, NowBalance(h) + Amount(i), Amount(i))
    <2>1. /\ v[a] < u /\ u <= current
          /\ NowBalance(h) + Amount(i) \in Int /\ Amount(i) \in Int
      BY <1>2, <1>3, <1>7
    <2> QED
      BY <1>3, <1>6, <1>7, <2>1, HistoryUpdate
  <1>9. history'[a] = g /\ history' = [history EXCEPT ![a] = history'[a]]
    BY <1>1, <1>7
  <1>10. NowBalance(g) = ToBalance(balance'[a])
    <2>1. NowBalance(g) = ToBalance(NowBalance(h) + Amount(i))
      BY <1>8 DEF Extends
    <2>2. ToBalance(ToBalance(balance[a]) + Amount(i))
            = ToBalance(balance[a] + Amount(i))
      BY <1>2, <1>7, BalanceFacts
    <2>3. /\ NowBalance(h) + Amount(i) = ToBalance(balance[a]) + Amount(i)
          /\ balance'[a] = balance[a] + Amount(i)
      BY <1>1, <1>2, <1>7
    <2> QED
      BY <2>1, <2>2, <2>3
  <1>11. Timely(chan', stamps', [v EXCEPT ![a] = current])
    <2>1. Timely(chan, stamps, v)
      BY DEF HistoryInv, v
    <2>2. m \in Message /\ m.type # "TRANSFER"
      BY MessageFacts DEF m, Msg
    <2> QED
      BY <1>1, <1>2, <1>3, <2>1, <2>2, TransferTimely
  <1>12. \A b \in Accounts : b # a => balance'[b] = balance[b]
    BY <1>1
  <1>13. InPlace(g, current)
    BY <1>8 DEF Extends
  <1>14. HistoryInv' /\ Newest(history') = [v EXCEPT ![a] = current]
    <2> HIDE DEF g
    <2>1. /\ worker_pc[GetShardId(a)] = "local_ack" /\ Onward
          /\ history' = [history EXCEPT ![a] = g] /\ current = clock'[a]
          /\ UNCHANGED <<worker_pc, drawn>>
          /\ Timely(chan', stamps', [Newest(history) EXCEPT ![a] = current])
      BY <1>1, <1>2, <1>5, <1>11 DEF v
    <2> QED
      BY <1>10, <1>12, <1>13, <2>1, HistoryWritten DEF v
  <1>15. u \in Nat /\ v[a] < u /\ u < current /\ v[p] = u
    BY <1>3
  <1>16. Extends(history'[a], h, v[a], u, current, NowBalance(h) + Amount(i), Amount(i))
    BY <1>8, <1>9
  <1> HIDE DEF g
  <1> QED
    BY <1>1, <1>2, <1>5, <1>6, <1>9, <1>14, <1>15, <1>16
    DEF i, v, h, u, current

LEMMA OnwardAccount ==
  ASSUME IInv, StampInv, NEW a \in Accounts, StampedAccount(a)
  PROVE  Onward
  <1>0. a \in Procs /\ clock[a] \in Nat
    BY ProcFacts DEF StampInv, Stamped
  <1>1. CASE StampedSendStarted(a) \/ StampedSendHistory(a)
    BY <1>0, <1>1, OnwardTick DEF StampedSendStarted, StampedSendHistory
  <1>2. CASE StampedWaitStarted(a)
    <2>1. peer[a] \in Procs
      BY <1>2, ProcFacts
      DEF StampedWaitStarted, WaitStarted, IInv, TypeOK, ChildTypeOK
    <2> QED
      BY <1>0, <1>2, <2>1, OnwardTickAt DEF StampedWaitStarted, WaitStarted
  <1>3. ASSUME NEW p \in Procs \ {a}, StampedReceive(a, p)
        PROVE  Onward
    BY <1>0, <1>3, OnwardTickAt DEF StampedReceive, HandleOther, WaitAllDone
  <1>4. ASSUME NEW p \in Procs \ {a},
               \/ StampedAsSource(a, p)
               \/ StampedAsDestination(a, p)
               \/ StampedStop(a, p)
        PROVE  Onward
    <2>1. HasMessage(p, a)
      BY <1>4 DEF StampedAsSource, StampedAsDestination, StampedStop,
                  HandleTransferAsSource, HandleTransferAsDestination, HandleStop,
                  ReceivedInLoop
    <2>2. Stamp(p, a) \in Nat
      BY <1>0, <2>1, ReceiveStamped DEF StampInv, HasMessage, Stamp
    <2>3. Received(a, p) \in Nat /\ clock[a] < Received(a, p)
      BY <1>0, <2>2, UpdateFacts DEF Received
    <2>4. /\ UpdateTime(Received(a, p), 0) \in Nat
          /\ Received(a, p) < UpdateTime(Received(a, p), 0)
          /\ ReceivedAgain(a, p) \in Nat
          /\ Received(a, p) < ReceivedAgain(a, p)
      BY <2>2, <2>3, UpdateFacts DEF ReceivedAgain
    <2>5. \A t \in {UpdateTime(Received(a, p), 0), ReceivedAgain(a, p)} :
            t \in Nat /\ clock[a] <= t
      BY <1>0, <2>3, <2>4
    <2>6. PICK t \in {UpdateTime(Received(a, p), 0), ReceivedAgain(a, p)} :
            clock' = [clock EXCEPT ![a] = t]
      BY <1>4 DEF StampedAsSource, StampedAsDestination, StampedStop
    <2> QED
      BY <1>0, <2>5, <2>6, OnwardTo
  <1> QED
    BY <1>1, <1>2, <1>3, <1>4 DEF StampedAccount, StampedChild

\* Only a worker that waits for an ACK, or the main thread, receives for the
\* parent.
LEMMA OnwardWorker ==
  ASSUME IInv, StampInv, NEW s \in Shards, StampedWorker(s)
  PROVE  Onward
  <1>1. CASE StampedSend(s) \/ Unstamped(s)
    <2>1. clock' = clock
      BY <1>1 DEF StampedSend, SendDrawn, Unstamped, stampVars
    <2> QED
      BY <2>1, OnwardSame
  <1>2. CASE StampedAck(s)
    <2>1. /\ HasMessage(Dst(task[s].order), Parent)
          /\ TickAt(Parent, Stamp(Dst(task[s].order), Parent))
          /\ worker_pc[s] \in {"local_ack", "step2_ack"}
      BY <1>2 DEF StampedAck, LocalAck, Step2Ack, ParentReceives, WorkerAt
    <2>2. Dst(task[s].order) \in Procs
      BY <2>1, TaskFacts, OrderFacts, ProcFacts DEF IInv, Routed, WorkerRouted
    <2> QED
      BY <2>1, <2>2, ProcFacts, OnwardTickAt
  <1> QED
    BY <1>1, <1>2 DEF StampedWorker, StampedWorkerStep

LEMMA CursorReceives ==
  ASSUME IInv, Phase1WaitStartup \/ Phase3WaitDone \/ Phase4CollectHistory
  PROVE  /\ cursor \in Accounts /\ cursor \in Procs
         /\ HasMessage(cursor, Parent)
         /\ chan' = Receive(chan, cursor, Parent)
         /\ UNCHANGED worker_pc
  <1>1. cursor \in Accounts
    BY DEF Phase1WaitStartup, Phase3WaitDone, Phase4CollectHistory, MainAt,
           IInv, TypeOK, MainTypeOK, CursorRange
  <1>2. /\ HasMessage(cursor, Parent)
        /\ chan' = Receive(chan, cursor, Parent)
        /\ UNCHANGED worker_pc
    BY DEF Phase1WaitStartup, Phase3WaitDone, Phase4CollectHistory, ReceiveNext,
           poolVars
  <1> QED
    BY <1>1, <1>2, ProcFacts

LEMMA OnwardStep ==
  ASSUME IInv, StampInv, [StampedNext]_allVars
  PROVE  Onward
  <1>1. CASE StampedMain
    <2>1. CASE /\ Phase1WaitStartup \/ Phase3WaitDone \/ Phase4CollectHistory
               /\ ParentReceives(cursor)
      BY <2>1, CursorReceives, ProcFacts, OnwardTickAt DEF ParentReceives
    <2>2. CASE Tick(Parent)
      BY <2>2, ProcFacts, OnwardTick
    <2>3. CASE UNCHANGED stampVars
      BY <2>3, OnwardSame DEF stampVars
    <2> QED
      BY <1>1, <2>1, <2>2, <2>3 DEF StampedMain, StampedMainStep
  <1>2. ASSUME NEW s \in Shards, DrawStamp(s)
        PROVE  Onward
    BY <1>2, ProcFacts, OnwardTick DEF DrawStamp
  <1>3. CASE UNCHANGED stampVars
    BY <1>3, OnwardSame DEF stampVars
  <1> QED
    BY <1>1, <1>2, <1>3, OnwardAccount, OnwardWorker DEF StampedNext, allVars

\* What an account does besides a transfer leaves the histories as they are.
LEMMA OtherAccountSteps ==
  ASSUME IInv, StampInv, HistoryInv, NEW a \in Accounts, StampedAccount(a),
         \A p \in Procs \ {a} : /\ ~ StampedAsSource(a, p)
                                /\ ~ StampedAsDestination(a, p)
  PROVE  HistoryInv' /\ UNCHANGED <<history, balance, debited, credited>>
  <1> DEFINE v == Newest(history)
  <1>1. /\ a \in Procs /\ Parent \in Procs
        /\ Stamped(chan, stamps, clock)
        /\ Timely(chan, stamps, v)
    BY ProcFacts DEF StampInv, HistoryInv
  <1> HIDE DEF v
  <1>2. UNCHANGED worker_pc
    BY DEF StampedAccount, parentVars, poolVars
  <1> SUFFICES /\ Timely(chan', stamps', v)
               /\ UNCHANGED <<history, balance, debited, credited, drawn>>
    <2>1. Onward
      BY OnwardAccount
    <2> QED
      BY <1>2, <2>1, HistoryKept DEF v
  <1>3. CASE StampedSendStarted(a)
    <2>1. clock[a] \in Nat
      BY <1>1 DEF Stamped
    <2> DEFINE t == UpdateTime(clock[a], 0)
    <2>2. t \in Nat
      BY <2>1, UpdateFacts
    <2>3. /\ chan' = SendMulticast(chan, a, Msg("STARTED", 0))
          /\ stamps' = SendMulticast(stamps, a, t)
          /\ UNCHANGED <<history, balance, debited, credited, drawn>>
      BY <1>1, <1>3 DEF StampedSendStarted, SendStarted, Tick, StampInv, Stamped
    <2> HIDE DEF t
    <2>4. /\ Msg("STARTED", 0) \in Message
          /\ Msg("STARTED", 0).type \notin {"TRANSFER", "ACK"}
      BY MessageFacts DEF Msg
    <2> QED
      BY <1>1, <2>2, <2>3, <2>4, TimelyMulticast
  <1>4. CASE StampedSendHistory(a)
    <2>1. clock[a] \in Nat
      BY <1>1 DEF Stamped
    <2> DEFINE t == UpdateTime(clock[a], 0)
               m == Msg("BALANCE_HISTORY", balance[a])
    <2>2. t \in Nat
      BY <2>1, UpdateFacts
    <2>3. /\ chan' = Send(chan, a, Parent, m)
          /\ stamps' = Send(stamps, a, Parent, t)
          /\ UNCHANGED <<history, balance, debited, credited, drawn>>
      BY <1>1, <1>4 DEF StampedSendHistory, SendHistory, Tick, StampInv, Stamped
    <2>4. m \in Message /\ m.type \notin {"TRANSFER", "ACK"}
      BY MessageFacts DEF Msg, IInv, TypeOK, ChildTypeOK
    <2>5. \A b \in Accounts : Ahead(m, t, a, b, v[b])
      BY <2>4 DEF Ahead
    <2> HIDE DEF t, m
    <2> QED
      BY <1>1, <2>2, <2>3, <2>4, <2>5, TimelySend
  <1>5. ASSUME NEW p \in Procs, HasMessage(p, a), chan' = Receive(chan, p, a),
               ReceiveStamp(p, a)
        PROVE  Timely(chan', stamps', v)
    BY <1>1, <1>5, TimelyReceive DEF HasMessage, ReceiveStamp
  <1>6. CASE StampedWaitStarted(a)
    <2>1. peer[a] \in Procs
      BY <1>6, ProcFacts
      DEF StampedWaitStarted, WaitStarted, IInv, TypeOK, ChildTypeOK
    <2> QED
      BY <1>5, <1>6, <2>1 DEF StampedWaitStarted, WaitStarted
  <1>7. ASSUME NEW p \in Procs \ {a}, StampedReceive(a, p)
        PROVE  /\ Timely(chan', stamps', v)
               /\ UNCHANGED <<history, balance, debited, credited, drawn>>
    BY <1>5, <1>7 DEF StampedReceive, HandleOther, WaitAllDone
  <1>8. ASSUME NEW p \in Procs \ {a}, StampedStop(a, p)
        PROVE  /\ Timely(chan', stamps', v)
               /\ UNCHANGED <<history, balance, debited, credited, drawn>>
    <2> DEFINE t == ReceivedAgain(a, p)
    <2>1. /\ HasMessage(p, a)
          /\ chan' = SendMulticast(Receive(chan, p, a), a, Msg("DONE", 0))
          /\ stamps' = SendMulticast(Receive(stamps, p, a), a, t)
          /\ UNCHANGED <<history, balance, debited, credited, drawn>>
      BY <1>8 DEF StampedStop, HandleStop, ReceivedInLoop
    <2>2. /\ Stamped(Receive(chan, p, a), Receive(stamps, p, a), clock)
          /\ Timely(Receive(chan, p, a), Receive(stamps, p, a), v)
          /\ Stamp(p, a) \in Nat /\ clock[a] \in Nat
      <3>1. chan[p][a] # << >>
        BY <2>1 DEF HasMessage
      <3>2. /\ Stamped(Receive(chan, p, a), Receive(stamps, p, a), clock)
            /\ Stamp(p, a) \in Nat
        BY <1>1, <3>1, ReceiveStamped DEF Stamp
      <3>3. Timely(Receive(chan, p, a), Receive(stamps, p, a), v)
        BY <1>1, <3>1, TimelyReceive
      <3>4. clock[a] \in Nat
        BY <1>1 DEF Stamped
      <3> QED
        BY <3>2, <3>3, <3>4
    <2>3. t \in Nat
      BY <2>2, UpdateFacts DEF ReceivedAgain, Received
    <2> HIDE DEF t
    <2>4. /\ Msg("DONE", 0) \in Message
          /\ Msg("DONE", 0).type \notin {"TRANSFER", "ACK"}
      BY MessageFacts DEF Msg
    <2> QED
      BY <1>1, <2>1, <2>2, <2>3, <2>4, TimelyMulticast
  <1> QED
    BY <1>3, <1>4, <1>6, <1>7, <1>8 DEF StampedAccount, StampedChild

\* Nor does a worker write into a history: what it sends is stamped after the
\* entries of its shard, and the ACK it receives takes the clock of the parent
\* past them.
LEMMA WorkerHistories ==
  ASSUME LocalWorkload, IInv, ChannelInv, LocalInv, StampInv, HistoryInv,
         NEW s \in Shards, StampedWorker(s)
  PROVE  HistoryInv' /\ UNCHANGED <<history, balance, debited, credited>>
  <1> DEFINE v == Newest(history)
             i == task[s].order
  <1>1. /\ Parent \in Procs
        /\ Stamped(chan, stamps, clock) /\ drawn \in [Shards -> Nat]
        /\ Timely(chan, stamps, v)
        /\ worker_pc \in [Shards -> WorkerPcs]
        /\ PoolLocal
    BY ProcFacts DEF StampInv, HistoryInv, IInv, TypeOK, PoolTypeOK, LocalInv
  <1>2. UNCHANGED <<history, balance, debited, credited>>
    BY DEF StampedWorker, StampedWorkerStep, StampedSend, SendDrawn, StampedAck,
           ParentReceives, Unstamped, stampVars, childVars
  <1>3. Onward
    BY OnwardWorker
  <1>4. CASE StampedSend(s)
    <2>1. LocalSend(s) /\ SendDrawn(s, Src(i)) /\ worker_pc[s] = "local_send"
      BY <1>1, <1>4 DEF StampedSend, Step1Send, Step2Send, LocalSend, WorkerAt,
                        PoolLocal, LocalPcs
    <2>2. i \in Orders /\ GetShardId(Src(i)) = s /\ Src(i) \in Procs
      BY <2>1, ServedOrder, OrderFacts, ProcFacts
    <2> DEFINE m == Msg("TRANSFER", i)
               u == drawn[s]
    <2>3. /\ chan' = Send(chan, Parent, Src(i), m)
          /\ stamps' = Send(stamps, Parent, Src(i), u)
          /\ u # NoStamp
          /\ drawn' = [drawn EXCEPT ![s] = NoStamp]
          /\ worker_pc' = [worker_pc EXCEPT ![s] = "local_ack"]
      BY <2>1 DEF LocalSend, SendOrder, SendDrawn, WorkerGoTo
    <2>4. Behind(s, v, clock[Parent], u)
      BY <2>1 DEF HistoryInv, IdleInv
    <2>5. m \in Message /\ u \in Nat /\ m.type = "TRANSFER" /\ m.val = i
      BY <1>1, <2>2, MessageFacts DEF Msg
    <2>6. \A a \in Accounts : v[a] \in Nat
      BY DEF HistoryInv, PlacesInv, InPlace
    <2> HIDE DEF v, u, m, i
    <2>7. ASSUME NEW a \in Accounts PROVE Ahead(m, u, Parent, a, v[a])
      <3>1. GetShardId(a) = s => v[a] < u
        BY <2>3, <2>4 DEF Behind
      <3>2. a # Parent
        BY ProcFacts
      <3> QED
        BY <2>2, <2>5, <3>1, <3>2 DEF Ahead
    <2>8. Timely(chan', stamps', v)
      BY <1>1, <2>2, <2>3, <2>5, <2>7, TimelySend
    <2>9. ASSUME NEW r \in Shards, worker_pc'[r] # "local_ack"
          PROVE  worker_pc[r] # "local_ack" /\ drawn'[r] = drawn[r]
      BY <1>1, <2>3, <2>9
    <2> QED
      BY <1>2, <1>3, <2>8, <2>9, HistoryKept DEF v
  <1>5. CASE StampedAck(s)
    <2> DEFINE d == Dst(i)
    <2>1. /\ LocalAck(s) /\ ParentReceives(d)
          /\ worker_pc[s] = "local_ack"
          /\ HasMessage(d, Parent)
          /\ chan' = Receive(chan, d, Parent)
          /\ worker_pc' = [worker_pc EXCEPT ![s] = "wait"]
      BY <1>1, <1>5 DEF StampedAck, Step2Ack, LocalAck, WorkerAt, PoolLocal,
                        LocalPcs, HandlerReturns, WorkerGoTo
    <2>2. i \in Orders /\ Oldest(d, Parent).type = "ACK"
      BY <2>1, AckEffect
    <2>3. GetShardId(d) = s /\ d \in Procs
      BY <2>1, <2>2, ServedOrder, OrderFacts, ProcFacts
    <2>4. drawn[s] = NoStamp /\ UNCHANGED drawn
      BY <2>1 DEF StampInv, DrawnFresh, SendPcs, ParentReceives
    <2> HIDE DEF d, v, i
    <2>5. /\ Stamp(d, Parent) \in Nat
          /\ Stamp(d, Parent) < clock'[Parent]
      BY <1>1, <2>1, <2>3, OnwardTickAt DEF ParentReceives
    <2>6. /\ Timely(chan', stamps', v)
          /\ \A a \in Accounts :
               Ahead(Oldest(d, Parent), Stamp(d, Parent), d, a, v[a])
      <3>1. chan[d][Parent] # << >>
        BY <2>1 DEF HasMessage
      <3>2. stamps' = Receive(stamps, d, Parent)
        BY <2>1 DEF ParentReceives, ReceiveStamp
      <3>3. /\ Timely(Receive(chan, d, Parent), Receive(stamps, d, Parent), v)
            /\ \A a \in Accounts :
                 Ahead(Head(chan[d][Parent]), Head(stamps[d][Parent]), d, a, v[a])
        BY <1>1, <2>3, <3>1, TimelyReceive
      <3> QED
        BY <2>1, <3>2, <3>3 DEF Oldest, Stamp
    <2>7. \A a \in Accounts : v[a] \in Nat
      BY DEF HistoryInv, PlacesInv, InPlace, v
    <2>8. \A a \in Accounts : GetShardId(a) = s => v[a] <= clock'[Parent]
      <3> SUFFICES ASSUME NEW a \in Accounts, GetShardId(a) = s
                   PROVE  v[a] <= clock'[Parent]
        OBVIOUS
      <3>1. v[a] <= Stamp(d, Parent)
        BY <2>2, <2>3, <2>6 DEF Ahead
      <3>2. clock'[Parent] \in Nat
        BY <1>1, <1>3 DEF Onward
      <3> QED
        BY <2>5, <2>7, <3>1, <3>2
    <2>9. Behind(s, v, clock'[Parent], drawn'[s])
      BY <2>4, <2>8 DEF Behind
    <2>10. ASSUME NEW r \in Shards, worker_pc'[r] # "local_ack"
           PROVE  \/ worker_pc[r] # "local_ack" /\ drawn'[r] = drawn[r]
                  \/ Behind(r, v, clock'[Parent], drawn'[r])
      BY <1>1, <2>1, <2>4, <2>9, <2>10
    <2> QED
      BY <1>2, <1>3, <2>6, <2>10, HistoryKept DEF v
  <1>6. CASE Unstamped(s)
    <2>1. UNCHANGED <<chan, stamps, drawn>>
      BY <1>6 DEF Unstamped, stampVars, WorkerTake, WorkerExit, Step1Found,
                  Step1NotFound, Step2Push, Step2Notify, Step2Cleanup, Crash
    <2>2. \A r \in Shards : worker_pc'[r] # "local_ack" => worker_pc[r] # "local_ack"
      <3>1. worker_pc[s] # "local_ack"
        BY <1>6
        DEF Unstamped, WorkerTake, WorkerExit, Step1Found, Step1NotFound,
            Step2Push, Step2Notify, Step2Cleanup, Crash, UsesDestroyed, WorkerAt
      <3>2. \A r \in Shards : r # s => worker_pc'[r] = worker_pc[r]
        BY <1>1, <1>6
        DEF Unstamped, WorkerTake, WorkerExit, Step1Found, Step1NotFound,
            Step2Push, Step2Notify, Step2Cleanup, Crash,
            WorkerAt, HandlerReturns, WorkerGoTo
      <3> QED
        BY <3>1, <3>2
    <2>3. Timely(chan', stamps', v)
      BY <1>1, <2>1
    <2> HIDE DEF v
    <2> QED
      BY <1>2, <1>3, <2>1, <2>2, <2>3, HistoryKept DEF v
  <1> QED
    BY <1>2, <1>4, <1>5, <1>6 DEF StampedWorker, StampedWorkerStep

LEMMA MainHistories ==
  ASSUME IInv, StampInv, HistoryInv, StampedMain
  PROVE  HistoryInv' /\ UNCHANGED <<history, balance, debited, credited>>
  <1> DEFINE v == Newest(history)
  <1>1. /\ Parent \in Procs
        /\ Stamped(chan, stamps, clock)
        /\ Timely(chan, stamps, v)
    BY ProcFacts DEF StampInv, HistoryInv
  <1>2. UNCHANGED <<history, balance, debited, credited, drawn, worker_pc>>
    <2>1. UNCHANGED <<history, balance, debited, credited, drawn>>
      BY DEF StampedMain, StampedMainStep, ParentReceives, stampVars, childVars
    <2>2. UNCHANGED worker_pc
      BY DEF StampedMain, StampedMainStep, Phase1WaitStartup, Phase2Submit,
             SubmitTransfer, WaitAllComplete, DestroyContexts, StopShard, JoinShard,
             Phase3Stop, Phase3WaitDone, Phase4CollectHistory, ReceiveNext, poolVars
    <2> QED
      BY <2>1, <2>2
  <1>3. Onward
    <2>1. [StampedNext]_allVars
      BY DEF StampedNext
    <2> QED
      BY <2>1, OnwardStep
  <1> HIDE DEF v
  <1> SUFFICES Timely(chan', stamps', v)
    BY <1>2, <1>3, HistoryKept DEF v
  <1>4. CASE /\ Phase1WaitStartup \/ Phase3WaitDone \/ Phase4CollectHistory
             /\ ParentReceives(cursor)
    <2>1. /\ cursor \in Procs /\ chan[cursor][Parent] # << >>
          /\ chan' = Receive(chan, cursor, Parent)
          /\ stamps' = Receive(stamps, cursor, Parent)
      BY <1>4, CursorReceives DEF HasMessage, ParentReceives, ReceiveStamp
    <2> QED
      BY <1>1, <2>1, TimelyReceive
  <1>5. CASE /\ Phase3Stop
             /\ Tick(Parent)
             /\ stamps' = SendMulticast(stamps, Parent, clock'[Parent])
    <2>1. clock'[Parent] \in Nat
      BY <1>1, <1>3 DEF Onward
    <2>2. chan' = SendMulticast(chan, Parent, Msg("STOP", 0))
      BY <1>5 DEF Phase3Stop
    <2>3. /\ Msg("STOP", 0) \in Message
          /\ Msg("STOP", 0).type \notin {"TRANSFER", "ACK"}
      BY MessageFacts DEF Msg
    <2>4. PICK t \in Nat : stamps' = SendMulticast(stamps, Parent, t)
      BY <1>5, <2>1
    <2> QED
      BY <1>1, <2>2, <2>3, <2>4, TimelyMulticast
  <1>6. CASE /\ \/ Phase2Submit
                \/ WaitAllComplete
                \/ DestroyContexts
                \/ StopShard
                \/ JoinShard
             /\ UNCHANGED stampVars
    <2>1. UNCHANGED <<chan, stamps>>
      BY <1>6 DEF Phase2Submit, SubmitTransfer, WaitAllComplete, DestroyContexts,
                  StopShard, JoinShard, stampVars
    <2> QED
      BY <1>1, <2>1
  <1> QED
    BY <1>4, <1>5, <1>6 DEF StampedMain, StampedMainStep

\* The stamp that is drawn is later than the entries of its shard, which the
\* clock of the parent had reached.
LEMMA DrawHistories ==
  ASSUME LocalInv, StampInv, HistoryInv, NEW s \in Shards, DrawStamp(s)
  PROVE  HistoryInv' /\ UNCHANGED <<history, balance, debited, credited>>
  <1> DEFINE v == Newest(history)
             t == UpdateTime(clock[Parent], 0)
  <1>1. /\ Parent \in Procs /\ clock \in [Procs -> Nat] /\ clock[Parent] \in Nat
        /\ drawn \in [Shards -> Nat]
        /\ Timely(chan, stamps, v)
    BY ProcFacts DEF StampInv, Stamped, HistoryInv
  <1>2. t \in Nat /\ clock[Parent] < t
    BY <1>1, UpdateFacts
  <1>3. /\ clock' = [clock EXCEPT ![Parent] = t]
        /\ clock'[Parent] = t
        /\ drawn' = [drawn EXCEPT ![s] = t]
        /\ worker_pc[s] \in SendPcs
        /\ UNCHANGED <<chan, stamps, worker_pc, history, balance, debited, credited>>
    BY <1>1 DEF DrawStamp, Tick, vars, parentVars, poolVars, childVars
  <1>4. Onward
    BY <1>1, OnwardTick DEF DrawStamp
  <1>5. worker_pc[s] # "local_ack"
    BY <1>3 DEF SendPcs
  <1>6. Behind(s, v, clock[Parent], drawn[s])
    BY <1>5 DEF HistoryInv, IdleInv
  <1>7. \A a \in Accounts : v[a] \in Nat
    BY DEF HistoryInv, PlacesInv, InPlace
  <1> HIDE DEF v, t
  <1>8. Behind(s, v, clock'[Parent], drawn'[s])
    <2>1. clock'[Parent] = t /\ drawn'[s] = t
      BY <1>1, <1>3
    <2>2. ASSUME NEW a \in Accounts, GetShardId(a) = s
          PROVE  v[a] <= t /\ v[a] < t
      <3>1. v[a] <= clock[Parent] /\ v[a] \in Nat
        BY <1>6, <1>7, <2>2 DEF Behind
      <3> QED
        BY <1>1, <1>2, <3>1
    <2> QED
      BY <2>1, <2>2 DEF Behind
  <1>9. ASSUME NEW r \in Shards, worker_pc'[r] # "local_ack"
        PROVE  \/ worker_pc[r] # "local_ack" /\ drawn'[r] = drawn[r]
               \/ Behind(r, v, clock'[Parent], drawn'[r])
    BY <1>1, <1>3, <1>8, <1>9
  <1>10. Timely(chan', stamps', v)
    BY <1>1, <1>3
  <1> QED
    BY <1>3, <1>4, <1>9, <1>10, HistoryKept DEF v

LEMMA AccountHistories ==
  ASSUME LocalWorkload, IInv, ChannelInv, LocalInv, StampInv, HistoryInv, InTime',
         NEW a \in Accounts, StampedAccount(a)
  PROVE  HistoryInv'
  <1>1. UNCHANGED worker_pc
    BY DEF StampedAccount, parentVars, poolVars
  <1>2. KindInv
    BY DEF ChannelInv
  <1>3. ASSUME NEW p \in Procs \ {a}, StampedAsSource(a, p)
        PROVE  HistoryInv'
    BY <1>1, <1>2, <1>3, SourceWrites
  <1>4. ASSUME NEW p \in Procs \ {a}, StampedAsDestination(a, p)
        PROVE  HistoryInv'
    BY <1>1, <1>2, <1>4, DestinationWrites
  <1> QED
    BY <1>3, <1>4, OtherAccountSteps

LEMMA HistoryInductive ==
  ASSUME LocalWorkload, IInv, ChannelInv, LocalInv, StampInv, HistoryInv, InTime',
         [StampedNext]_allVars
  PROVE  HistoryInv'
  <1>1. CASE StampedMain
    BY <1>1, MainHistories
  <1>2. ASSUME NEW s \in Shards, DrawStamp(s)
        PROVE  HistoryInv'
    BY <1>2, DrawHistories
  <1>3. ASSUME NEW s \in Shards, StampedWorker(s)
        PROVE  HistoryInv'
    BY <1>3, WorkerHistories
  <1>4. ASSUME NEW a \in Accounts, StampedAccount(a)
        PROVE  HistoryInv'
    BY <1>4, AccountHistories
  <1>5. CASE UNCHANGED allVars
    <2>1. UNCHANGED <<chan, worker_pc, balance, clock, stamps, drawn, history>>
      BY <1>5 DEF allVars, vars, parentVars, poolVars, childVars, stampVars
    <2>2. Onward
      BY <2>1, OnwardSame
    <2>3. Timely(chan', stamps', Newest(history))
      BY <2>1 DEF HistoryInv
    <2> QED
      BY <2>1, <2>2, <2>3, HistoryKept
  <1>6. CASE Terminated /\ UNCHANGED stampVars
    BY <1>5, <1>6 DEF Terminated, allVars
  <1> QED
    BY <1>1, <1>2, <1>3, <1>4, <1>5, <1>6 DEF StampedNext

LEMMA HistoryInitial == StampedInit => HistoryInv
  <1> SUFFICES ASSUME StampedInit PROVE HistoryInv
    OBVIOUS
  <1>1. PICK before \in Before :
          history = [a \in Accounts |-> InitHistory(InitialBalance[a], before)]
    BY DEF StampedInit
  <1>2. MAX_T \in Nat \ {0}
    BY MaxTAssumption
  <1>3. balance = InitialBalance /\ \A a \in Accounts : InitialBalance[a] \in 0 .. 255
    BY InitialBalanceAssumption DEF StampedInit, Init, ChildInit
  <1>4. ASSUME NEW a \in Accounts
        PROVE  /\ InPlace(history[a], 0)
               /\ history[a].s_history_len = 1
               /\ NowBalance(history[a]) = InitialBalance[a]
    <2> DEFINE x == InitialBalance[a]
               f == [k \in 0 .. MAX_T |-> State(IF k < MAX_T THEN k ELSE 0,
                                                IF k = 0 THEN x ELSE 0, 0)]
    <2>1. x \in Int
      BY <1>3
    <2>2. history[a] = [s_history_len |-> 1, s_history |-> f, before |-> before]
      BY <1>1 DEF InitHistory
    <2> HIDE DEF x
    <2>3. f \in [0 .. MAX_T -> Entries]
      BY <1>2, <2>1 DEF State, Entries
    <2>4. f[0] = State(0, x, 0) /\ 0 \in 0 .. MAX_T
      BY <1>2
    <2> HIDE DEF f
    <2>5. /\ history[a] \in Histories
          /\ history[a].s_history_len = 0 + 1
          /\ history[a].s_history[0] = State(0, x, 0)
      BY <2>2, <2>3, <2>4 DEF Histories
    <2>6. InPlace(history[a], 0)
      BY <1>2, <2>5 DEF InPlace, State
    <2>7. NowBalance(history[a]) = x
      BY <2>5, <2>6, LastInPlace DEF State
    <2> QED
      BY <2>5, <2>6, <2>7 DEF x
  <1>5. /\ Newest(history) = [a \in Accounts |-> 0]
        /\ history \in [Accounts -> Histories]
    BY <1>1, <1>4 DEF Newest, InPlace
  <1>6. /\ chan = [p \in Procs |-> [q \in Procs |-> << >>]]
        /\ \A p \in Procs : clock[p] = 0
        /\ \A s \in Shards : drawn[s] = NoStamp
    BY DEF StampedInit, Init, NetworkInit
  <1>7. \A a \in Accounts : a \in Procs /\ Parent \in Procs
    BY ProcFacts
  <1>8. PlacesInv
    BY <1>4, <1>5, <1>6, <1>7 DEF PlacesInv
  <1>9. ValuesInv
    <2>1. ASSUME NEW a \in Accounts
          PROVE  ToBalance(InitialBalance[a]) = InitialBalance[a]
      <3>1. InitialBalance[a] \in Int /\ 0 \in Int
        BY <1>3
      <3>2. -32768 <= InitialBalance[a] /\ InitialBalance[a] <= 32767
        BY <1>3
      <3> QED
        BY <3>1, <3>2, BalanceFacts
    <2> QED
      BY <1>3, <1>4, <2>1 DEF ValuesInv
  <1>10. IdleInv
    BY <1>5, <1>6, <1>7 DEF IdleInv, Behind
  <1>11. Timely(chan, stamps, Newest(history))
    <2>1. \A p, q \in Procs : Len(chan[p][q]) = 0
      BY <1>6, EmptySeq
    <2> QED
      BY <2>1 DEF Timely
  <1> QED
    BY <1>8, <1>9, <1>10, <1>11 DEF HistoryInv

LEMMA InTimeBefore ==
  ASSUME IInv, StampInv, InTime', [StampedNext]_allVars
  PROVE  InTime
  <1> SUFFICES ASSUME NEW a \in Accounts PROVE clock[a] < MAX_T
    BY DEF InTime
  <1>1. clock[a] <= clock'[a] /\ clock[a] \in Nat /\ clock'[a] \in Nat
    BY OnwardStep, ProcFacts DEF Onward
  <1>2. clock'[a] < MAX_T /\ MAX_T \in Nat
    BY MaxTAssumption DEF InTime
  <1> QED
    BY <1>1, <1>2

\* While the clocks are below the length of a history, its entries are those of
\* the times up to the last, and whatever changes an account comes from the
\* future of its shard (utils.cpp:3-30, child_worker.cpp:143-178).
THEOREM HistoryInvariance ==
  ASSUME LocalWorkload
  PROVE  StampedSpec => [](InTime => HistoryInv)
  <1> DEFINE Inv == InTime => HistoryInv
  <1>1. StampedInit => Inv
    BY HistoryInitial
  <1>2. IInv /\ ChannelInv /\ LocalInv /\ StampInv /\ Inv /\ [StampedNext]_allVars
          => Inv'
    <2> SUFFICES ASSUME IInv, ChannelInv, LocalInv, StampInv, Inv,
                        [StampedNext]_allVars, InTime'
                 PROVE  HistoryInv'
      OBVIOUS
    <2>1. InTime
      BY InTimeBefore
    <2> QED
      BY <2>1, HistoryInductive
  <1>3. StampedSpec => []ChannelInv /\ []LocalInv
    BY StampedImplementsBank, ChannelInvariance, LocalInvariance, PTL
  <1> HIDE DEF Inv
  <1>4. StampedSpec => []Inv
    BY <1>1, <1>2, <1>3, BankInvariance, StampInvariance, PTL DEF StampedSpec
  <1> QED
    BY <1>4 DEF Inv

\* Entry t of a history carries the time t, so that indexing by time finds the
\* entry of that time (banking.h:39-42), as long as the clocks are below the
\* length of a history.
THEOREM EntriesAreIndexedByTime ==
  ASSUME LocalWorkload
  PROVE  StampedSpec => [](InTime => HistoryIndexedByTime)
  <1>1. HistoryInv => HistoryIndexedByTime
    <2> SUFFICES ASSUME HistoryInv, NEW a \in Accounts,
                        NEW t \in 0 .. history[a].s_history_len - 1
                 PROVE  history[a].s_history[t].s_time = t
      BY DEF HistoryIndexedByTime
    <2>1. PICK u : InPlace(history[a], u)
      BY DEF HistoryInv, PlacesInv
    <2> QED
      BY <2>1 DEF InPlace
  <1> QED
    BY <1>1, HistoryInvariance, PTL

\* No balance leaves the 16 bits of balance_t.
BalancesFit == \A a \in Accounts : ToBalance(balance[a]) = balance[a]

\* That holds when the orders do not add up to more than the 16 bits leave
\* beside an initial balance.
THEOREM BalancesAlwaysFit ==
  ASSUME LocalWorkload, Turnover <= 32767 - 255
  PROVE  StampedSpec => []BalancesFit
  <1> DEFINE Near == \A a \in Accounts :
                       /\ InitialBalance[a] - Turnover <= balance[a]
                       /\ balance[a] <= InitialBalance[a] + Turnover
  <1>1. Turnover \in Int
    <2>1. [i \in Orders |-> Amount(i)] \in [Orders -> Int]
      BY OrderFacts
    <2> QED
      BY <2>1, FiniteData, SumOfType DEF Turnover
  <1>2. IInv /\ Near => BalancesFit
    <2> SUFFICES ASSUME IInv, Near, NEW a \in Accounts
                 PROVE  ToBalance(balance[a]) = balance[a]
      BY DEF BalancesFit
    <2>1. balance[a] \in Int /\ InitialBalance[a] \in 0 .. 255
      BY InitialBalanceAssumption DEF IInv, TypeOK, ChildTypeOK
    <2>2. /\ InitialBalance[a] - Turnover <= balance[a]
          /\ balance[a] <= InitialBalance[a] + Turnover
      OBVIOUS
    <2> HIDE DEF Near
    <2>3. -32768 <= balance[a] /\ balance[a] <= 32767
      BY <1>1, <2>1, <2>2
    <2>4. \A x \in Int : -32768 <= x /\ x <= 32767 => ToBalance(x) = x
      BY BalanceFacts
    <2> QED
      BY <2>1, <2>3, <2>4
  <1>3. Spec => []Near
    BY BalancesStayNear
  <1> HIDE DEF Near
  <1> QED
    BY <1>2, <1>3, StampedImplementsBank, BankInvariance, PTL

\* now_balance returns the balance of the account (utils.h:27-34): the last
\* entry is the one that the last transfer wrote.
THEOREM NowBalanceIsBalance ==
  ASSUME LocalWorkload
  PROVE  StampedSpec => [](InTime /\ BalancesFit => HistoryKeepsBalance)
  <1>1. HistoryInv /\ BalancesFit => HistoryKeepsBalance
    BY DEF HistoryInv, ValuesInv, BalancesFit, HistoryKeepsBalance
  <1> QED
    BY <1>1, HistoryInvariance, PTL

-----------------------------------------------------------------------------
(***************************************************************************)
(* Consistent cuts.  The invariant says of every time what the snapshot    *)
(* says at the end: an order that is debited and not credited is on its    *)
(* way from the time of the debit on, the last entry of its source.        *)
(***************************************************************************)
\* What the history h accounts for at time t.
At(h, t) ==
  IF t < h.s_history_len THEN h.s_history[t] ELSE State(t, NowBalance(h), 0)
ValueAt(h, t) == At(h, t).s_balance + At(h, t).s_balance_pending_in

Values(h, t) == [a \in Accounts |-> ValueAt(h[a], t)]

\* What no account accounts for at time t, when v is the last entry of each
\* account and d and c are the debits and the credits of the orders.
OnItsWay(d, c, v, t) ==
  [i \in Orders |-> IF d[i] # c[i] /\ v[Src(i)] <= t THEN Amount(i) ELSE 0]

SnapshotInv ==
  \A t \in Nat :
    SumOf(Values(history, t), Accounts)
      + SumOf(OnItsWay(debited, credited, Newest(history), t), Orders)
      = SumOf(InitialBalance, Accounts)

\* The values after a change that starts at start: what is pending until end
\* is what the balance then gains, or there is no such time.
LEMMA ValuesAfter ==
  ASSUME NEW h, NEW t, InPlace(h, t), NEW g,
         NEW start \in Nat, NEW end \in Nat, t < start, start <= end,
         NEW amount \in Int, NEW pending \in Int,
         Extends(g, h, t, start, end, amount, pending),
         ToBalance(amount) = amount,
         start = end \/ pending = amount - NowBalance(h),
         NEW k \in Nat
  PROVE  /\ ValueAt(h, k) \in Int
         /\ ValueAt(g, k) = ValueAt(h, k)
                              + (IF k < start THEN 0 ELSE amount - NowBalance(h))
  <1>1. /\ t \in Nat /\ h.s_history_len = t + 1 /\ g.s_history_len = end + 1
        /\ NowBalance(h) \in Int /\ NowBalance(g) = amount
    <2>1. NowBalance(h) \in Int
      BY LastInPlace DEF NowBalance
    <2> QED
      BY <2>1 DEF InPlace, Extends
  <1>2. k <= t => At(h, k) = h.s_history[k] /\ At(g, k) = h.s_history[k]
    <2> SUFFICES ASSUME k <= t
                 PROVE  At(h, k) = h.s_history[k] /\ At(g, k) = h.s_history[k]
      OBVIOUS
    <2>1. k \in 0 .. t /\ k < h.s_history_len /\ k < g.s_history_len
      BY <1>1
    <2>2. g.s_history[k] = h.s_history[k]
      BY <2>1 DEF Extends
    <2> QED
      BY <2>1, <2>2 DEF At
  <1>3. t < k => At(h, k) = State(k, NowBalance(h), 0)
    BY <1>1 DEF At
  <1>4. t < k /\ k < start => At(g, k) = State(k, NowBalance(h), 0)
    <2> SUFFICES ASSUME t < k, k < start
                 PROVE  At(g, k) = State(k, NowBalance(h), 0)
      OBVIOUS
    <2>1. k \in t + 1 .. start - 1 /\ k < g.s_history_len
      BY <1>1
    <2> QED
      BY <2>1 DEF At, Extends
  <1>5. start <= k /\ k < end => At(g, k) = State(k, NowBalance(h), pending)
    <2> SUFFICES ASSUME start <= k, k < end
                 PROVE  At(g, k) = State(k, NowBalance(h), pending)
      OBVIOUS
    <2>1. k \in start .. end - 1 /\ k < g.s_history_len
      BY <1>1
    <2> QED
      BY <2>1 DEF At, Extends
  <1>6. end <= k => At(g, k) = State(k, amount, 0)
    <2> SUFFICES ASSUME end <= k PROVE At(g, k) = State(k, amount, 0)
      OBVIOUS
    <2>1. CASE k = end
      BY <1>1, <2>1 DEF At, Extends
    <2>2. CASE k # end
      BY <1>1, <2>2 DEF At
    <2> QED
      BY <2>1, <2>2
  <1>7. \A b, x \in Int : /\ State(k, b, x).s_balance = b
                          /\ State(k, b, x).s_balance_pending_in = x
    BY DEF State
  <1>8. CASE k <= t
    <2>1. h.s_history[k] \in Entries
      <3>1. k \in 0 .. MAX_T
        BY <1>1, <1>8, MaxTAssumption DEF InPlace
      <3> QED
        BY <3>1 DEF InPlace, Histories
    <2>2. ValueAt(h, k) \in Int /\ ValueAt(g, k) = ValueAt(h, k)
      BY <1>2, <1>8, <2>1 DEF ValueAt, Entries
    <2> QED
      BY <1>1, <1>8, <2>2
  <1>9. CASE t < k
    <2>1. ValueAt(h, k) = NowBalance(h)
      BY <1>1, <1>3, <1>7, <1>9 DEF ValueAt
    <2>2. k < start => ValueAt(g, k) = NowBalance(h)
      BY <1>1, <1>4, <1>7, <1>9 DEF ValueAt
    <2>3. start <= k /\ k < end => ValueAt(g, k) = NowBalance(h) + pending
      BY <1>1, <1>5, <1>7 DEF ValueAt
    <2>4. end <= k => ValueAt(g, k) = amount
      BY <1>1, <1>6, <1>7 DEF ValueAt
    <2> QED
      BY <1>1, <2>1, <2>2, <2>3, <2>4
  <1> QED
    BY <1>1, <1>8, <1>9

\* The values of a history in place are integers.
LEMMA ValueType ==
  ASSUME NEW h, NEW t, InPlace(h, t), NEW k \in Nat
  PROVE  ValueAt(h, k) \in Int
  <1>1. CASE k < h.s_history_len
    <2>1. h.s_history[k] \in Entries
      <3>1. k \in 0 .. MAX_T
        BY <1>1, MaxTAssumption DEF InPlace
      <3> QED
        BY <3>1 DEF InPlace, Histories
    <2> QED
      BY <1>1, <2>1 DEF ValueAt, At, Entries
  <1>2. CASE ~ k < h.s_history_len
    <2>1. NowBalance(h) \in Int
      BY LastInPlace DEF NowBalance
    <2> QED
      BY <1>2, <2>1 DEF ValueAt, At, State
  <1> QED
    BY <1>1, <1>2

\* One account and one order change, and what the account loses is on its way.
Shifted(f, g, ff, gg) ==
  /\ f \in [Accounts -> Int] /\ ff \in [Accounts -> Int]
  /\ g \in [Orders -> Int] /\ gg \in [Orders -> Int]
  /\ \E a \in Accounts, i \in Orders :
       /\ \A x \in Accounts : x # a => ff[x] = f[x]
       /\ \A j \in Orders : j # i => gg[j] = g[j]
       /\ ff[a] + gg[i] = f[a] + g[i]

LEMMA SumsShifted ==
  ASSUME NEW f, NEW g, NEW ff, NEW gg, Shifted(f, g, ff, gg)
  PROVE  SumOf(ff, Accounts) + SumOf(gg, Orders)
           = SumOf(f, Accounts) + SumOf(g, Orders)
  <1>0. /\ f \in [Accounts -> Int] /\ ff \in [Accounts -> Int]
        /\ g \in [Orders -> Int] /\ gg \in [Orders -> Int]
    BY DEF Shifted
  <1>1. PICK a \in Accounts, i \in Orders :
          /\ \A x \in Accounts : x # a => ff[x] = f[x]
          /\ \A j \in Orders : j # i => gg[j] = g[j]
          /\ ff[a] + gg[i] = f[a] + g[i]
    BY DEF Shifted
  <1>2. SumOf(ff, Accounts) = SumOf(f, Accounts) - f[a] + ff[a]
    BY <1>0, <1>1, FiniteData, SumOfChange
  <1>3. SumOf(gg, Orders) = SumOf(g, Orders) - g[i] + gg[i]
    BY <1>0, <1>1, FiniteData, SumOfChange
  <1>4. /\ SumOf(f, Accounts) \in Int /\ SumOf(g, Orders) \in Int
        /\ f[a] \in Int /\ ff[a] \in Int /\ g[i] \in Int /\ gg[i] \in Int
    BY <1>0, FiniteData, SumOfType
  <1> QED
    BY <1>1, <1>2, <1>3, <1>4

LEMMA SumsType ==
  ASSUME HistoryInv, NEW t \in Nat, NEW d, NEW c, NEW v
  PROVE  /\ Values(history, t) \in [Accounts -> Int]
         /\ OnItsWay(d, c, v, t) \in [Orders -> Int]
  <1>1. \A a \in Accounts : ValueAt(history[a], t) \in Int
    BY ValueType DEF HistoryInv, PlacesInv
  <1>2. \A i \in Orders : Amount(i) \in Nat
    BY OrderFacts
  <1> QED
    BY <1>1, <1>2 DEF Values, OnItsWay

\* Only the order that its shard's worker waits for is debited and not
\* credited.
LEMMA SettledApart ==
  ASSUME LocalWorkload, IInv, LocalInv, NEW i \in Orders, Held(i),
         NEW j \in Orders, j # i, GetShardId(Src(j)) = GetShardId(Src(i))
  PROVE  debited[j] = credited[j]
  <1>1. ~ Held(j)
    BY OrderNumbers, HeldAlone
  <1>2. Balanced(Held(j), Requests(j), Forwards(j), Replies(j), debited[j],
                 credited[j])
    BY DEF LocalInv, OrderInv
  <1>3. Forwards(j) = 0 /\ debited[j] = Forwards(j) + credited[j]
    BY <1>1, <1>2 DEF Balanced
  <1>4. credited[j] \in Nat
    BY OrderNumbers
  <1> QED
    BY <1>3, <1>4

\* The account a writes up to current, and of the orders of its shard only i
\* changes: what a gains at the times from start on is no longer on its way
\* then, or what it loses is.
Gains(a, i, current, start, gain) ==
  /\ \A b \in Accounts : b # a => history'[b] = history[b]
  /\ \A k \in Nat : ValueAt(history'[a], k)
                      = ValueAt(history[a], k) + (IF k < start THEN 0 ELSE gain)
  /\ Newest(history') = [Newest(history) EXCEPT ![a] = current]
  /\ \A j \in Orders : j # i =>
       /\ debited'[j] = debited[j] /\ credited'[j] = credited[j]
       /\ Src(j) = a => debited[j] = credited[j]
  /\ \A k \in Nat :
       OnItsWay(debited', credited', Newest(history'), k)[i]
         = OnItsWay(debited, credited, Newest(history), k)[i]
             - (IF k < start THEN 0 ELSE gain)

LEMMA SnapshotWritten ==
  ASSUME HistoryInv, HistoryInv', SnapshotInv,
         NEW a \in Accounts, NEW i \in Orders, NEW current \in Nat,
         NEW start \in Nat, NEW gain \in Int, Gains(a, i, current, start, gain)
  PROVE  SnapshotInv'
  <1> DEFINE v == Newest(history)
             w == [v EXCEPT ![a] = current]
  <1>1. \A j \in Orders : Src(j) # a => w[Src(j)] = v[Src(j)]
    <2>1. \A j \in Orders : Src(j) \in Accounts
      BY OrderFacts
    <2>2. v = [b \in Accounts |-> v[b]]
      BY DEF Newest
    <2> HIDE DEF v
    <2> QED
      BY <2>1, <2>2
  <1>2. Newest(history)' = w /\ Newest(history') = w
    BY DEF Newest, Gains
  <1> HIDE DEF v, w
  <1> SUFFICES ASSUME NEW t \in Nat
               PROVE  SumOf(Values(history', t), Accounts)
                        + SumOf(OnItsWay(debited', credited', w, t), Orders)
                        = SumOf(InitialBalance, Accounts)
    BY <1>2 DEF SnapshotInv
  <1> DEFINE f == Values(history, t)
             ff == Values(history', t)
             g == OnItsWay(debited, credited, v, t)
             gg == OnItsWay(debited', credited', w, t)
             x == IF t < start THEN 0 ELSE gain
  <1>3. f \in [Accounts -> Int] /\ g \in [Orders -> Int]
    BY SumsType
  <1>4. ff \in [Accounts -> Int] /\ gg \in [Orders -> Int]
    <2>1. \A b \in Accounts : ValueAt(history'[b], t) \in Int
      BY ValueType DEF HistoryInv, PlacesInv
    <2>2. gg \in [Orders -> Int]
      BY SumsType
    <2> QED
      BY <2>1, <2>2 DEF Values
  <1>5. \A b \in Accounts : b # a => ff[b] = f[b]
    BY DEF Values, Gains
  <1>6. ff[a] = f[a] + x
    BY DEF Values, Gains
  <1>7. \A j \in Orders : j # i => gg[j] = g[j]
    <2> SUFFICES ASSUME NEW j \in Orders, j # i PROVE gg[j] = g[j]
      OBVIOUS
    <2>1. debited'[j] = debited[j] /\ credited'[j] = credited[j]
      BY DEF Gains
    <2>2. CASE Src(j) = a
      <3>1. debited[j] = credited[j]
        BY <2>2 DEF Gains
      <3> QED
        BY <2>1, <3>1 DEF OnItsWay
    <2>3. CASE Src(j) # a
      <3>1. w[Src(j)] = v[Src(j)]
        BY <1>1, <2>3
      <3> QED
        BY <2>1, <3>1 DEF OnItsWay
    <2> QED
      BY <2>2, <2>3
  <1>8. gg[i] = g[i] - x
    BY <1>2 DEF v, Gains
  <1>9. SumOf(f, Accounts) + SumOf(g, Orders) = SumOf(InitialBalance, Accounts)
    BY DEF SnapshotInv, v
  <1>10. x \in Int
    OBVIOUS
  <1> HIDE DEF f, ff, g, gg, x
  <1>11. ff[a] + gg[i] = f[a] + g[i]
    BY <1>3, <1>4, <1>6, <1>8, <1>10
  <1>12. Shifted(f, g, ff, gg)
    BY <1>3, <1>4, <1>5, <1>7, <1>11 DEF Shifted
  <1> QED
    BY <1>9, <1>12, SumsShifted DEF ff, gg

\* A debit is on its way from its time on.
LEMMA SnapshotSource ==
  ASSUME LocalWorkload, IInv, IInv', KindInv, LocalInv, StampInv, HistoryInv,
         InTime', BalancesFit, BalancesFit', SnapshotInv,
         NEW a \in Accounts, NEW p \in Procs \ {a}, StampedAsSource(a, p),
         UNCHANGED worker_pc
  PROVE  SnapshotInv'
  <1> DEFINE i == Oldest(p, a).val
             v == Newest(history)
             h == history[a]
             current == UpdateTime(Received(a, p), 0)
             amount == NowBalance(h) - Amount(i)
  <1>1. /\ i \in Orders /\ a = Src(i)
        /\ v[a] < current
        /\ history' = [history EXCEPT ![a] = history'[a]]
        /\ Extends(history'[a], h, v[a], current, current, amount, 0)
        /\ Newest(history') = [v EXCEPT ![a] = current]
        /\ HistoryInv'
    BY SourceWrites
  <1>2. /\ Requests(i) # 0
        /\ debited' = [debited EXCEPT ![i] = @ + 1]
        /\ balance' = [balance EXCEPT ![Src(i)] = @ - Amount(i)]
        /\ UNCHANGED credited
    BY SourceEffect DEF StampedAsSource
  <1>3. /\ InPlace(h, v[a]) /\ InPlace(history'[a], current)
        /\ NowBalance(h) = ToBalance(balance[a])
        /\ history \in [Accounts -> Histories]
    BY <1>1 DEF HistoryInv, PlacesInv, ValuesInv, Extends
  <1>4. /\ balance \in [Accounts -> Int]
        /\ debited \in [Orders -> Nat] /\ credited \in [Orders -> Nat]
    BY DEF IInv, TypeOK, ChildTypeOK
  <1> HIDE DEF i, v, h, current
  <1>5. Amount(i) \in Nat /\ a \in Accounts
    BY <1>1, OrderFacts
  <1>6. /\ NowBalance(h) = balance[a] /\ balance[a] \in Int
        /\ amount = balance'[a] /\ amount \in Int /\ ToBalance(amount) = amount
    <2>1. NowBalance(h) = balance[a] /\ balance[a] \in Int
      BY <1>3, <1>4 DEF BalancesFit
    <2>2. balance'[a] = balance[a] - Amount(i)
      BY <1>1, <1>2, <1>4
    <2>3. ToBalance(balance'[a]) = balance'[a]
      BY DEF BalancesFit
    <2> QED
      BY <1>5, <2>1, <2>2, <2>3
  <1>7. current \in Nat /\ v[a] \in Nat
    BY <1>3 DEF InPlace
  <1>8. amount - NowBalance(h) = - Amount(i)
    BY <1>5, <1>6
  <1> HIDE DEF amount
  <1>9. ASSUME NEW k \in Nat
        PROVE  ValueAt(history'[a], k)
                 = ValueAt(h, k) + (IF k < current THEN 0 ELSE - Amount(i))
    <2>1. v[a] < current /\ current <= current /\ 0 \in Int
      BY <1>1, <1>7
    <2>2. ValueAt(history'[a], k)
            = ValueAt(h, k) + (IF k < current THEN 0 ELSE amount - NowBalance(h))
      BY <1>1, <1>3, <1>6, <1>7, <2>1, ValuesAfter
    <2> QED
      BY <1>8, <2>2
  <1>10. /\ Held(i) /\ debited[i] = credited[i]
         /\ debited[i] \in Nat
    <2>1. /\ debited[i] \in Nat /\ credited[i] \in Nat /\ Replies(i) \in Nat
          /\ Requests(i) \in Nat /\ Forwards(i) \in Nat
      BY <1>1, OrderNumbers
    <2>2. Balanced(Held(i), Requests(i), Forwards(i), Replies(i), debited[i],
                   credited[i])
      BY <1>1 DEF LocalInv, OrderInv
    <2>3. Held(i)
      BY <1>2, <2>2 DEF Balanced
    <2> QED
      BY <1>2, <2>1, <2>2, <2>3 DEF Balanced
  <1>11. ASSUME NEW j \in Orders, j # i
         PROVE  /\ debited'[j] = debited[j] /\ credited'[j] = credited[j]
                /\ Src(j) = a => debited[j] = credited[j]
    <2>1. debited'[j] = debited[j] /\ credited'[j] = credited[j]
      BY <1>2, <1>4, <1>11
    <2>2. Src(j) = a => debited[j] = credited[j]
      BY <1>1, <1>10, <1>11, SettledApart
    <2> QED
      BY <2>1, <2>2
  <1>12. ASSUME NEW k \in Nat
         PROVE  OnItsWay(debited', credited', Newest(history'), k)[i]
                  = OnItsWay(debited, credited, v, k)[i]
                      - (IF k < current THEN 0 ELSE - Amount(i))
    <2>1. debited'[i] # credited'[i]
      BY <1>1, <1>2, <1>4, <1>10
    <2>2. Newest(history')[Src(i)] = current
      <3>1. v = [b \in Accounts |-> v[b]]
        BY DEF v, Newest
      <3> QED
        BY <1>1, <3>1
    <2>3. OnItsWay(debited, credited, v, k)[i] = 0
      BY <1>1, <1>10 DEF OnItsWay
    <2>4. OnItsWay(debited', credited', Newest(history'), k)[i]
            = IF current <= k THEN Amount(i) ELSE 0
      BY <1>1, <2>1, <2>2 DEF OnItsWay
    <2> QED
      BY <1>5, <1>7, <2>3, <2>4
  <1>13. \A b \in Accounts : b # a => history'[b] = history[b]
    BY <1>1, <1>3
  <1>14. Gains(a, i, current, current, - Amount(i))
    BY <1>1, <1>9, <1>11, <1>12, <1>13 DEF Gains, h, v
  <1>15. - Amount(i) \in Int
    BY <1>5
  <1> QED
    BY <1>1, <1>7, <1>14, <1>15, SnapshotWritten

\* A credit is pending from the time of the debit on, and then in the balance.
LEMMA SnapshotDestination ==
  ASSUME LocalWorkload, IInv, IInv', KindInv, LocalInv, StampInv, HistoryInv,
         InTime', BalancesFit, BalancesFit', SnapshotInv,
         NEW a \in Accounts, NEW p \in Procs \ {a}, StampedAsDestination(a, p),
         UNCHANGED worker_pc
  PROVE  SnapshotInv'
  <1> DEFINE i == Oldest(p, a).val
             v == Newest(history)
             h == history[a]
             u == Stamp(p, a)
             current == ReceivedAgain(a, p)
             amount == NowBalance(h) + Amount(i)
  <1>1. /\ i \in Orders /\ a = Dst(i) /\ p = Src(i)
        /\ u \in Nat /\ v[a] < u /\ u < current /\ v[p] = u
        /\ history' = [history EXCEPT ![a] = history'[a]]
        /\ Extends(history'[a], h, v[a], u, current, amount, Amount(i))
        /\ Newest(history') = [v EXCEPT ![a] = current]
        /\ HistoryInv'
    BY DestinationWrites
  <1>2. /\ Forwards(i) # 0
        /\ credited' = [credited EXCEPT ![i] = @ + 1]
        /\ balance' = [balance EXCEPT ![Dst(i)] = @ + Amount(i)]
        /\ UNCHANGED debited
    BY DestinationEffect DEF StampedAsDestination, LocalInv
  <1>3. /\ InPlace(h, v[a]) /\ InPlace(history'[a], current)
        /\ NowBalance(h) = ToBalance(balance[a])
        /\ history \in [Accounts -> Histories]
    BY <1>1 DEF HistoryInv, PlacesInv, ValuesInv, Extends
  <1>4. /\ balance \in [Accounts -> Int]
        /\ debited \in [Orders -> Nat] /\ credited \in [Orders -> Nat]
    BY DEF IInv, TypeOK, ChildTypeOK
  <1> HIDE DEF i, v, h, u, current
  <1>5. Amount(i) \in Nat /\ Src(i) \in Accounts /\ Src(i) # a
    BY <1>1, OrderFacts, OrderEnds
  <1>6. /\ NowBalance(h) = balance[a] /\ balance[a] \in Int
        /\ amount = balance'[a] /\ amount \in Int /\ ToBalance(amount) = amount
    <2>1. NowBalance(h) = balance[a] /\ balance[a] \in Int
      BY <1>3, <1>4 DEF BalancesFit
    <2>2. balance'[a] = balance[a] + Amount(i)
      BY <1>1, <1>2, <1>4
    <2>3. ToBalance(balance'[a]) = balance'[a]
      BY DEF BalancesFit
    <2> QED
      BY <1>5, <2>1, <2>2, <2>3
  <1>7. current \in Nat /\ v[a] \in Nat
    BY <1>3 DEF InPlace
  <1>8. amount - NowBalance(h) = Amount(i)
    BY <1>5, <1>6
  <1> HIDE DEF amount
  <1>9. ASSUME NEW k \in Nat
        PROVE  ValueAt(history'[a], k)
                 = ValueAt(h, k) + (IF k < u THEN 0 ELSE Amount(i))
    <2>1. /\ u \in Nat /\ v[a] < u /\ u <= current /\ Amount(i) \in Int
          /\ Amount(i) = amount - NowBalance(h)
      BY <1>1, <1>5, <1>7, <1>8
    <2>2. ValueAt(history'[a], k)
            = ValueAt(h, k) + (IF k < u THEN 0 ELSE amount - NowBalance(h))
      BY <1>1, <1>3, <1>6, <1>7, <2>1, ValuesAfter
    <2> QED
      BY <1>8, <2>2
  <1>10. /\ Held(i) /\ debited[i] = credited[i] + 1
         /\ credited[i] \in Nat
    <2>1. /\ debited[i] \in Nat /\ credited[i] \in Nat /\ Replies(i) \in Nat
          /\ Requests(i) \in Nat /\ Forwards(i) \in Nat
      BY <1>1, OrderNumbers
    <2>2. Balanced(Held(i), Requests(i), Forwards(i), Replies(i), debited[i],
                   credited[i])
      BY <1>1 DEF LocalInv, OrderInv
    <2>3. Held(i)
      BY <1>2, <2>2 DEF Balanced
    <2> QED
      BY <1>2, <2>1, <2>2, <2>3 DEF Balanced
  <1>11. ASSUME NEW j \in Orders, j # i
         PROVE  /\ debited'[j] = debited[j] /\ credited'[j] = credited[j]
                /\ Src(j) = a => debited[j] = credited[j]
    <2>1. debited'[j] = debited[j] /\ credited'[j] = credited[j]
      BY <1>2, <1>4, <1>11
    <2>2. GetShardId(a) = GetShardId(Src(i))
      BY <1>1, OrderNumbers
    <2>3. Src(j) = a => debited[j] = credited[j]
      BY <1>1, <1>10, <1>11, <2>2, SettledApart
    <2> QED
      BY <2>1, <2>3
  <1>12. ASSUME NEW k \in Nat
         PROVE  OnItsWay(debited', credited', Newest(history'), k)[i]
                  = OnItsWay(debited, credited, v, k)[i]
                      - (IF k < u THEN 0 ELSE Amount(i))
    <2>1. debited'[i] = credited'[i] /\ debited[i] # credited[i]
      BY <1>1, <1>2, <1>4, <1>10
    <2>2. OnItsWay(debited', credited', Newest(history'), k)[i] = 0
      BY <1>1, <2>1 DEF OnItsWay
    <2>3. OnItsWay(debited, credited, v, k)[i] = IF u <= k THEN Amount(i) ELSE 0
      BY <1>1, <2>1 DEF OnItsWay
    <2> QED
      BY <1>1, <1>5, <2>2, <2>3
  <1>13. \A b \in Accounts : b # a => history'[b] = history[b]
    BY <1>1, <1>3
  <1>14. Gains(a, i, current, u, Amount(i))
    BY <1>1, <1>9, <1>11, <1>12, <1>13 DEF Gains, h, v
  <1>15. Amount(i) \in Int
    BY <1>5
  <1> QED
    BY <1>1, <1>7, <1>14, <1>15, SnapshotWritten

LEMMA SnapshotInitial == StampedInit => SnapshotInv
  <1> SUFFICES ASSUME StampedInit, NEW t \in Nat
               PROVE  SumOf(Values(history, t), Accounts)
                        + SumOf(OnItsWay(debited, credited, Newest(history), t), Orders)
                        = SumOf(InitialBalance, Accounts)
    BY DEF SnapshotInv
  <1>1. PICK before \in Before :
          history = [a \in Accounts |-> InitHistory(InitialBalance[a], before)]
    BY DEF StampedInit
  <1>2. MAX_T \in Nat \ {0} /\ InitialBalance \in [Accounts -> 0 .. 255]
    BY MaxTAssumption, InitialBalanceAssumption
  <1>3. HistoryInv
    BY HistoryInitial
  <1>4. ASSUME NEW a \in Accounts
        PROVE  ValueAt(history[a], t) = InitialBalance[a]
    <2> DEFINE x == InitialBalance[a]
               f == [k \in 0 .. MAX_T |-> State(IF k < MAX_T THEN k ELSE 0,
                                                IF k = 0 THEN x ELSE 0, 0)]
               h == history[a]
    <2>1. x \in Int
      BY <1>2
    <2>2. h = [s_history_len |-> 1, s_history |-> f, before |-> before]
      BY <1>1 DEF InitHistory
    <2> HIDE DEF x
    <2>3. f[0] = State(0, x, 0)
      BY <1>2
    <2> HIDE DEF f
    <2>4. h.s_history_len = 1 /\ h.s_history[0] = State(0, x, 0)
      BY <2>2, <2>3
    <2> HIDE DEF h
    <2>5. NowBalance(h) = x
      BY <2>4 DEF NowBalance, LastState, State
    <2>6. At(h, t) = State(t, x, 0)
      <3>1. CASE t = 0
        BY <2>4, <3>1 DEF At
      <3>2. CASE t # 0
        BY <2>4, <2>5, <3>2 DEF At
      <3> QED
        BY <3>1, <3>2
    <2>7. ValueAt(h, t) = x
      BY <2>1, <2>6 DEF ValueAt, State
    <2> QED
      BY <2>7 DEF h, x
  <1>5. Values(history, t) = InitialBalance
    BY <1>2, <1>4 DEF Values
  <1> DEFINE g == OnItsWay(debited, credited, Newest(history), t)
  <1>6. g \in [Orders -> Int]
    BY <1>3, SumsType
  <1>7. \A i \in Orders : g[i] = 0
    BY DEF StampedInit, Init, ChildInit, OnItsWay
  <1> HIDE DEF g
  <1>8. SumOf(g, Orders) = 0
    BY <1>6, <1>7, FiniteData, SumOfZeroes
  <1>9. InitialBalance \in [Accounts -> Int]
    BY <1>2
  <1>10. SumOf(InitialBalance, Accounts) \in Int
    BY <1>9, FiniteData, SumOfType
  <1> QED
    BY <1>5, <1>8, <1>10 DEF g

LEMMA SnapshotInductive ==
  ASSUME LocalWorkload, IInv, IInv', ChannelInv, LocalInv, StampInv, HistoryInv,
         InTime', BalancesFit, BalancesFit', SnapshotInv, [StampedNext]_allVars
  PROVE  SnapshotInv'
  <1>1. ASSUME UNCHANGED <<history, debited, credited>>
        PROVE  SnapshotInv'
    BY <1>1 DEF SnapshotInv, Newest
  <1>2. CASE StampedMain
    BY <1>1, <1>2, MainHistories
  <1>3. ASSUME NEW s \in Shards, DrawStamp(s)
        PROVE  SnapshotInv'
    BY <1>1, <1>3, DrawHistories
  <1>4. ASSUME NEW s \in Shards, StampedWorker(s)
        PROVE  SnapshotInv'
    BY <1>1, <1>4, WorkerHistories
  <1>5. ASSUME NEW a \in Accounts, StampedAccount(a)
        PROVE  SnapshotInv'
    <2>1. UNCHANGED worker_pc
      BY <1>5 DEF StampedAccount, parentVars, poolVars
    <2>2. KindInv
      BY DEF ChannelInv
    <2>3. ASSUME NEW p \in Procs \ {a}, StampedAsSource(a, p)
          PROVE  SnapshotInv'
      BY <2>1, <2>2, <2>3, SnapshotSource
    <2>4. ASSUME NEW p \in Procs \ {a}, StampedAsDestination(a, p)
          PROVE  SnapshotInv'
      BY <2>1, <2>2, <2>4, SnapshotDestination
    <2>5. CASE \A p \in Procs \ {a} : /\ ~ StampedAsSource(a, p)
                                      /\ ~ StampedAsDestination(a, p)
      BY <1>1, <1>5, <2>5, OtherAccountSteps
    <2> QED
      BY <2>3, <2>4, <2>5
  <1>6. CASE UNCHANGED allVars
    BY <1>1, <1>6 DEF allVars, vars, childVars, stampVars
  <1>7. CASE Terminated /\ UNCHANGED stampVars
    BY <1>6, <1>7 DEF Terminated, allVars
  <1> QED
    BY <1>2, <1>3, <1>4, <1>5, <1>6, <1>7 DEF StampedNext

\* The sum of the snapshot, by its recursion.
LEMMA SnapshotSum ==
  ASSUME HistoryInv, NEW t \in Nat
  PROVE  TotalAt(t) = SumOf(Values(history, t), Accounts)
  <1> DEFINE f == Values(history, t)
             Rec(g) ==
               g = [s \in SUBSET Accounts |->
                      IF s = {} THEN 0
                      ELSE LET x == CHOOSE x \in s : TRUE
                           IN  (StateAt(x, t).s_balance
                                  + StateAt(x, t).s_balance_pending_in) + g[s \ {x}]]
  <1>1. TotalAt(t) = (CHOOSE g : Rec(g))[Accounts]
    BY DEF TotalAt, MapThenSumSet, MapThenFoldSet
  <1>2. \A a \in Accounts :
          StateAt(a, t).s_balance + StateAt(a, t).s_balance_pending_in = f[a]
    BY DEF Values, ValueAt, At, StateAt
  <1>3. f \in [Accounts -> Int]
    BY SumsType
  <1>4. ASSUME NEW s \in SUBSET Accounts, s # {}
        PROVE  First(s) \in Accounts
    BY <1>4 DEF First
  <1> HIDE DEF f
  <1>5. ASSUME NEW g
        PROVE  Rec(g) <=> IsSum(g, f, Accounts)
    <2>1. ASSUME NEW s \in SUBSET Accounts
          PROVE  (IF s = {} THEN 0
                  ELSE LET x == CHOOSE x \in s : TRUE
                       IN  (StateAt(x, t).s_balance
                              + StateAt(x, t).s_balance_pending_in) + g[s \ {x}])
                   = PartialSum(f, g, s)
      <3>1. CASE s = {}
        BY <3>1 DEF PartialSum
      <3>2. CASE s # {}
        <4>1. StateAt(First(s), t).s_balance + StateAt(First(s), t).s_balance_pending_in
                = f[First(s)]
          BY <1>2, <1>4, <3>2
        <4> QED
          BY <3>2, <4>1 DEF PartialSum, First
      <3> QED
        BY <3>1, <3>2
    <2>2. [s \in SUBSET Accounts |->
             IF s = {} THEN 0
             ELSE LET x == CHOOSE x \in s : TRUE
                  IN  (StateAt(x, t).s_balance
                         + StateAt(x, t).s_balance_pending_in) + g[s \ {x}]]
            = [s \in SUBSET Accounts |-> PartialSum(f, g, s)]
      BY <2>1
    <2> QED
      BY <2>2 DEF IsSum
  <1>6. \E g : IsSum(g, f, Accounts)
    BY <1>3, FiniteData, SumExists
  <1> HIDE DEF Rec
  <1>7. Rec(CHOOSE g : Rec(g))
    BY <1>5, <1>6
  <1>8. IsSum(CHOOSE g : Rec(g), f, Accounts)
    BY <1>5, <1>7
  <1>9. SumOf(f, Accounts) = (CHOOSE g : Rec(g))[Accounts]
    BY <1>3, <1>8, FiniteData, SumUnique
  <1> QED
    BY <1>1, <1>9 DEF f

\* The histories are a consistent cut for every time (banking.h:28-32): once no
\* transfer is under way, the balances and what is pending add up to what there
\* was at the start, as long as no balance overflows and no clock passes the
\* length of a history.
THEOREM SnapshotsConserve ==
  ASSUME LocalWorkload
  PROVE  StampedSpec /\ []BalancesFit => [](InTime => SnapshotConserves)
  <1> DEFINE Inv == InTime => SnapshotInv
             HInv == InTime => HistoryInv
  <1>1. StampedInit => Inv
    BY SnapshotInitial
  <1>2. IInv /\ IInv' /\ ChannelInv /\ LocalInv /\ StampInv /\ HInv /\ BalancesFit
          /\ BalancesFit' /\ Inv /\ [StampedNext]_allVars => Inv'
    <2> SUFFICES ASSUME IInv, IInv', ChannelInv, LocalInv, StampInv, HInv,
                        BalancesFit, BalancesFit', Inv, [StampedNext]_allVars,
                        InTime'
                 PROVE  SnapshotInv'
      OBVIOUS
    <2> HIDE DEF Inv, HInv
    <2>1. InTime
      BY InTimeBefore
    <2>2. HistoryInv /\ SnapshotInv
      BY <2>1 DEF Inv, HInv
    <2> QED
      BY <2>2, SnapshotInductive
  <1>3. HInv /\ Inv => (InTime => SnapshotConserves)
    <2> SUFFICES ASSUME HistoryInv, SnapshotInv,
                        \A i \in Orders : debited[i] = credited[i],
                        NEW t \in Times
                 PROVE  TotalAt(t) = InitialTotal
      BY DEF SnapshotConserves
    <2>1. t \in Nat
      <3> DEFINE n == MapThenSumSet(LAMBDA a : history[a].s_history_len, Accounts)
      <3>1. t \in 0 .. n
        BY DEF Times
      <3> HIDE DEF n
      <3> QED
        BY <3>1
    <2>2. InitialTotal = SumOf(InitialBalance, Accounts)
      BY DEF InitialTotal, MapThenSumSet, MapThenFoldSet, SumOf, IsSum,
             PartialSum, First
    <2> DEFINE g == OnItsWay(debited, credited, Newest(history), t)
    <2>3. g \in [Orders -> Int] /\ Values(history, t) \in [Accounts -> Int]
      BY <2>1, SumsType
    <2>4. \A i \in Orders : g[i] = 0
      BY DEF OnItsWay
    <2>5. SumOf(Values(history, t), Accounts) + SumOf(g, Orders)
            = SumOf(InitialBalance, Accounts)
      BY <2>1 DEF SnapshotInv
    <2> HIDE DEF g
    <2>6. SumOf(g, Orders) = 0 /\ SumOf(Values(history, t), Accounts) \in Int
      BY <2>3, <2>4, FiniteData, SumOfZeroes, SumOfType
    <2>7. SumOf(Values(history, t), Accounts) = SumOf(InitialBalance, Accounts)
      BY <2>5, <2>6
    <2> QED
      BY <2>1, <2>2, <2>7, SnapshotSum
  <1>4. StampedSpec => []ChannelInv /\ []LocalInv
    BY StampedImplementsBank, ChannelInvariance, LocalInvariance, PTL
  <1>5. StampedSpec => []HInv
    BY HistoryInvariance
  <1> HIDE DEF Inv, HInv
  <1>6. StampedSpec /\ []BalancesFit => []Inv
    BY <1>1, <1>2, <1>4, <1>5, BankInvariance, StampInvariance, PTL
    DEF StampedSpec
  <1> QED
    BY <1>3, <1>5, <1>6, PTL

\* So both hold of every run of local transfers that together leave the 16 bits
\* room, as those of phase 2 do (parent_controller.cpp:44-49), while the clocks
\* are in time.
THEOREM SmallTransfersAreRecorded ==
  ASSUME LocalWorkload, Turnover <= 32767 - 255
  PROVE  StampedSpec => [](InTime => HistoryKeepsBalance /\ SnapshotConserves)
  <1>1. StampedSpec => []BalancesFit
    BY BalancesAlwaysFit
  <1>2. StampedSpec => [](InTime /\ BalancesFit => HistoryKeepsBalance)
    BY NowBalanceIsBalance
  <1>3. StampedSpec /\ []BalancesFit => [](InTime => SnapshotConserves)
    BY SnapshotsConserve
  <1> QED
    BY <1>1, <1>2, <1>3, PTL
=============================================================================
