--------------------------- MODULE ContextProofs ---------------------------
(***************************************************************************)
(* The bookkeeping of cross-shard transfers, for any number of accounts    *)
(* and shards and any workload: while the map of contexts exists it holds  *)
(* the contexts of the transfers under way and no other, and each shard of *)
(* the manager is a TaskQueue.                                             *)
(***************************************************************************)
EXTENDS BankSystemProofs, Counting

-----------------------------------------------------------------------------
(***************************************************************************)
(* Where cross-shard tasks are.  A shard is a line of places: place 0 is   *)
(* the worker's, the others are the queue's.  A place holds the label of   *)
(* its task when the transfer still depends on it, and nothing otherwise;  *)
(* a worker that has queued step 2 and not yet returned holds nothing.     *)
(***************************************************************************)
Cross(t) == t.task_type # "LOCAL_TRANSFER"
Label(t) == <<t.order, t.correlation_id>>
Labels == Int \X Int

Marks(t) == IF Cross(t) THEN {Label(t)} ELSE {}
Held(pc, t) == IF pc = "step2_notify" THEN {} ELSE Marks(t)
Place(pc, t, q, j) ==
  IF j = 0 THEN Held(pc, t) ELSE IF j <= Len(q) THEN Marks(q[j]) ELSE {}

Line(pc, t, q) == [j \in Nat |-> Place(pc, t, q, j)]
Lines == [s \in Shards |-> Line(worker_pc[s], task[s], task_queue[s])]
Layouts == [Shards -> [Nat -> SUBSET Labels]]

\* No correlation id is in two places.
UniqueIn(M) ==
  \A s, r \in Shards, j, k \in Nat : \A x \in M[s][j], y \in M[r][k] :
    x[2] = y[2] => s = r /\ j = k

\* The contexts in C are those of the labels in M.
TrackedBy(M, C) ==
  /\ \A c \in C : \E s \in Shards, j \in Nat : Label(c.task) \in M[s][j]
  /\ \A s \in Shards, j \in Nat : \A x \in M[s][j] : \E c \in C : x = Label(c.task)

LEMMA TaskLabels ==
  \A t \in Tasks \cup {NoTask} :
    /\ Label(t) \in Labels
    /\ Marks(t) \in SUBSET Labels
    /\ t.order \in Nat /\ t.correlation_id \in Nat
    /\ Marks(NoTask) = {}
  <1>1. \A t \in Tasks : t.order \in Orders /\ t.correlation_id \in Nat
    BY TaskFacts
  <1>2. \A t \in Tasks : t.order \in Nat
    BY <1>1, OrderFacts
  <1>3. /\ NoTask.order = 0 /\ NoTask.correlation_id = 0
        /\ NoTask.task_type = "LOCAL_TRANSFER"
    BY DEF NoTask, LocalTask, Task
  <1>4. \A t \in Tasks \cup {NoTask} : t.order \in Nat /\ t.correlation_id \in Nat
    BY <1>1, <1>2, <1>3
  <1> QED
    BY <1>3, <1>4 DEF Label, Labels, Marks, Cross

LEMMA LineType ==
  ASSUME NEW pc, NEW t \in Tasks \cup {NoTask}, NEW q \in Seq(Tasks)
  PROVE  Line(pc, t, q) \in [Nat -> SUBSET Labels]
  <1>1. Len(q) \in Nat /\ \A j \in 1 .. Len(q) : q[j] \in Tasks
    BY LenProperties, ElementOfSeq
  <1>2. ASSUME NEW j \in Nat
        PROVE  Place(pc, t, q, j) \in SUBSET Labels
    <2>1. CASE j = 0
      BY <2>1, TaskLabels DEF Place, Held
    <2>2. CASE j # 0 /\ j <= Len(q)
      <3>1. j \in 1 .. Len(q)
        BY <2>2, <1>1
      <3> QED
        BY <2>2, <3>1, <1>1, TaskLabels DEF Place
    <2>3. CASE j # 0 /\ ~ j <= Len(q)
      BY <2>3 DEF Place
    <2> QED
      BY <2>1, <2>2, <2>3
  <1> QED
    BY <1>2 DEF Line

LEMMA LayoutType ==
  ASSUME NEW pcs, NEW ts \in [Shards -> Tasks \cup {NoTask}],
         NEW qs \in [Shards -> Seq(Tasks)]
  PROVE  [s \in Shards |-> Line(pcs[s], ts[s], qs[s])] \in Layouts
  <1>1. \A s \in Shards : Line(pcs[s], ts[s], qs[s]) \in [Nat -> SUBSET Labels]
    BY LineType
  <1> QED
    BY <1>1 DEF Layouts

LEMMA LinesType ==
  ASSUME IInv, IInv'
  PROVE  Lines \in Layouts /\ Lines' \in Layouts
  <1>0. /\ task \in [Shards -> Tasks \cup {NoTask}]
        /\ task_queue \in [Shards -> Seq(Tasks)]
    BY DEF IInv, TypeOK, PoolTypeOK
  <1>1. [s \in Shards |-> Line(worker_pc[s], task[s], task_queue[s])] \in Layouts
    BY <1>0, LayoutType
  <1>2. /\ task' \in [Shards -> Tasks \cup {NoTask}]
        /\ task_queue' \in [Shards -> Seq(Tasks)]
    BY DEF IInv, TypeOK, PoolTypeOK
  <1>3. [s \in Shards |-> Line(worker_pc'[s], task'[s], task_queue'[s])] \in Layouts
    BY <1>2, LayoutType
  <1>4. Lines' = [s \in Shards |-> Line(worker_pc'[s], task'[s], task_queue'[s])]
    BY DEF Lines
  <1> QED
    BY <1>1, <1>3, <1>4 DEF Lines

\* Taking the oldest task moves the line up by one place.
LEMMA LineTake ==
  ASSUME NEW pc, NEW pd, NEW q \in Seq(Tasks), q # << >>, pd # "step2_notify"
  PROVE  Line(pd, Head(q), Tail(q)) = [j \in Nat |-> Line(pc, NoTask, q)[j + 1]]
  <1>1. /\ Head(q) = q[1] /\ Len(q) \in Nat \ {0}
        /\ Len(Tail(q)) = Len(q) - 1
        /\ \A j \in 1 .. Len(q) - 1 : Tail(q)[j] = q[j + 1]
    BY TakeHeadFacts
  <1>2. ASSUME NEW j \in Nat
        PROVE  Place(pd, Head(q), Tail(q), j) = Place(pc, NoTask, q, j + 1)
    <2>1. CASE j = 0
      BY <1>1, <2>1 DEF Place, Held
    <2>2. CASE j # 0 /\ j <= Len(q) - 1
      <3>1. j \in 1 .. Len(q) - 1 /\ j + 1 # 0 /\ j + 1 <= Len(q)
        BY <1>1, <2>2
      <3> QED
        BY <1>1, <2>2, <3>1 DEF Place
    <2>3. CASE j # 0 /\ ~ j <= Len(q) - 1
      <3>1. j + 1 # 0 /\ ~ j + 1 <= Len(q)
        BY <1>1, <2>3
      <3> QED
        BY <1>1, <2>3, <3>1 DEF Place
    <2> QED
      BY <2>1, <2>2, <2>3
  <1> QED
    BY <1>2 DEF Line

\* Line L becomes K: place n, which was free, gets the label in x.
Fills(L, K, n, x) ==
  /\ n \in Nat \ {0} /\ L[n] = {}
  /\ K = [L EXCEPT ![n] = x]

\* A push adds a place at the end.
LEMMA LinePush ==
  ASSUME NEW pc, NEW t, NEW q \in Seq(Tasks), NEW m \in Tasks
  PROVE  Fills(Line(pc, t, q), Line(pc, t, Append(q, m)), Len(q) + 1, Marks(m))
  <1>1. /\ Len(q) \in Nat
        /\ Len(Append(q, m)) = Len(q) + 1
        /\ \A j \in 1 .. Len(q) : Append(q, m)[j] = q[j]
        /\ Append(q, m)[Len(q) + 1] = m
    BY AppendFacts
  <1>2. Line(pc, t, q) = [j \in Nat |-> Line(pc, t, q)[j]]
    BY DEF Line
  <1>3. ASSUME NEW j \in Nat
        PROVE  Place(pc, t, Append(q, m), j)
                 = IF j = Len(q) + 1 THEN Marks(m) ELSE Place(pc, t, q, j)
    <2>1. CASE j = 0
      BY <1>1, <2>1 DEF Place
    <2>2. CASE j \in 1 .. Len(q)
      BY <1>1, <2>2 DEF Place
    <2>3. CASE j = Len(q) + 1
      BY <1>1, <2>3 DEF Place
    <2>4. CASE j > Len(q) + 1
      BY <1>1, <2>4 DEF Place
    <2> QED
      BY <1>1, <2>1, <2>2, <2>3, <2>4
  <1>4. Len(q) + 1 \in Nat \ {0} /\ Line(pc, t, q)[Len(q) + 1] = {}
    BY <1>1 DEF Line, Place
  <1> QED
    BY <1>3, <1>4 DEF Line, Fills

\* What the worker does changes place 0.
LEMMA LineWork ==
  ASSUME NEW pc, NEW t, NEW pd, NEW u, NEW q
  PROVE  /\ Line(pd, u, q) = [Line(pc, t, q) EXCEPT ![0] = Held(pd, u)]
         /\ Line(pc, t, q)[0] = Held(pc, t)
         /\ Held(pc, t) = Held(pd, u) => Line(pd, u, q) = Line(pc, t, q)
  BY DEF Line, Place

-----------------------------------------------------------------------------
(***************************************************************************)
(* How a layout may change.                                                *)
(***************************************************************************)
\* A worker without a label takes the oldest task of its shard.
LEMMA LayoutTake ==
  ASSUME NEW M \in Layouts, NEW s \in Shards, M[s][0] = {}, UniqueIn(M)
  PROVE  LET L == [M EXCEPT ![s] = [j \in Nat |-> M[s][j + 1]]]
         IN  UniqueIn(L) /\ \A C : TrackedBy(M, C) => TrackedBy(L, C)
  <1> DEFINE L == [M EXCEPT ![s] = [j \in Nat |-> M[s][j + 1]]]
  <1>1. /\ \A j \in Nat : L[s][j] = M[s][j + 1] /\ j + 1 \in Nat
        /\ \A r \in Shards : r # s => L[r] = M[r]
    BY DEF Layouts
  <1>2. \A j \in Nat : j # 0 => j - 1 \in Nat /\ M[s][j] = L[s][j - 1]
    BY <1>1
  <1> HIDE DEF L
  <1>3. UniqueIn(L)
    <2> SUFFICES ASSUME NEW r1 \in Shards, NEW r2 \in Shards, NEW j \in Nat,
                        NEW k \in Nat, NEW x \in L[r1][j], NEW y \in L[r2][k],
                        x[2] = y[2]
                 PROVE  r1 = r2 /\ j = k
      BY DEF UniqueIn
    <2>1. CASE r1 # s /\ r2 # s
      <3>1. x \in M[r1][j] /\ y \in M[r2][k]
        BY <1>1, <2>1
      <3> QED
        BY <3>1 DEF UniqueIn
    <2>2. CASE r1 = s /\ r2 # s
      <3>1. x \in M[s][j + 1] /\ y \in M[r2][k] /\ j + 1 \in Nat
        BY <1>1, <2>2
      <3> QED
        BY <2>2, <3>1 DEF UniqueIn
    <2>3. CASE r1 # s /\ r2 = s
      <3>1. x \in M[r1][j] /\ y \in M[s][k + 1] /\ k + 1 \in Nat
        BY <1>1, <2>3
      <3> QED
        BY <2>3, <3>1 DEF UniqueIn
    <2>4. CASE r1 = s /\ r2 = s
      <3>1. /\ x \in M[s][j + 1] /\ y \in M[s][k + 1]
            /\ j + 1 \in Nat /\ k + 1 \in Nat
        BY <1>1, <2>4
      <3>2. j + 1 = k + 1
        BY <3>1 DEF UniqueIn
      <3> QED
        BY <2>4, <3>2
    <2> QED
      BY <2>1, <2>2, <2>3, <2>4
  <1>4. ASSUME NEW C, TrackedBy(M, C)
        PROVE  TrackedBy(L, C)
    <2>1. ASSUME NEW c \in C
          PROVE  \E r \in Shards, j \in Nat : Label(c.task) \in L[r][j]
      <3>1. PICK r \in Shards, j \in Nat : Label(c.task) \in M[r][j]
        BY <1>4 DEF TrackedBy
      <3>2. CASE r # s
        BY <1>1, <3>1, <3>2
      <3>3. CASE r = s
        BY <1>2, <3>1, <3>3
      <3> QED
        BY <3>2, <3>3
    <2>2. ASSUME NEW r \in Shards, NEW j \in Nat, NEW x \in L[r][j]
          PROVE  \E c \in C : x = Label(c.task)
      <3>1. CASE r # s
        BY <1>1, <1>4, <2>2, <3>1 DEF TrackedBy
      <3>2. CASE r = s
        <4>1. x \in M[s][j + 1] /\ j + 1 \in Nat
          BY <1>1, <2>2, <3>2
        <4> QED
          BY <1>4, <4>1 DEF TrackedBy
      <3> QED
        BY <3>1, <3>2
    <2> QED
      BY <2>1, <2>2 DEF TrackedBy
  <1> QED
    BY <1>3, <1>4 DEF L

\* A label moves from one place to another that has none.
LEMMA LayoutMove ==
  ASSUME NEW M \in Layouts, NEW L \in Layouts, UniqueIn(M),
         NEW s \in Shards, NEW j \in Nat, NEW d \in Shards, NEW n \in Nat,
         M[d][n] = {}, L[s][j] = {}, L[d][n] = M[s][j],
         \A r \in Shards, k \in Nat :
           <<r, k>> \notin {<<s, j>>, <<d, n>>} => L[r][k] = M[r][k]
  PROVE  UniqueIn(L) /\ \A C : TrackedBy(M, C) => TrackedBy(L, C)
  <1>1. ASSUME NEW r \in Shards, NEW k \in Nat, NEW x \in L[r][k]
        PROVE  IF r = d /\ k = n THEN x \in M[s][j]
                                 ELSE x \in M[r][k] /\ ~ (r = s /\ k = j)
    <2>1. ~ (r = s /\ k = j)
      BY <1>1
    <2> QED
      BY <1>1, <2>1
  <1>2. UniqueIn(L)
    <2> SUFFICES ASSUME NEW r1 \in Shards, NEW r2 \in Shards, NEW j1 \in Nat,
                        NEW j2 \in Nat, NEW x \in L[r1][j1], NEW y \in L[r2][j2],
                        x[2] = y[2]
                 PROVE  r1 = r2 /\ j1 = j2
      BY DEF UniqueIn
    <2>1. CASE r1 = d /\ j1 = n
      <3>1. CASE r2 = d /\ j2 = n
        BY <2>1, <3>1
      <3>2. CASE ~ (r2 = d /\ j2 = n)
        <4>1. x \in M[s][j] /\ y \in M[r2][j2] /\ ~ (r2 = s /\ j2 = j)
          BY <1>1, <2>1, <3>2
        <4> QED
          BY <4>1 DEF UniqueIn
      <3> QED
        BY <3>1, <3>2
    <2>2. CASE ~ (r1 = d /\ j1 = n)
      <3>0. x \in M[r1][j1] /\ ~ (r1 = s /\ j1 = j)
        BY <1>1, <2>2
      <3>1. CASE r2 = d /\ j2 = n
        <4>1. y \in M[s][j]
          BY <1>1, <3>1
        <4> QED
          BY <3>0, <4>1 DEF UniqueIn
      <3>2. CASE ~ (r2 = d /\ j2 = n)
        <4>1. y \in M[r2][j2]
          BY <1>1, <3>2
        <4> QED
          BY <3>0, <4>1 DEF UniqueIn
      <3> QED
        BY <3>1, <3>2
    <2> QED
      BY <2>1, <2>2
  <1>3. ASSUME NEW C, TrackedBy(M, C)
        PROVE  TrackedBy(L, C)
    <2>1. ASSUME NEW c \in C
          PROVE  \E r \in Shards, k \in Nat : Label(c.task) \in L[r][k]
      <3>1. PICK r \in Shards, k \in Nat : Label(c.task) \in M[r][k]
        BY <1>3 DEF TrackedBy
      <3>2. CASE r = s /\ k = j
        BY <3>1, <3>2
      <3>3. CASE ~ (r = s /\ k = j)
        <4>1. ~ (r = d /\ k = n)
          BY <3>1
        <4>2. L[r][k] = M[r][k]
          BY <3>3, <4>1
        <4> QED
          BY <3>1, <4>2
      <3> QED
        BY <3>2, <3>3
    <2>2. ASSUME NEW r \in Shards, NEW k \in Nat, NEW x \in L[r][k]
          PROVE  \E c \in C : x = Label(c.task)
      <3>1. x \in M[s][j] \/ x \in M[r][k]
        BY <1>1, <2>2
      <3> QED
        BY <1>3, <3>1 DEF TrackedBy
    <2> QED
      BY <2>1, <2>2 DEF TrackedBy
  <1> QED
    BY <1>2, <1>3

\* A place loses its label, and the contexts of its correlation id go.
LEMMA LayoutDrop ==
  ASSUME NEW M \in Layouts, NEW L \in Layouts, UniqueIn(M),
         NEW s \in Shards, NEW j \in Nat, L[s][j] = {},
         \A r \in Shards, k \in Nat : ~ (r = s /\ k = j) => L[r][k] = M[r][k]
  PROVE  /\ UniqueIn(L)
         /\ \A C, x : /\ TrackedBy(M, C) /\ M[s][j] = {x}
                      => TrackedBy(L, C \ {c \in C : c.task.correlation_id = x[2]})
  <1>1. \A r \in Shards, k \in Nat : \A x \in L[r][k] :
          x \in M[r][k] /\ ~ (r = s /\ k = j)
    OBVIOUS
  <1>2. UniqueIn(L)
    BY <1>1 DEF UniqueIn
  <1>3. ASSUME NEW C, NEW x, TrackedBy(M, C), M[s][j] = {x}
        PROVE  TrackedBy(L, C \ {c \in C : c.task.correlation_id = x[2]})
    <2>0. \A c : Label(c.task)[2] = c.task.correlation_id
      BY DEF Label
    <2>1. ASSUME NEW c \in C, c.task.correlation_id # x[2]
          PROVE  \E r \in Shards, k \in Nat : Label(c.task) \in L[r][k]
      <3>1. PICK r \in Shards, k \in Nat : Label(c.task) \in M[r][k]
        BY <1>3 DEF TrackedBy
      <3>2. ~ (r = s /\ k = j)
        BY <1>3, <2>0, <2>1, <3>1
      <3> QED
        BY <3>1, <3>2
    <2>2. ASSUME NEW r \in Shards, NEW k \in Nat, NEW y \in L[r][k]
          PROVE  \E c \in C : c.task.correlation_id # x[2] /\ y = Label(c.task)
      <3>1. y \in M[r][k] /\ ~ (r = s /\ k = j)
        BY <1>1
      <3>2. y[2] # x[2]
        BY <1>3, <3>1 DEF UniqueIn
      <3>3. PICK c \in C : y = Label(c.task)
        BY <1>3, <3>1 DEF TrackedBy
      <3> QED
        BY <2>0, <3>2, <3>3
    <2> QED
      BY <2>1, <2>2 DEF TrackedBy
  <1> QED
    BY <1>2, <1>3

\* L is M with the labels X in a place that had none.
Added(M, L, X) ==
  \E d \in Shards, n \in Nat :
    /\ M[d][n] = {} /\ L[d][n] = X
    /\ \A r \in Shards, k \in Nat : ~ (r = d /\ k = n) => L[r][k] = M[r][k]

\* No label of M has the correlation id of x.
Fresh(M, x) == \A r \in Shards, k \in Nat : \A y \in M[r][k] : y[2] # x[2]

\* A label with a correlation id of its own is added, and its context.
LEMMA LayoutAdd ==
  ASSUME NEW M, NEW L, UniqueIn(M), NEW x, Added(M, L, {x}), Fresh(M, x)
  PROVE  /\ UniqueIn(L)
         /\ \A C, c : TrackedBy(M, C) /\ Label(c.task) = x
                        => TrackedBy(L, C \cup {c})
  <1>0. PICK d \in Shards, n \in Nat :
          /\ M[d][n] = {} /\ L[d][n] = {x}
          /\ \A r \in Shards, k \in Nat : ~ (r = d /\ k = n) => L[r][k] = M[r][k]
    BY DEF Added
  <1>1. UniqueIn(L)
    <2> SUFFICES ASSUME NEW r1 \in Shards, NEW r2 \in Shards, NEW j1 \in Nat,
                        NEW j2 \in Nat, NEW y \in L[r1][j1], NEW z \in L[r2][j2],
                        y[2] = z[2]
                 PROVE  r1 = r2 /\ j1 = j2
      BY DEF UniqueIn
    <2>1. CASE (r1 = d /\ j1 = n) /\ (r2 = d /\ j2 = n)
      BY <2>1
    <2>2. CASE (r1 = d /\ j1 = n) /\ ~ (r2 = d /\ j2 = n)
      <3>1. y = x /\ z \in M[r2][j2]
        BY <1>0, <2>2
      <3> QED
        BY <3>1 DEF Fresh
    <2>3. CASE ~ (r1 = d /\ j1 = n) /\ (r2 = d /\ j2 = n)
      <3>1. z = x /\ y \in M[r1][j1]
        BY <1>0, <2>3
      <3> QED
        BY <3>1 DEF Fresh
    <2>4. CASE ~ (r1 = d /\ j1 = n) /\ ~ (r2 = d /\ j2 = n)
      <3>1. y \in M[r1][j1] /\ z \in M[r2][j2]
        BY <1>0, <2>4
      <3> QED
        BY <3>1 DEF UniqueIn
    <2> QED
      BY <2>1, <2>2, <2>3, <2>4
  <1>2. ASSUME NEW C, NEW c, TrackedBy(M, C), Label(c.task) = x
        PROVE  TrackedBy(L, C \cup {c})
    <2>1. ASSUME NEW e \in C \cup {c}
          PROVE  \E r \in Shards, k \in Nat : Label(e.task) \in L[r][k]
      <3>1. CASE e = c
        BY <1>0, <1>2, <3>1
      <3>2. CASE e \in C
        <4>1. PICK r \in Shards, k \in Nat : Label(e.task) \in M[r][k]
          BY <1>2, <3>2 DEF TrackedBy
        <4>2. ~ (r = d /\ k = n)
          BY <1>0, <4>1
        <4> QED
          BY <1>0, <4>1, <4>2
      <3> QED
        BY <2>1, <3>1, <3>2
    <2>2. ASSUME NEW r \in Shards, NEW k \in Nat, NEW y \in L[r][k]
          PROVE  \E e \in C \cup {c} : y = Label(e.task)
      <3>1. CASE r = d /\ k = n
        BY <1>0, <1>2, <2>2, <3>1
      <3>2. CASE ~ (r = d /\ k = n)
        BY <1>0, <1>2, <2>2, <3>2 DEF TrackedBy
      <3> QED
        BY <3>1, <3>2
    <2> QED
      BY <2>1, <2>2 DEF TrackedBy
  <1> QED
    BY <1>1, <1>2

-----------------------------------------------------------------------------
(***************************************************************************)
(* The invariant.                                                          *)
(***************************************************************************)
\* What a worker at pc executes.
Working(pc, t) ==
  /\ pc \in {"wait", "exited"} => t = NoTask
  /\ pc \in {"local_send", "local_ack"} => t.task_type = "LOCAL_TRANSFER"
  /\ pc \in {"step1_send", "step1_lookup"} => t.task_type = "CROSS_SHARD_STEP1"
  /\ pc \in {"step2_push", "step2_notify", "step2_send", "step2_ack",
             "step2_cleanup"} => t.task_type = "CROSS_SHARD_STEP2"

\* The correlation id of t has been issued; a context with that id is of t's
\* order.
Named(t, C, n) ==
  /\ t.correlation_id < n
  /\ \A c \in C : c.task.correlation_id = t.correlation_id
                    => c.task.order = t.order

AllNamed(t, q, C, n) == Named(t, C, n) /\ \A j \in 1 .. Len(q) : Named(q[j], C, n)

\* Contexts have distinct ids that were issued.
ContextsNamed(C, n) ==
  /\ \A c \in C : c.task.correlation_id \in 1 .. n - 1
  /\ \A c, d \in C : c.task.correlation_id = d.task.correlation_id => c = d

\* The ids that were issued at most, in each phase.
Issued == CASE main_pc = "phase1" -> 1
            [] main_pc = "submit" -> cursor
            [] OTHER              -> Len(Workload) + 1

WorkInv == \A s \in Shards : Working(worker_pc[s], task[s])
NamesInv ==
  /\ \A s \in Shards :
       AllNamed(task[s], task_queue[s], contexts, next_correlation_id)
  /\ ContextsNamed(contexts, next_correlation_id)
IssuedInv == next_correlation_id <= Issued

\* The map is destroyed before the first shard is.
AliveInv ==
  contexts_alive =>
    /\ main_pc \in {"phase1", "submit", "wait_all", "destroy_contexts"}
    /\ \A s \in Shards : shard_alive[s]

TrackInv ==
  /\ UniqueIn(Lines)
  /\ contexts_alive => TrackedBy(Lines, contexts)

ContextInv == WorkInv /\ NamesInv /\ IssuedInv /\ AliveInv /\ TrackInv

LEMMA NoTaskNamed ==
  ASSUME NEW C, NEW n \in Nat \ {0}, ContextsNamed(C, n)
  PROVE  Named(NoTask, C, n)
  BY DEF Named, ContextsNamed, NoTask, LocalTask, Task

\* The head of a queue is as well named as the rest.
LEMMA NamedTake ==
  ASSUME NEW t, NEW q \in Seq(Tasks), q # << >>, NEW C, NEW n, AllNamed(t, q, C, n)
  PROVE  AllNamed(Head(q), Tail(q), C, n)
  <1>1. /\ Head(q) = q[1] /\ Len(q) \in Nat \ {0}
        /\ Len(Tail(q)) = Len(q) - 1
        /\ \A j \in 1 .. Len(q) - 1 : Tail(q)[j] = q[j + 1]
    BY TakeHeadFacts
  <1>2. 1 \in 1 .. Len(q) /\ \A j \in 1 .. Len(q) - 1 : j + 1 \in 1 .. Len(q)
    BY <1>1
  <1>3. \A j \in 1 .. Len(q) : Named(q[j], C, n)
    BY DEF AllNamed
  <1>4. Named(Head(q), C, n)
    BY <1>1, <1>2, <1>3
  <1>5. ASSUME NEW j \in 1 .. Len(Tail(q))
        PROVE  Named(Tail(q)[j], C, n)
    <2>1. j \in 1 .. Len(q) - 1
      BY <1>1
    <2> QED
      BY <1>1, <1>2, <1>3, <2>1
  <1> QED
    BY <1>4, <1>5 DEF AllNamed

LEMMA NamedPush ==
  ASSUME NEW t, NEW q \in Seq(Tasks), NEW m \in Tasks, NEW C, NEW n,
         AllNamed(t, q, C, n), Named(m, C, n)
  PROVE  AllNamed(t, Append(q, m), C, n)
  <1>1. /\ Len(q) \in Nat
        /\ Len(Append(q, m)) = Len(q) + 1
        /\ \A j \in 1 .. Len(q) : Append(q, m)[j] = q[j]
        /\ Append(q, m)[Len(q) + 1] = m
    BY AppendFacts
  <1>2. \A j \in 1 .. Len(q) : Named(q[j], C, n)
    BY DEF AllNamed
  <1>3. ASSUME NEW j \in 1 .. Len(Append(q, m))
        PROVE  Named(Append(q, m)[j], C, n)
    <2>1. CASE j \in 1 .. Len(q)
      BY <1>1, <1>2, <2>1
    <2>2. CASE j = Len(q) + 1
      BY <1>1, <2>2
    <2> QED
      BY <1>1, <2>1, <2>2
  <1> QED
    BY <1>3 DEF AllNamed

\* Issuing a new id disturbs no older name.
LEMMA NamedFresh ==
  ASSUME NEW C, NEW n \in Nat \ {0}, NEW i
  PROVE  /\ \A t : t.correlation_id \in Nat /\ Named(t, C, n)
                     => Named(t, C \cup {Context(i, n)}, n + 1)
         /\ ContextsNamed(C, n) =>
              /\ ContextsNamed(C \cup {Context(i, n)}, n + 1)
              /\ Named(Step1Task(i, n), C \cup {Context(i, n)}, n + 1)
  <1>1. /\ Context(i, n).task.correlation_id = n
        /\ Context(i, n).task.order = i
        /\ Step1Task(i, n).correlation_id = n
        /\ Step1Task(i, n).order = i
    BY DEF Context, Step1Task, Task
  <1> DEFINE c0 == Context(i, n)
  <1> HIDE DEF c0
  <1>2. ASSUME NEW t, t.correlation_id \in Nat, Named(t, C, n)
        PROVE  Named(t, C \cup {c0}, n + 1)
    BY <1>1, <1>2 DEF Named, c0
  <1>3. ASSUME ContextsNamed(C, n)
        PROVE  /\ ContextsNamed(C \cup {c0}, n + 1)
               /\ Named(Step1Task(i, n), C \cup {c0}, n + 1)
    <2>1. \A c \in C : c.task.correlation_id \in 1 .. n - 1
      BY <1>3 DEF ContextsNamed
    <2>2. \A c \in C : /\ c.task.correlation_id # n
                       /\ c.task.correlation_id \in 1 .. (n + 1) - 1
      BY <2>1
    <2>3. \A c, d \in C : c.task.correlation_id = d.task.correlation_id => c = d
      BY <1>3 DEF ContextsNamed
    <2>4. n \in 1 .. (n + 1) - 1 /\ n < n + 1
      OBVIOUS
    <2>5. c0.task.correlation_id = n /\ c0.task.order = i
      BY <1>1 DEF c0
    <2>6. ContextsNamed(C \cup {c0}, n + 1)
      BY <2>2, <2>3, <2>4, <2>5 DEF ContextsNamed
    <2>7. Named(Step1Task(i, n), C \cup {c0}, n + 1)
      BY <1>1, <2>2, <2>4, <2>5 DEF Named
    <2> QED
      BY <2>6, <2>7
  <1> QED
    BY <1>2, <1>3 DEF c0

\* Fewer contexts are as well named.
LEMMA NamedFewer ==
  ASSUME NEW C, NEW D \in SUBSET C, NEW n
  PROVE  /\ \A t, q : AllNamed(t, q, C, n) => AllNamed(t, q, D, n)
         /\ ContextsNamed(C, n) => ContextsNamed(D, n)
  BY DEF AllNamed, Named, ContextsNamed

-----------------------------------------------------------------------------
(***************************************************************************)
(* Steps of the workers.                                                   *)
(***************************************************************************)
\* A worker moves to pc with task t; the queues stay and contexts only go.
Moves(s, pc, t) ==
  /\ worker_pc' = [worker_pc EXCEPT ![s] = pc]
  /\ task' = [task EXCEPT ![s] = t]
  /\ UNCHANGED task_queue

LEMMA MovedLines ==
  ASSUME IInv, IInv', NEW s \in Shards, NEW pc, NEW t \in Tasks \cup {NoTask},
         Moves(s, pc, t)
  PROVE  /\ Lines \in Layouts /\ Lines' \in Layouts
         /\ \A r \in Shards, k \in Nat : ~ (r = s /\ k = 0)
                                           => Lines'[r][k] = Lines[r][k]
         /\ Lines'[s][0] = Held(pc, t)
         /\ Lines[s][0] = Held(worker_pc[s], task[s])
         /\ Held(pc, t) = Held(worker_pc[s], task[s]) => Lines' = Lines
  <1>0. Lines \in Layouts /\ Lines' \in Layouts
    BY LinesType
  <1>1. /\ \A r \in Shards : r # s => worker_pc'[r] = worker_pc[r] /\ task'[r] = task[r]
        /\ worker_pc'[s] = pc /\ task'[s] = t
        /\ task_queue' = task_queue
    BY DEF Moves, IInv, TypeOK, PoolTypeOK
  <1>2. \A r \in Shards : r # s => Lines'[r] = Lines[r]
    BY <1>1 DEF Lines
  <1>3. Lines'[s] = Line(pc, t, task_queue[s])
    BY <1>1 DEF Lines
  <1>4. Lines[s] = Line(worker_pc[s], task[s], task_queue[s])
    BY DEF Lines
  <1>5. /\ Lines'[s][0] = Held(pc, t)
        /\ Lines[s][0] = Held(worker_pc[s], task[s])
        /\ Lines'[s] = [Lines[s] EXCEPT ![0] = Held(pc, t)]
    BY <1>3, <1>4, LineWork
  <1>6. Lines[s] \in [Nat -> SUBSET Labels]
    BY <1>0 DEF Layouts
  <1>7. \A k \in Nat : k # 0 => Lines'[s][k] = Lines[s][k]
    BY <1>5, <1>6
  <1>8. ASSUME Held(pc, t) = Held(worker_pc[s], task[s])
        PROVE  Lines' = Lines
    <2>1. Lines'[s] = Lines[s]
      BY <1>3, <1>4, <1>8, LineWork
    <2>2. \A r \in Shards : Lines'[r] = Lines[r]
      BY <1>2, <2>1
    <2> QED
      BY <1>0, <2>2 DEF Layouts
  <1> QED
    BY <1>0, <1>2, <1>5, <1>7, <1>8

LEMMA MovedNames ==
  ASSUME IInv, WorkInv, NamesInv, NEW s \in Shards, NEW pc,
         NEW t \in Tasks \cup {NoTask}, Moves(s, pc, t),
         Working(pc, t), Named(t, contexts, next_correlation_id),
         contexts' \in SUBSET contexts, UNCHANGED next_correlation_id
  PROVE  WorkInv' /\ NamesInv'
  <1>1. /\ \A r \in Shards : r # s => worker_pc'[r] = worker_pc[r] /\ task'[r] = task[r]
        /\ worker_pc'[s] = pc /\ task'[s] = t
        /\ task_queue' = task_queue /\ next_correlation_id' = next_correlation_id
    BY DEF Moves, IInv, TypeOK, PoolTypeOK
  <1>2. WorkInv'
    BY <1>1 DEF WorkInv
  <1>3. ASSUME NEW r \in Shards
        PROVE  AllNamed(task'[r], task_queue'[r], contexts', next_correlation_id')
    <2>1. AllNamed(task[r], task_queue[r], contexts, next_correlation_id)
      BY DEF NamesInv
    <2>2. AllNamed(task'[r], task_queue[r], contexts, next_correlation_id)
      BY <1>1, <2>1 DEF AllNamed
    <2> QED
      BY <1>1, <2>2, NamedFewer
  <1>4. ContextsNamed(contexts', next_correlation_id')
    BY <1>1, NamedFewer DEF NamesInv
  <1> QED
    BY <1>2, <1>3, <1>4 DEF NamesInv

\* The worker goes on with the same label, or with none as before.
LEMMA StaysTracked ==
  ASSUME IInv, IInv', ContextInv, NEW s \in Shards, NEW pc,
         NEW t \in Tasks \cup {NoTask}, Moves(s, pc, t), Working(pc, t),
         Named(t, contexts, next_correlation_id),
         Held(pc, t) = Held(worker_pc[s], task[s]),
         UNCHANGED <<contexts, next_correlation_id, lifeVars, mainVars>>
  PROVE  ContextInv'
  <1>1. WorkInv' /\ NamesInv'
    BY MovedNames DEF ContextInv
  <1>2. Lines' = Lines
    BY MovedLines
  <1>3. TrackInv'
    BY <1>2 DEF ContextInv, TrackInv, lifeVars
  <1>4. IssuedInv' /\ AliveInv'
    BY DEF ContextInv, IssuedInv, Issued, AliveInv, lifeVars, mainVars
  <1> QED
    BY <1>1, <1>3, <1>4 DEF ContextInv

\* The task an idle worker holds is NoTask, and in the handlers the task has
\* the type of the handler.
LEMMA WorkerTask ==
  ASSUME IInv, ContextInv, NEW s \in Shards
  PROVE  /\ Working(worker_pc[s], task[s])
         /\ Named(task[s], contexts, next_correlation_id)
         /\ Named(NoTask, contexts, next_correlation_id)
         /\ task[s] \in Tasks \cup {NoTask}
         /\ worker_pc[s] \notin {"wait", "exited"} => task[s] \in Tasks
         /\ task_queue[s] \in Seq(Tasks)
         /\ Held("wait", NoTask) = {}
         /\ Working("wait", NoTask) /\ Working("exited", NoTask)
  <1>1. ContextsNamed(contexts, next_correlation_id) /\ next_correlation_id \in Nat \ {0}
    BY DEF ContextInv, NamesInv, IInv, TypeOK, PoolTypeOK
  <1>2. Named(NoTask, contexts, next_correlation_id)
    BY <1>1, NoTaskNamed
  <1>3. Held("wait", NoTask) = {}
    BY TaskLabels DEF Held
  <1>4. Working("wait", NoTask) /\ Working("exited", NoTask)
    BY DEF Working
  <1> QED
    BY <1>2, <1>3, <1>4
       DEF ContextInv, WorkInv, NamesInv, AllNamed, IInv, TypeOK, PoolTypeOK,
           Routed, WorkerRouted

\* Steps within a handler, and the end of one without a label.
LEMMA PlainSteps ==
  ASSUME IInv, IInv', ContextInv, NEW s \in Shards, UNCHANGED mainVars,
         \/ WorkerExit(s) \/ LocalSend(s) \/ LocalAck(s) \/ Step1Send(s)
         \/ Step2Notify(s) \/ Step2Send(s) \/ Step2Ack(s)
  PROVE  ContextInv'
  <1> USE WorkerTask DEF WorkerAt, WorkerGoTo
  <1>0. task = [task EXCEPT ![s] = task[s]]
    BY DEF IInv, TypeOK, PoolTypeOK
  <1>1. CASE WorkerExit(s)
    <2>1. Moves(s, "exited", NoTask)
      BY <1>0, <1>1 DEF WorkerExit, Moves, Working
    <2>2. Held("exited", NoTask) = Held(worker_pc[s], task[s])
      BY <1>1 DEF WorkerExit, Held, Working
    <2> QED
      BY <1>1, <2>1, <2>2, StaysTracked DEF WorkerExit
  <1>2. CASE LocalSend(s)
    <2>1. Moves(s, "local_ack", task[s])
      BY <1>0, <1>2 DEF LocalSend, Moves
    <2>2. /\ Held("local_ack", task[s]) = Held(worker_pc[s], task[s])
          /\ Working("local_ack", task[s])
      BY <1>2 DEF LocalSend, Held, Working
    <2> QED
      BY <1>2, <2>1, <2>2, StaysTracked DEF LocalSend
  <1>3. CASE LocalAck(s)
    <2>1. Moves(s, "wait", NoTask)
      BY <1>3 DEF LocalAck, HandlerReturns, Moves
    <2>2. Held("wait", NoTask) = Held(worker_pc[s], task[s])
      BY <1>3 DEF LocalAck, Held, Marks, Cross, Working
    <2> QED
      BY <1>3, <2>1, <2>2, StaysTracked DEF LocalAck
  <1>4. CASE Step1Send(s)
    <2>1. Moves(s, "step1_lookup", task[s])
      BY <1>0, <1>4 DEF Step1Send, Moves
    <2>2. /\ Held("step1_lookup", task[s]) = Held(worker_pc[s], task[s])
          /\ Working("step1_lookup", task[s])
      BY <1>4 DEF Step1Send, Held, Working
    <2> QED
      BY <1>4, <2>1, <2>2, StaysTracked DEF Step1Send
  <1>5. CASE Step2Notify(s)
    <2>1. Moves(s, "wait", NoTask)
      BY <1>5 DEF Step2Notify, HandlerReturns, Moves
    <2>2. Held("wait", NoTask) = Held(worker_pc[s], task[s])
      BY <1>5 DEF Step2Notify, Held
    <2> QED
      BY <1>5, <2>1, <2>2, StaysTracked DEF Step2Notify
  <1>6. CASE Step2Send(s)
    <2>1. Moves(s, "step2_ack", task[s])
      BY <1>0, <1>6 DEF Step2Send, Moves
    <2>2. /\ Held("step2_ack", task[s]) = Held(worker_pc[s], task[s])
          /\ Working("step2_ack", task[s])
      BY <1>6 DEF Step2Send, Held, Working
    <2> QED
      BY <1>6, <2>1, <2>2, StaysTracked DEF Step2Send
  <1>7. CASE Step2Ack(s)
    <2>1. Moves(s, "step2_cleanup", task[s])
      BY <1>0, <1>7 DEF Step2Ack, Moves
    <2>2. /\ Held("step2_cleanup", task[s]) = Held(worker_pc[s], task[s])
          /\ Working("step2_cleanup", task[s])
      BY <1>7 DEF Step2Ack, Held, Working
    <2> QED
      BY <1>7, <2>1, <2>2, StaysTracked DEF Step2Ack
  <1> QED
    BY <1>1, <1>2, <1>3, <1>4, <1>5, <1>6, <1>7

\* The label of a worker in a handler of a cross-shard transfer.
LEMMA HeldLabel ==
  ASSUME IInv, IInv', ContextInv, NEW s \in Shards,
         worker_pc[s] \in {"step1_send", "step1_lookup", "step2_push",
                           "step2_send", "step2_ack", "step2_cleanup"}
  PROVE  /\ Lines[s][0] = {Label(task[s])}
         /\ Marks(task[s]) = {Label(task[s])}
         /\ task[s] \in Tasks
         /\ Label(task[s])[2] = task[s].correlation_id
  <1>1. /\ Working(worker_pc[s], task[s]) /\ task[s] \in Tasks
    BY WorkerTask
  <1>2. Lines[s][0] = Held(worker_pc[s], task[s])
    BY LineWork DEF Lines
  <1>3. Cross(task[s])
    BY <1>1 DEF Working, Cross
  <1> QED
    BY <1>1, <1>2, <1>3 DEF Held, Marks, Label

LEMMA FoundStep ==
  ASSUME IInv, IInv', ContextInv, NEW s \in Shards, UNCHANGED mainVars, Step1Found(s)
  PROVE  ContextInv'
  <1>1. PICK c \in ContextOf(task[s].correlation_id) :
          task' = [task EXCEPT ![s] = Step2Task(c.task.order, task[s].correlation_id)]
    BY DEF Step1Found
  <1>2. worker_pc[s] = "step1_lookup"
    BY DEF Step1Found, WorkerAt
  <1>3. Named(task[s], contexts, next_correlation_id) /\ task[s] \in Tasks
        /\ Working(worker_pc[s], task[s])
    BY <1>2, WorkerTask
  <1>4. c \in contexts /\ c.task.correlation_id = task[s].correlation_id
    BY DEF ContextOf
  <1>5. c.task.order = task[s].order
    BY <1>3, <1>4 DEF Named
  <1> DEFINE t == Step2Task(task[s].order, task[s].correlation_id)
  <1>6. /\ t \in Tasks /\ t.order = task[s].order
        /\ t.correlation_id = task[s].correlation_id
        /\ t.task_type = "CROSS_SHARD_STEP2"
    BY <1>3, TaskFacts DEF Step2Task, Task
  <1>7. Moves(s, "step2_push", t)
    BY <1>1, <1>5 DEF Step1Found, WorkerGoTo, Moves
  <1> HIDE DEF t
  <1>8. Working("step2_push", t) /\ Named(t, contexts, next_correlation_id)
    BY <1>3, <1>6 DEF Working, Named
  <1>9. Held("step2_push", t) = Held(worker_pc[s], task[s])
    BY <1>2, <1>3, <1>6 DEF Held, Marks, Cross, Label, Working
  <1> QED
    BY <1>6, <1>7, <1>8, <1>9, StaysTracked DEF Step1Found

\* "correlation_id not found" happens only once the map is destroyed.
LEMMA NotFoundStep ==
  ASSUME IInv, IInv', ContextInv, NEW s \in Shards, UNCHANGED mainVars,
         Step1NotFound(s)
  PROVE  ContextInv'
  <1>1. worker_pc[s] = "step1_lookup"
    BY DEF Step1NotFound, WorkerAt
  <1>2. ~ contexts_alive
    <2> SUFFICES ASSUME contexts_alive PROVE FALSE
      OBVIOUS
    <2>1. Lines[s][0] = {Label(task[s])}
      BY <1>1, HeldLabel
    <2>2. PICK c \in contexts : Label(task[s]) = Label(c.task)
      BY <2>1 DEF ContextInv, TrackInv, TrackedBy
    <2>3. c \in ContextOf(task[s].correlation_id)
      BY <2>2 DEF ContextOf, Label
    <2> QED
      BY <2>3 DEF Step1NotFound
  <1>3. Moves(s, "wait", NoTask)
    BY DEF Step1NotFound, HandlerReturns, WorkerGoTo, Moves
  <1>4. WorkInv' /\ NamesInv'
    BY <1>3, WorkerTask, MovedNames DEF Step1NotFound, ContextInv
  <1>5. Lines'[s][0] = {} /\ Lines \in Layouts /\ Lines' \in Layouts
        /\ \A r \in Shards, k \in Nat : ~ (r = s /\ k = 0) => Lines'[r][k] = Lines[r][k]
    BY <1>3, WorkerTask, MovedLines
  <1>6. UniqueIn(Lines)
    BY DEF ContextInv, TrackInv
  <1>7. UniqueIn(Lines)'
    <2>1. UniqueIn(Lines')
      BY <1>5, <1>6, LayoutDrop
    <2> QED
      BY <2>1 DEF UniqueIn
  <1>8. UNCHANGED <<contexts, next_correlation_id, lifeVars>>
    BY DEF Step1NotFound
  <1>9. IssuedInv' /\ AliveInv' /\ ~ contexts_alive'
    BY <1>2, <1>8 DEF ContextInv, IssuedInv, Issued, AliveInv, lifeVars, mainVars
  <1> QED
    BY <1>4, <1>7, <1>9 DEF ContextInv, TrackInv

LEMMA CleanupStep ==
  ASSUME IInv, IInv', ContextInv, NEW s \in Shards, UNCHANGED mainVars,
         Step2Cleanup(s)
  PROVE  ContextInv'
  <1>1. worker_pc[s] = "step2_cleanup"
    BY DEF Step2Cleanup, WorkerAt
  <1>2. Moves(s, "wait", NoTask)
    BY DEF Step2Cleanup, HandlerReturns, WorkerGoTo, Moves
  <1>3. /\ contexts' = contexts \ ContextOf(task[s].correlation_id)
        /\ UNCHANGED <<next_correlation_id, lifeVars>>
    BY DEF Step2Cleanup
  <1>4. WorkInv' /\ NamesInv'
    BY <1>2, <1>3, WorkerTask, MovedNames DEF ContextInv
  <1>5. Lines'[s][0] = {} /\ Lines \in Layouts /\ Lines' \in Layouts
        /\ \A r \in Shards, k \in Nat : ~ (r = s /\ k = 0) => Lines'[r][k] = Lines[r][k]
    BY <1>2, WorkerTask, MovedLines
  <1>6. UniqueIn(Lines)
    BY DEF ContextInv, TrackInv
  <1>7. /\ UniqueIn(Lines')
        /\ \A C, x : TrackedBy(Lines, C) /\ Lines[s][0] = {x}
             => TrackedBy(Lines', C \ {c \in C : c.task.correlation_id = x[2]})
    BY <1>5, <1>6, LayoutDrop
  <1>8. Lines[s][0] = {Label(task[s])} /\ Label(task[s])[2] = task[s].correlation_id
    BY <1>1, HeldLabel
  <1>9. ASSUME contexts_alive
        PROVE  TrackedBy(Lines', contexts')
    <2>1. TrackedBy(Lines, contexts)
      BY <1>9 DEF ContextInv, TrackInv
    <2>2. TrackedBy(Lines', contexts \ {c \in contexts :
                               c.task.correlation_id = Label(task[s])[2]})
      BY <1>7, <1>8, <2>1
    <2>3. contexts' = contexts \ {c \in contexts :
                               c.task.correlation_id = Label(task[s])[2]}
      BY <1>3, <1>8 DEF ContextOf
    <2> QED
      BY <2>2, <2>3
  <1>10. IssuedInv' /\ AliveInv' /\ contexts_alive' = contexts_alive
    BY <1>3 DEF ContextInv, IssuedInv, Issued, AliveInv, lifeVars, mainVars
  <1>11. UniqueIn(Lines)' /\ (contexts_alive' => TrackedBy(Lines, contexts)')
    BY <1>7, <1>9, <1>10 DEF UniqueIn, TrackedBy
  <1> QED
    BY <1>4, <1>10, <1>11 DEF ContextInv, TrackInv

LEMMA TakeStep ==
  ASSUME IInv, IInv', ContextInv, NEW s \in Shards, UNCHANGED mainVars, WorkerTake(s)
  PROVE  ContextInv'
  <1> DEFINE q == task_queue[s]
             h == Head(task_queue[s])
  <1>1. /\ worker_pc[s] = "wait" /\ q # << >>
        /\ task' = [task EXCEPT ![s] = h]
        /\ task_queue' = [task_queue EXCEPT ![s] = Tail(@)]
        /\ worker_pc' = [worker_pc EXCEPT ![s] = HandlerOf(h)]
        /\ UNCHANGED <<contexts, next_correlation_id, lifeVars>>
    BY DEF WorkerTake, WorkerAt, WorkerGoTo
  <1>2. /\ worker_pc'[s] = HandlerOf(h) /\ task'[s] = h /\ task_queue'[s] = Tail(q)
        /\ \A r \in Shards : r # s => /\ worker_pc'[r] = worker_pc[r]
                                      /\ task'[r] = task[r]
                                      /\ task_queue'[r] = task_queue[r]
    BY <1>1 DEF IInv, TypeOK, PoolTypeOK
  <1>3. task[s] = NoTask /\ q \in Seq(Tasks)
    BY <1>1, WorkerTask DEF Working
  <1>4. h \in Tasks
    BY <1>1, <1>3, TakeHeadFacts
  <1>5. Working(HandlerOf(h), h) /\ HandlerOf(h) # "step2_notify"
    BY <1>4 DEF HandlerOf, Working, Tasks, TaskTypes
  <1>6. WorkInv'
    BY <1>2, <1>5 DEF ContextInv, WorkInv
  <1>7. NamesInv'
    <2>1. AllNamed(task[s], q, contexts, next_correlation_id)
      BY DEF ContextInv, NamesInv
    <2> HIDE DEF h, q
    <2>2. AllNamed(h, Tail(q), contexts, next_correlation_id)
      BY <1>1, <1>3, <2>1, NamedTake DEF h, q
    <2>3. ASSUME NEW r \in Shards
          PROVE  AllNamed(task'[r], task_queue'[r], contexts', next_correlation_id')
      <3>1. CASE r = s
        BY <1>1, <1>2, <2>2, <3>1
      <3>2. CASE r # s
        BY <1>1, <1>2, <3>2 DEF ContextInv, NamesInv
      <3> QED
        BY <3>1, <3>2
    <2> QED
      BY <1>1, <2>3 DEF ContextInv, NamesInv
  <1>8. /\ Lines \in Layouts /\ Lines[s][0] = {}
        /\ Lines' = [Lines EXCEPT ![s] = [j \in Nat |-> Lines[s][j + 1]]]
    <2>0. Lines \in Layouts /\ Lines' \in Layouts
      BY LinesType
    <2>1. Lines[s] = Line("wait", NoTask, q)
      BY <1>1, <1>3 DEF Lines
    <2>2. Lines'[s] = Line(HandlerOf(h), h, Tail(q))
      BY <1>2 DEF Lines
    <2>3. Lines'[s] = [j \in Nat |-> Lines[s][j + 1]]
      <3>1. q \in Seq(Tasks) /\ q # << >> /\ HandlerOf(h) # "step2_notify"
        BY <1>1, <1>3, <1>5
      <3>2. h = Head(q)
        OBVIOUS
      <3> HIDE DEF q, h
      <3>3. \A pd : pd # "step2_notify" =>
              Line(pd, Head(q), Tail(q)) = [j \in Nat |-> Line("wait", NoTask, q)[j + 1]]
        BY <3>1, LineTake
      <3>4. Line(HandlerOf(h), Head(q), Tail(q))
              = [j \in Nat |-> Line("wait", NoTask, q)[j + 1]]
        BY <3>1, <3>3
      <3> QED
        BY <2>1, <2>2, <3>2, <3>4
    <2>4. \A r \in Shards : r # s => Lines'[r] = Lines[r]
      BY <1>2 DEF Lines
    <2>5. Lines[s][0] = {}
      BY <2>1, WorkerTask, LineWork
    <2> HIDE DEF q, h
    <2> QED
      BY <2>0, <2>3, <2>4, <2>5 DEF Layouts
  <1>9. UniqueIn(Lines') /\ \A C : TrackedBy(Lines, C) => TrackedBy(Lines', C)
    <2>1. UniqueIn(Lines)
      BY DEF ContextInv, TrackInv
    <2> QED
      BY <1>8, <2>1, LayoutTake
  <1>10. IssuedInv' /\ AliveInv' /\ contexts_alive' = contexts_alive
         /\ contexts' = contexts
    BY <1>1 DEF ContextInv, IssuedInv, Issued, AliveInv, lifeVars, mainVars
  <1>11. UniqueIn(Lines)' /\ (contexts_alive' => TrackedBy(Lines, contexts)')
    <2>1. contexts_alive => TrackedBy(Lines', contexts')
      BY <1>9, <1>10 DEF ContextInv, TrackInv
    <2> QED
      BY <1>9, <1>10, <2>1 DEF UniqueIn, TrackedBy
  <1> QED
    BY <1>6, <1>7, <1>10, <1>11 DEF ContextInv, TrackInv

\* Step 2 is queued, or lost with its destroyed shard; the map is gone by then.
LEMMA PushStep ==
  ASSUME IInv, IInv', ContextInv, NEW s \in Shards, UNCHANGED mainVars, Step2Push(s)
  PROVE  ContextInv'
  <1> DEFINE t == task[s]
             d == GetShardId(Dst(t.order))
             q == task_queue[d]
  <1>1. /\ worker_pc[s] = "step2_push"
        /\ worker_pc' = [worker_pc EXCEPT ![s] = "step2_notify"]
        /\ task' = task
        /\ task_queue' = IF shard_alive[d]
                         THEN [task_queue EXCEPT ![d] = Append(@, t)] ELSE task_queue
        /\ UNCHANGED <<contexts, next_correlation_id, lifeVars>>
    BY DEF Step2Push, WorkerAt, WorkerGoTo, Push
  <1>2. /\ t \in Tasks /\ Lines[s][0] = {Label(t)} /\ Marks(t) = {Label(t)}
        /\ Working(worker_pc[s], t) /\ Named(t, contexts, next_correlation_id)
    BY <1>1, WorkerTask, HeldLabel
  <1>3. d \in Shards
    BY <1>2, TaskFacts, OrderFacts, ShardFacts
  <1>4. q \in Seq(Tasks) /\ t \in Tasks \cup {NoTask}
    BY <1>3, WorkerTask
  <1>5. worker_pc'[s] = "step2_notify"
        /\ \A r \in Shards : r # s => worker_pc'[r] = worker_pc[r]
    BY <1>1 DEF IInv, TypeOK, PoolTypeOK
  <1> HIDE DEF d, t
  <1>6. WorkInv'
    BY <1>1, <1>2, <1>5 DEF ContextInv, WorkInv, Working, t
  <1>7. IssuedInv' /\ AliveInv' /\ contexts_alive' = contexts_alive
        /\ contexts' = contexts
    BY <1>1 DEF ContextInv, IssuedInv, Issued, AliveInv, lifeVars, mainVars
  <1>8. Lines \in Layouts /\ Lines' \in Layouts /\ UniqueIn(Lines)
    BY LinesType DEF ContextInv, TrackInv
  <1>9. \A r \in Shards, k \in Nat :
          /\ Lines[r][k] = Place(worker_pc[r], task[r], task_queue[r], k)
          /\ Lines'[r][k] = Place(worker_pc'[r], task'[r], task_queue'[r], k)
    BY DEF Lines, Line
  <1>10. Lines'[s][0] = {}
    BY <1>5, <1>9 DEF Place, Held
  <1>11. CASE shard_alive[d]
    <2>1. /\ task_queue'[d] = Append(q, t)
          /\ \A r \in Shards : r # d => task_queue'[r] = task_queue[r]
      BY <1>1, <1>3, <1>11 DEF IInv, TypeOK, PoolTypeOK
    <2>2. NamesInv'
      <3>1. AllNamed(task[d], q, contexts, next_correlation_id)
        BY <1>3 DEF ContextInv, NamesInv
      <3>2. AllNamed(task[d], Append(q, t), contexts, next_correlation_id)
        BY <1>2, <1>4, <3>1, NamedPush
      <3>3. ASSUME NEW r \in Shards
            PROVE  AllNamed(task'[r], task_queue'[r], contexts', next_correlation_id')
        <4>1. CASE r = d
          BY <1>1, <2>1, <3>2, <4>1
        <4>2. CASE r # d
          BY <1>1, <2>1, <4>2 DEF ContextInv, NamesInv
        <4> QED
          BY <4>1, <4>2
      <3> QED
        BY <1>1, <3>3 DEF ContextInv, NamesInv
    <2> DEFINE n == Len(q) + 1
    <2>3. /\ n \in Nat \ {0}
          /\ Line(worker_pc[d], task[d], q)[n] = {}
          /\ Line(worker_pc[d], task[d], Append(q, t))
               = [Line(worker_pc[d], task[d], q) EXCEPT ![n] = Marks(t)]
      <3>1. Fills(Line(worker_pc[d], task[d], q),
                  Line(worker_pc[d], task[d], Append(q, t)), n, Marks(t))
        <4> HIDE DEF q
        <4> QED
          BY <1>2, <1>4, LinePush
      <3> QED
        BY <3>1 DEF Fills
    <2> HIDE DEF n
    <2>4. Lines[d][n] = {} /\ Lines[d] = Line(worker_pc[d], task[d], q)
      BY <1>3, <2>3 DEF Lines
    <2>5. Lines[d] \in [Nat -> SUBSET Labels]
      BY <1>3, <1>8 DEF Layouts
    <2>6. \A k \in Nat : Place(worker_pc[d], task[d], Append(q, t), k)
                           = IF k = n THEN Marks(t) ELSE Lines[d][k]
      <3>1. \A k \in Nat : Line(worker_pc[d], task[d], Append(q, t))[k]
                             = IF k = n THEN Marks(t) ELSE Lines[d][k]
        BY <2>3, <2>4, <2>5
      <3> QED
        BY <3>1 DEF Line
    <2>7. \A pc1, pc2, u, p : \A k \in Nat :
            k # 0 => Place(pc1, u, p, k) = Place(pc2, u, p, k)
      BY DEF Place
    <2>8. Lines'[d][n] = Lines[s][0]
      <3>1. Lines'[d][n] = Place(worker_pc'[d], task[d], Append(q, t), n)
        BY <1>1, <1>3, <1>9, <2>1, <2>3
      <3>2. Lines'[d][n] = Place(worker_pc[d], task[d], Append(q, t), n)
        BY <2>3, <2>7, <3>1
      <3>3. n \in Nat
        BY <2>3
      <3> QED
        BY <1>2, <2>6, <3>2, <3>3
    <2>9. ASSUME NEW r \in Shards, NEW k \in Nat, <<r, k>> \notin {<<s, 0>>, <<d, n>>}
          PROVE  Lines'[r][k] = Lines[r][k]
      <3>0. ~ (r = s /\ k = 0) /\ ~ (r = d /\ k = n)
        BY <2>9
      <3>1. Place(worker_pc'[r], task[r], task_queue'[r], k)
              = Place(worker_pc[r], task[r], task_queue'[r], k)
        <4>1. CASE k = 0
          BY <1>5, <3>0, <4>1
        <4>2. CASE k # 0
          BY <2>7, <4>2
        <4> QED
          BY <4>1, <4>2
      <3>2. CASE r = d
        <4>1. Place(worker_pc[r], task[r], task_queue'[r], k) = Lines[d][k]
          BY <2>1, <2>6, <3>0, <3>2
        <4> QED
          BY <1>1, <1>9, <3>1, <3>2, <4>1
      <3>3. CASE r # d
        BY <1>1, <1>9, <2>1, <3>1, <3>3
      <3> QED
        BY <3>2, <3>3
    <2>10. UniqueIn(Lines') /\ \A C : TrackedBy(Lines, C) => TrackedBy(Lines', C)
      <3>1. n \in Nat /\ 0 \in Nat
        BY <2>3
      <3> QED
        BY <1>3, <1>8, <1>10, <2>4, <2>8, <2>9, <3>1, LayoutMove
    <2>11. UniqueIn(Lines)' /\ (contexts_alive' => TrackedBy(Lines, contexts)')
      <3>1. contexts_alive => TrackedBy(Lines', contexts')
        BY <1>7, <2>10 DEF ContextInv, TrackInv
      <3> QED
        BY <1>7, <2>10, <3>1 DEF UniqueIn, TrackedBy
    <2> QED
      BY <1>6, <1>7, <2>2, <2>11 DEF ContextInv, TrackInv
  <1>12. CASE ~ shard_alive[d]
    <2>1. task_queue' = task_queue /\ ~ contexts_alive
      BY <1>1, <1>3, <1>12 DEF ContextInv, AliveInv
    <2>2. NamesInv'
      BY <1>1, <2>1 DEF ContextInv, NamesInv
    <2>3. ASSUME NEW r \in Shards, NEW k \in Nat, ~ (r = s /\ k = 0)
          PROVE  Lines'[r][k] = Lines[r][k]
      <3>1. CASE r # s
        BY <1>1, <1>5, <1>9, <2>1, <3>1
      <3>2. CASE k # 0
        BY <1>1, <1>9, <2>1, <3>2 DEF Place
      <3> QED
        BY <2>3, <3>1, <3>2
    <2>4. UniqueIn(Lines')
      BY <1>8, <1>10, <2>3, LayoutDrop
    <2>5. UniqueIn(Lines)'
      BY <2>4 DEF UniqueIn
    <2> QED
      BY <1>6, <1>7, <2>1, <2>2, <2>5 DEF ContextInv, TrackInv
  <1> QED
    BY <1>11, <1>12

\* Nothing the invariant reads has changed.
LEMMA ContextStutter ==
  ASSUME ContextInv, UNCHANGED <<mainVars, task_queue, worker_pc, task, contexts,
                                 next_correlation_id, lifeVars>>
  PROVE  ContextInv'
  <1>1. Lines' = Lines
    BY DEF Lines
  <1>2. TrackInv'
    BY <1>1 DEF ContextInv, TrackInv, lifeVars
  <1> QED
    BY <1>2 DEF ContextInv, WorkInv, NamesInv, IssuedInv, Issued, AliveInv,
                lifeVars, mainVars

LEMMA ContextWorker ==
  ASSUME IInv, IInv', ContextInv, NEW s \in Shards, Worker(s)
  PROVE  ContextInv'
  <1>1. UNCHANGED mainVars
    BY DEF Worker
  <1>2. CASE Crash(s)
    BY <1>1, <1>2, ContextStutter DEF Crash
  <1> QED
    BY <1>1, <1>2, PlainSteps, FoundStep, NotFoundStep, CleanupStep, TakeStep,
       PushStep DEF Worker, WorkerStep

-----------------------------------------------------------------------------
(***************************************************************************)
(* Steps of the main thread.                                               *)
(***************************************************************************)
\* A submission fills a place that was free.
LEMMA PushedLines ==
  ASSUME IInv, IInv', NEW d \in Shards, NEW m \in Tasks, Push(d, m),
         UNCHANGED <<worker_pc, task>>
  PROVE  Added(Lines, Lines', Marks(m))
  <1>1. /\ task_queue \in [Shards -> Seq(Tasks)]
        /\ task \in [Shards -> Tasks \cup {NoTask}]
    BY DEF IInv, TypeOK, PoolTypeOK
  <1> DEFINE q == task_queue[d]
             t == task[d]
  <1>2. q \in Seq(Tasks) /\ t \in Tasks \cup {NoTask}
    BY <1>1
  <1>3. /\ task_queue'[d] = Append(q, m)
        /\ \A r \in Shards : r # d => task_queue'[r] = task_queue[r]
        /\ task' = task /\ worker_pc' = worker_pc
    BY <1>1 DEF Push
  <1>4. /\ \A r \in Shards : r # d => Lines'[r] = Lines[r]
        /\ Lines[d] = Line(worker_pc[d], t, q)
        /\ Lines'[d] = Line(worker_pc[d], t, Append(q, m))
    BY <1>3 DEF Lines
  <1>5. Lines \in Layouts
    BY LinesType
  <1>6. Lines[d] \in [Nat -> SUBSET Labels]
    BY <1>5 DEF Layouts
  <1> DEFINE n == Len(q) + 1
  <1>7. /\ n \in Nat
        /\ Line(worker_pc[d], t, q)[n] = {}
        /\ Line(worker_pc[d], t, Append(q, m))
             = [Line(worker_pc[d], t, q) EXCEPT ![n] = Marks(m)]
    <2>1. Fills(Line(worker_pc[d], t, q), Line(worker_pc[d], t, Append(q, m)), n,
                Marks(m))
      <3> HIDE DEF q, t
      <3> QED
        BY <1>2, LinePush
    <2> QED
      BY <2>1 DEF Fills
  <1> HIDE DEF q, t, n
  <1>8. Lines[d][n] = {} /\ Lines'[d] = [Lines[d] EXCEPT ![n] = Marks(m)]
    BY <1>4, <1>7
  <1>9. Lines'[d][n] = Marks(m) /\ \A k \in Nat : k # n => Lines'[d][k] = Lines[d][k]
    BY <1>6, <1>7, <1>8
  <1> QED
    <2>1. \A r \in Shards, k \in Nat : ~ (r = d /\ k = n) => Lines'[r][k] = Lines[r][k]
      BY <1>4, <1>9
    <2>2. d \in Shards /\ n \in Nat /\ Lines[d][n] = {} /\ Lines'[d][n] = Marks(m)
      BY <1>7, <1>8, <1>9
    <2> QED
      BY <2>1, <2>2 DEF Added

\* The tasks stay named if the new task is, and their names stay good.
LEMMA PushedNames ==
  ASSUME IInv, NamesInv, NEW d \in Shards, NEW m \in Tasks, Push(d, m), UNCHANGED task,
         Named(m, contexts', next_correlation_id'),
         ContextsNamed(contexts', next_correlation_id'),
         \A t : t.correlation_id \in Nat /\ Named(t, contexts, next_correlation_id)
                  => Named(t, contexts', next_correlation_id')
  PROVE  NamesInv'
  <1> DEFINE C == contexts'
             n == next_correlation_id'
  <1>1. /\ task_queue \in [Shards -> Seq(Tasks)]
        /\ task \in [Shards -> Tasks \cup {NoTask}]
    BY DEF IInv, TypeOK, PoolTypeOK
  <1>2. /\ task_queue'[d] = Append(task_queue[d], m)
        /\ \A r \in Shards : r # d => task_queue'[r] = task_queue[r]
        /\ task' = task
    BY <1>1 DEF Push
  <1>3. ASSUME NEW r \in Shards
        PROVE  AllNamed(task[r], task_queue[r], C, n)
    <2>1. AllNamed(task[r], task_queue[r], contexts, next_correlation_id)
      BY DEF NamesInv
    <2>2. task[r].correlation_id \in Nat
      BY <1>1, TaskLabels
    <2>3. \A j \in 1 .. Len(task_queue[r]) : task_queue[r][j].correlation_id \in Nat
      <3>1. task_queue[r] \in Seq(Tasks)
        BY <1>1
      <3>2. \A j \in 1 .. Len(task_queue[r]) : task_queue[r][j] \in Tasks
        BY <3>1, ElementOfSeq
      <3> QED
        BY <3>2, TaskFacts
    <2> QED
      BY <2>1, <2>2, <2>3 DEF AllNamed
  <1>4. AllNamed(task[d], Append(task_queue[d], m), C, n)
    <2>1. task_queue[d] \in Seq(Tasks) /\ AllNamed(task[d], task_queue[d], C, n)
          /\ Named(m, C, n)
      BY <1>1, <1>3
    <2> HIDE DEF C, n
    <2> QED
      BY <2>1, NamedPush
  <1>5. ASSUME NEW r \in Shards
        PROVE  AllNamed(task'[r], task_queue'[r], C, n)
    <2>1. CASE r = d
      BY <1>2, <1>4, <2>1
    <2>2. CASE r # d
      BY <1>2, <1>3, <2>2
    <2> QED
      BY <2>1, <2>2
  <1> QED
    BY <1>5 DEF NamesInv

\* The shards are what they were, and the map is as it was.
LEMMA SubmitPhase ==
  ASSUME IInv, IInv', Phase2Submit, ContextInv,
         next_correlation_id' \in next_correlation_id .. next_correlation_id + 1
  PROVE  WorkInv' /\ IssuedInv' /\ AliveInv' /\ contexts_alive' = contexts_alive
  <1>1. /\ main_pc = "submit" /\ cursor \in Orders
        /\ UNCHANGED <<worker_pc, task, lifeVars>>
        /\ main_pc' = IF cursor < Len(Workload) THEN "submit" ELSE "wait_all"
        /\ cursor' = IF cursor < Len(Workload) THEN cursor + 1 ELSE 0
        /\ next_correlation_id \in Nat
    BY DEF Phase2Submit, MainAt, SubmitTransfer, Iterate, IInv, TypeOK, PoolTypeOK,
           MainTypeOK, CursorRange
  <1>2. next_correlation_id <= cursor
    BY <1>1 DEF ContextInv, IssuedInv, Issued
  <1>3. Len(Workload) \in Nat /\ cursor \in 1 .. Len(Workload)
    BY <1>1, WorkloadAssumption, LenProperties DEF Orders
  <1>4. next_correlation_id' <= cursor + 1
    BY <1>1, <1>2, <1>3
  <1>5. IssuedInv'
    <2>1. CASE cursor < Len(Workload)
      BY <1>1, <1>4, <2>1 DEF IssuedInv, Issued
    <2>2. CASE ~ cursor < Len(Workload)
      <3>1. cursor = Len(Workload)
        BY <1>3, <2>2
      <3> QED
        BY <1>1, <1>4, <2>2, <3>1 DEF IssuedInv, Issued
    <2> QED
      BY <2>1, <2>2
  <1>6. WorkInv' /\ AliveInv'
    BY <1>1 DEF ContextInv, WorkInv, AliveInv, lifeVars
  <1> QED
    BY <1>1, <1>5, <1>6 DEF lifeVars

LEMMA SubmitStep ==
  ASSUME IInv, IInv', ContextInv, Phase2Submit
  PROVE  ContextInv'
  <1> DEFINE d == GetShardId(Src(cursor))
             n == next_correlation_id
  <1>1. /\ cursor \in Orders /\ SubmitTransfer(cursor)
        /\ UNCHANGED <<worker_pc, task>>
        /\ n \in Nat \ {0}
    BY DEF Phase2Submit, MainAt, SubmitTransfer, IInv, TypeOK, PoolTypeOK,
           MainTypeOK, CursorRange
  <1>2. d \in Shards
    BY <1>1, OrderFacts, ShardFacts
  <1>3. Lines \in Layouts /\ Lines' \in Layouts /\ UniqueIn(Lines) /\ NamesInv
    BY LinesType DEF ContextInv, TrackInv
  <1>4. CASE SubmitLocal(cursor)
    <2> DEFINE m == LocalTask(cursor)
    <2>1. /\ m \in Tasks /\ Push(d, m)
          /\ contexts' = contexts /\ next_correlation_id' = next_correlation_id
      BY <1>1, <1>4, TaskFacts DEF SubmitLocal
    <2>2. Marks(m) = {}
      BY DEF Marks, Cross, LocalTask, Task
    <2>3. Named(m, contexts, n)
      <3>1. m.correlation_id = 0
        BY DEF LocalTask, Task
      <3>2. ContextsNamed(contexts, n)
        BY <1>3 DEF NamesInv
      <3> QED
        BY <1>1, <3>1, <3>2 DEF Named, ContextsNamed
    <2> HIDE DEF m, d
    <2>4. NamesInv'
      <3>1. Named(m, contexts', next_correlation_id')
            /\ ContextsNamed(contexts', next_correlation_id')
        BY <1>3, <2>1, <2>3 DEF NamesInv
      <3>2. \A t : t.correlation_id \in Nat /\ Named(t, contexts, next_correlation_id)
                     => Named(t, contexts', next_correlation_id')
        BY <2>1
      <3> QED
        BY <1>1, <1>2, <1>3, <2>1, <3>1, <3>2, PushedNames
    <2>5. Lines' = Lines
      <3>1. \A r \in Shards, k \in Nat : Lines'[r][k] = Lines[r][k]
        <4>1. Added(Lines, Lines', {})
          BY <1>1, <1>2, <2>1, <2>2, PushedLines
        <4> QED
          BY <4>1 DEF Added
      <3>2. \A r \in Shards : Lines'[r] = Lines[r]
        BY <1>3, <3>1 DEF Layouts
      <3> QED
        BY <1>3, <3>2 DEF Layouts
    <2>6. WorkInv' /\ IssuedInv' /\ AliveInv' /\ contexts_alive' = contexts_alive
      <3>1. next_correlation_id' \in next_correlation_id .. next_correlation_id + 1
        BY <1>1, <2>1
      <3> QED
        BY <3>1, SubmitPhase
    <2>7. TrackInv'
      BY <2>1, <2>5, <2>6 DEF ContextInv, TrackInv
    <2> QED
      BY <2>4, <2>6, <2>7 DEF ContextInv
  <1>5. CASE SubmitCrossShard(cursor)
    <2> DEFINE m == Step1Task(cursor, n)
               c == Context(cursor, n)
    <2>1. /\ m \in Tasks /\ Push(d, m)
          /\ contexts' = contexts \cup {c}
          /\ next_correlation_id' = n + 1
      BY <1>1, <1>5, TaskFacts DEF SubmitCrossShard
    <2>2. /\ Marks(m) = {Label(m)} /\ Label(m)[2] = n /\ Label(c.task) = Label(m)
      BY DEF Marks, Cross, Label, Context, Step1Task, Task
    <2>3. NamesInv'
      <3>1. ContextsNamed(contexts, n)
        BY <1>3 DEF NamesInv
      <3>2. /\ \A t : t.correlation_id \in Nat /\ Named(t, contexts, n)
                        => Named(t, contexts \cup {c}, n + 1)
            /\ ContextsNamed(contexts \cup {c}, n + 1)
            /\ Named(m, contexts \cup {c}, n + 1)
        BY <1>1, <3>1, NamedFresh
      <3> HIDE DEF m, d, c
      <3>3. /\ \A t : t.correlation_id \in Nat /\ Named(t, contexts, n)
                        => Named(t, contexts', next_correlation_id')
            /\ ContextsNamed(contexts', next_correlation_id')
            /\ Named(m, contexts', next_correlation_id')
        BY <2>1, <3>2
      <3> QED
        BY <1>1, <1>2, <1>3, <2>1, <3>3, PushedNames
    <2> HIDE DEF m, d, c
    <2>4. Added(Lines, Lines', {Label(m)})
      BY <1>1, <1>2, <2>1, <2>2, PushedLines
    <2>5. Fresh(Lines, Label(m))
      <3> SUFFICES ASSUME NEW r \in Shards, NEW j \in Nat, NEW y \in Lines[r][j]
                   PROVE  y[2] < n
        BY <1>1, <2>2 DEF Fresh
      <3>1. AllNamed(task[r], task_queue[r], contexts, n)
        BY <1>3 DEF NamesInv
      <3>2. y \in Place(worker_pc[r], task[r], task_queue[r], j)
        BY DEF Lines, Line
      <3>3. Len(task_queue[r]) \in Nat
        <4>1. task_queue[r] \in Seq(Tasks)
          BY DEF IInv, TypeOK, PoolTypeOK
        <4> QED
          BY <4>1, LenProperties
      <3>4. CASE j = 0
        <4>1. y = Label(task[r])
          BY <3>2, <3>4 DEF Place, Held, Marks
        <4> QED
          BY <3>1, <4>1 DEF AllNamed, Named, Label
      <3>5. CASE j # 0
        <4>1. j \in 1 .. Len(task_queue[r]) /\ y = Label(task_queue[r][j])
          BY <3>2, <3>3, <3>5 DEF Place, Marks
        <4> QED
          BY <3>1, <4>1 DEF AllNamed, Named, Label
      <3> QED
        BY <3>4, <3>5
    <2>6. /\ UniqueIn(Lines')
          /\ \A C, e : TrackedBy(Lines, C) /\ Label(e.task) = Label(m)
                         => TrackedBy(Lines', C \cup {e})
      BY <1>3, <2>4, <2>5, LayoutAdd
    <2>7. WorkInv' /\ IssuedInv' /\ AliveInv' /\ contexts_alive' = contexts_alive
      <3>1. next_correlation_id' \in next_correlation_id .. next_correlation_id + 1
        BY <1>1, <2>1
      <3> QED
        BY <3>1, SubmitPhase
    <2>8. UniqueIn(Lines)' /\ (contexts_alive' => TrackedBy(Lines, contexts)')
      <3>1. contexts_alive => TrackedBy(Lines', contexts')
        BY <2>1, <2>2, <2>6 DEF ContextInv, TrackInv
      <3> QED
        BY <2>6, <2>7, <3>1 DEF UniqueIn, TrackedBy
    <2> QED
      BY <2>3, <2>7, <2>8 DEF ContextInv, TrackInv
  <1> QED
    BY <1>1, <1>4, <1>5 DEF SubmitTransfer

\* The other steps of the main thread leave the tasks and the contexts alone.
LEMMA MainMoves ==
  ASSUME IInv, ContextInv,
         UNCHANGED <<task_queue, worker_pc, task, contexts, next_correlation_id>>,
         contexts_alive' => contexts_alive, IssuedInv', AliveInv'
  PROVE  ContextInv'
  <1>1. Lines' = Lines
    BY DEF Lines
  <1>2. TrackInv'
    BY <1>1 DEF ContextInv, TrackInv
  <1> QED
    BY <1>2 DEF ContextInv, WorkInv, NamesInv

LEMMA ContextMain ==
  ASSUME IInv, IInv', ContextInv, Main
  PROVE  ContextInv'
  <1> USE DEF MainAt, poolVars, lifeVars
  <1>0. /\ Len(Workload) \in Nat /\ next_correlation_id \in Nat
        /\ next_correlation_id <= Issued
    BY WorkloadAssumption, LenProperties
       DEF IInv, TypeOK, PoolTypeOK, ContextInv, IssuedInv
  <1>1. CASE Phase1WaitStartup
    <2>1. /\ main_pc = "phase1"
          /\ \/ main_pc' = "phase1"
             \/ main_pc' = "submit" /\ cursor' = 1
             \/ main_pc' = "wait_all"
      BY <1>1, Zenon DEF Phase1WaitStartup, Iterate, Orders
    <2>2. next_correlation_id' = next_correlation_id /\ next_correlation_id <= 1
      BY <1>0, <1>1, <2>1 DEF Phase1WaitStartup, Issued
    <2>3. IssuedInv'
      BY <1>0, <2>1, <2>2 DEF IssuedInv, Issued
    <2>4. AliveInv'
      BY <1>1, <2>1 DEF Phase1WaitStartup, ContextInv, AliveInv
    <2> QED
      BY <1>1, <2>3, <2>4, MainMoves DEF Phase1WaitStartup
  <1>2. CASE Phase2Submit
    BY <1>2, SubmitStep
  <1>3. ASSUME main_pc \notin {"phase1", "submit"}, main_pc' \notin {"phase1", "submit"},
               UNCHANGED <<task_queue, worker_pc, task, contexts, next_correlation_id>>,
               contexts_alive' => contexts_alive, AliveInv'
        PROVE  ContextInv'
    <2>1. IssuedInv'
      BY <1>0, <1>3 DEF IssuedInv, Issued
    <2> QED
      BY <1>3, <2>1, MainMoves
  <1>4. CASE WaitAllComplete
    <2>1. main_pc = "wait_all" /\ main_pc' \in {"wait_all", "destroy_contexts"}
      BY <1>4 DEF WaitAllComplete, Iterate
    <2>2. AliveInv'
      BY <1>4, <2>1 DEF WaitAllComplete, ContextInv, AliveInv
    <2> QED
      BY <1>3, <1>4, <2>1, <2>2 DEF WaitAllComplete
  <1>5. CASE DestroyContexts
    BY <1>3, <1>5 DEF DestroyContexts, AliveInv
  <1>6. CASE StopShard
    BY <1>3, <1>6 DEF StopShard, ContextInv, AliveInv
  <1>7. CASE JoinShard
    <2>1. main_pc = "join_shard" /\ main_pc' \in {"stop_shard", "phase3_stop"}
      BY <1>7 DEF JoinShard, Iterate
    <2>2. ~ contexts_alive
      BY <2>1 DEF ContextInv, AliveInv
    <2> QED
      BY <1>3, <1>7, <2>1, <2>2 DEF JoinShard, AliveInv
  <1>8. CASE Phase3Stop
    BY <1>3, <1>8 DEF Phase3Stop, ContextInv, AliveInv
  <1>9. CASE Phase3WaitDone
    <2>1. main_pc = "phase3" /\ main_pc' \in {"phase3", "phase4"}
      BY <1>9 DEF Phase3WaitDone, Iterate
    <2>2. AliveInv'
      BY <1>9, <2>1 DEF Phase3WaitDone, ContextInv, AliveInv
    <2> QED
      BY <1>3, <1>9, <2>1, <2>2 DEF Phase3WaitDone
  <1>10. CASE Phase4CollectHistory
    <2>1. main_pc = "phase4" /\ main_pc' \in {"phase4", "finished"}
      BY <1>10 DEF Phase4CollectHistory, Iterate
    <2>2. AliveInv'
      BY <1>10, <2>1 DEF Phase4CollectHistory, ContextInv, AliveInv
    <2> QED
      BY <1>3, <1>10, <2>1, <2>2 DEF Phase4CollectHistory
  <1> QED
    BY <1>1, <1>2, <1>4, <1>5, <1>6, <1>7, <1>8, <1>9, <1>10 DEF Main, MainStep

-----------------------------------------------------------------------------
(***************************************************************************)
(* The invariant holds.                                                    *)
(***************************************************************************)
LEMMA ContextInitial == Init => ContextInv
  <1> SUFFICES ASSUME Init PROVE ContextInv
    OBVIOUS
  <1>1. \A s \in Shards : /\ worker_pc[s] = "wait" /\ task[s] = NoTask
                          /\ task_queue[s] = << >> /\ shard_alive[s]
    BY DEF Init, PoolInit
  <1>2. /\ contexts = {} /\ next_correlation_id = 1
        /\ main_pc = "phase1"
    BY DEF Init, PoolInit, MainInit
  <1>3. Len(<< >>) = 0 /\ NoTask.correlation_id = 0 /\ Marks(NoTask) = {}
    BY TaskLabels DEF NoTask, LocalTask, Task
  <1>4. WorkInv
    BY <1>1 DEF WorkInv, Working
  <1>5. NamesInv
    BY <1>1, <1>2, <1>3 DEF NamesInv, AllNamed, Named, ContextsNamed
  <1>6. IssuedInv /\ AliveInv
    BY <1>1, <1>2 DEF IssuedInv, Issued, AliveInv
  <1>7. \A s \in Shards, j \in Nat : Lines[s][j] = {}
    BY <1>1, <1>3 DEF Lines, Line, Place, Held
  <1>8. TrackInv
    BY <1>2, <1>7 DEF TrackInv, UniqueIn, TrackedBy
  <1> QED
    BY <1>4, <1>5, <1>6, <1>8 DEF ContextInv

LEMMA ContextInductive == IInv /\ ContextInv /\ [Next]_vars => ContextInv'
  <1> SUFFICES ASSUME IInv, ContextInv, [Next]_vars PROVE ContextInv'
    OBVIOUS
  <1>1. IInv'
    BY Inductive
  <1>2. CASE Main
    BY <1>1, <1>2, ContextMain
  <1>3. CASE \E s \in Shards : Worker(s)
    BY <1>1, <1>3, ContextWorker
  <1>4. CASE \E a \in Accounts : Account(a)
    BY <1>4, ContextStutter DEF Account, parentVars, poolVars
  <1>5. CASE UNCHANGED vars
    BY <1>5, ContextStutter DEF vars, parentVars, poolVars
  <1> QED
    BY <1>2, <1>3, <1>4, <1>5 DEF Next, Terminated

\* The bookkeeping of cross-shard transfers stays in order: tasks have the
\* type of the handler that runs them, ids are issued once per transfer and
\* each is in one place only (shard_manager.cpp:79-96, account_shard.cpp:135-197).
THEOREM ContextInvariance == Spec => [](IInv /\ ContextInv)
  <1>1. Init => IInv /\ ContextInv
    BY Initial, ContextInitial
  <1>2. IInv /\ ContextInv /\ [Next]_vars => (IInv /\ ContextInv)'
    BY Inductive, ContextInductive
  <1> QED
    BY <1>1, <1>2, PTL DEF Spec

\* While the map of contexts exists it holds the context of every cross-shard
\* transfer that is queued or running, under its own correlation id, and
\* nothing else (shard_manager.cpp:34-64, :79-96).
THEOREM ContextsTrackTransfers == Spec => []ContextTracksTransfer
  <1>1. ASSUME IInv, ContextInv, contexts_alive
        PROVE  /\ { <<c.task.order, c.task.correlation_id>> : c \in contexts } =
                  { <<t.order, t.correlation_id>> : t \in PendingCross }
               /\ \A c, d \in contexts :
                    c.task.correlation_id = d.task.correlation_id => c = d
    <2>1. \A c, d \in contexts :
            c.task.correlation_id = d.task.correlation_id => c = d
      BY <1>1 DEF ContextInv, NamesInv, ContextsNamed
    <2>2. TrackedBy(Lines, contexts)
      BY <1>1 DEF ContextInv, TrackInv
    <2>3. \A s \in Shards, j \in Nat :
            Lines[s][j] = Place(worker_pc[s], task[s], task_queue[s], j)
      BY DEF Lines, Line
    <2>4. \A s \in Shards : /\ Len(task_queue[s]) \in Nat
                            /\ DOMAIN task_queue[s] = 1 .. Len(task_queue[s])
      <3>1. \A s \in Shards : task_queue[s] \in Seq(Tasks)
        BY <1>1 DEF IInv, TypeOK, PoolTypeOK
      <3> QED
        BY <3>1, LenProperties
    <2>5. ASSUME NEW c \in contexts
          PROVE  \E t \in PendingCross : Label(c.task) = Label(t)
      <3>1. PICK s \in Shards, j \in Nat : Label(c.task) \in Lines[s][j]
        BY <2>2 DEF TrackedBy
      <3>2. Label(c.task) \in Place(worker_pc[s], task[s], task_queue[s], j)
        BY <2>3, <3>1
      <3>3. CASE j = 0
        <4>1. /\ worker_pc[s] # "step2_notify" /\ Cross(task[s])
              /\ Label(c.task) = Label(task[s])
          BY <3>2, <3>3 DEF Place, Held, Marks
        <4>2. task[s] \in PendingCross
          BY <4>1 DEF PendingCross, Running, Cross
        <4> QED
          BY <4>1, <4>2
      <3>4. CASE j # 0
        <4>1. /\ j \in DOMAIN task_queue[s] /\ Cross(task_queue[s][j])
              /\ Label(c.task) = Label(task_queue[s][j])
          BY <2>4, <3>2, <3>4 DEF Place, Marks
        <4>2. task_queue[s][j] \in Range(task_queue[s])
          BY <4>1 DEF Range
        <4>3. task_queue[s][j] \in PendingCross
          BY <4>1, <4>2 DEF PendingCross, Cross
        <4> QED
          BY <4>1, <4>3
      <3> QED
        BY <3>3, <3>4
    <2>6. ASSUME NEW t \in PendingCross
          PROVE  \E c \in contexts : Label(t) = Label(c.task)
      <3>1. Cross(t)
        BY DEF PendingCross, Cross
      <3>2. \E s \in Shards, j \in Nat : Label(t) \in Lines[s][j]
        <4>1. CASE t \in Running
          <5>1. PICK s \in Shards : worker_pc[s] # "step2_notify" /\ t = task[s]
            BY <4>1 DEF Running
          <5>2. Label(t) \in Lines[s][0]
            BY <2>3, <3>1, <5>1 DEF Place, Held, Marks
          <5> QED
            BY <5>2
        <4>2. CASE t \notin Running
          <5>1. PICK s \in Shards : t \in Range(task_queue[s])
            BY <4>2 DEF PendingCross
          <5>2. PICK j \in DOMAIN task_queue[s] : t = task_queue[s][j]
            BY <5>1 DEF Range
          <5>3. j \in Nat /\ j # 0 /\ j <= Len(task_queue[s])
            BY <2>4, <5>2
          <5>4. Label(t) \in Lines[s][j]
            BY <2>3, <3>1, <5>2, <5>3 DEF Place, Marks
          <5> QED
            BY <5>3, <5>4
        <4> QED
          BY <4>1, <4>2
      <3> QED
        BY <2>2, <3>2 DEF TrackedBy
    <2> QED
      BY <2>1, <2>5, <2>6 DEF Label
  <1>2. IInv /\ ContextInv => ContextTracksTransfer
    BY <1>1 DEF ContextTracksTransfer
  <1> QED
    BY <1>2, ContextInvariance, PTL

-----------------------------------------------------------------------------
(***************************************************************************)
(* Each shard of the manager is a TaskQueue.                               *)
(***************************************************************************)
\* A shard whose queue, worker and task stay where they are stutters.
LEMMA ShardStutters ==
  ASSUME NEW s \in Shards,
         task_queue'[s] = task_queue[s], worker_pc'[s] = worker_pc[s],
         task'[s] = task[s], stop_flag'[s] = stop_flag[s]
  PROVE  [Shard(s)!Next]_(Shard(s)!vars)
  BY DEF Shard!vars, Current, AbstractWorker

LEMMA ShardSubmits ==
  ASSUME NEW s \in Shards, NEW m \in BoundedTasks,
         task_queue'[s] = Append(task_queue[s], m),
         AbstractWorker(s)' = AbstractWorker(s),
         Current(s)' = Current(s), stop_flag'[s] = stop_flag[s]
  PROVE  [Shard(s)!Next]_(Shard(s)!vars)
  BY DEF Shard!vars, Shard!Next, Shard!Submit

\* The correlation ids that were issued are those of BoundedTasks.
LEMMA IssuedBound ==
  ASSUME IInv, ContextInv
  PROVE  /\ next_correlation_id - 1 \in 0 .. Len(Workload)
         /\ main_pc = "submit" => next_correlation_id \in 0 .. Len(Workload)
         /\ \A t \in Tasks : Named(t, contexts, next_correlation_id)
                               => t \in BoundedTasks
  <1>1. /\ Len(Workload) \in Nat /\ next_correlation_id \in Nat \ {0}
        /\ next_correlation_id <= Issued
        /\ main_pc = "submit" => cursor \in Orders
    BY WorkloadAssumption, LenProperties
       DEF IInv, TypeOK, PoolTypeOK, MainTypeOK, CursorRange, ContextInv, IssuedInv
  <1>2. /\ next_correlation_id <= Len(Workload) + 1
        /\ main_pc = "submit" => next_correlation_id <= Len(Workload)
    BY <1>1 DEF Issued, Orders
  <1>3. ASSUME NEW t \in Tasks, Named(t, contexts, next_correlation_id)
        PROVE  t \in BoundedTasks
    <2>1. t.correlation_id \in Nat /\ t.correlation_id < next_correlation_id
      BY <1>3, TaskFacts DEF Named
    <2>2. t.correlation_id \in 0 .. Len(Workload)
      BY <1>1, <1>2, <2>1
    <2> QED
      BY <2>2 DEF Tasks, BoundedTasks
  <1> QED
    BY <1>1, <1>2, <1>3

\* The worker of s takes a task, works at it, returns or leaves; every other
\* shard stays as it is.
LEMMA WorkerShard ==
  ASSUME IInv, ContextInv, NEW s \in Shards, NEW r \in Shards, Worker(s)
  PROVE  [Shard(r)!Next]_(Shard(r)!vars)
  <1> DEFINE Goal == [Shard(r)!Next]_(Shard(r)!vars)
  <1> SUFFICES Goal
    OBVIOUS
  <1> USE DEF WorkerAt, WorkerGoTo, HandlerReturns, lifeVars
  <1>0. /\ worker_pc \in [Shards -> WorkerPcs]
        /\ task \in [Shards -> Tasks \cup {NoTask}]
        /\ task_queue \in [Shards -> Seq(Tasks)]
        /\ Working(worker_pc[s], task[s])
    BY DEF IInv, TypeOK, PoolTypeOK, ContextInv, WorkInv
  <1> HIDE DEF Goal
  <1>1. CASE WorkerTake(s)
    <2>1. CASE r = s
      <3>1. /\ worker_pc[s] = "wait" /\ task_queue[s] # << >>
            /\ worker_pc'[s] = HandlerOf(Head(task_queue[s]))
            /\ task'[s] = Head(task_queue[s])
            /\ task_queue'[s] = Tail(task_queue[s])
            /\ stop_flag'[s] = stop_flag[s]
        BY <1>0, <1>1 DEF WorkerTake
      <3>2. Head(task_queue[s]) \in Tasks
        BY <1>0, <3>1, TakeHeadFacts
      <3>3. HandlerOf(Head(task_queue[s])) \in {"local_send", "step1_send", "step2_send"}
        BY <3>2 DEF HandlerOf, Tasks, TaskTypes
      <3>4. Shard(s)!Take
        BY <3>1, <3>3 DEF Shard!Take, Current, AbstractWorker
      <3> QED
        BY <2>1, <3>4 DEF Goal, Shard!Next
    <2>2. CASE r # s
      BY <1>0, <1>1, <2>2, ShardStutters DEF WorkerTake, Goal
    <2> QED
      BY <2>1, <2>2
  <1>2. CASE WorkerExit(s)
    <2>1. CASE r = s
      <3>1. Shard(s)!Exit
        BY <1>0, <1>2 DEF WorkerExit, Shard!Exit, Current, AbstractWorker
      <3> QED
        BY <2>1, <3>1 DEF Goal, Shard!Next
    <2>2. CASE r # s
      BY <1>0, <1>2, <2>2, ShardStutters DEF WorkerExit, Goal
    <2> QED
      BY <2>1, <2>2
  <1>3. CASE LocalAck(s) \/ Step1NotFound(s) \/ Step2Notify(s) \/ Step2Cleanup(s)
    <2>1. /\ worker_pc[s] \in {"local_ack", "step1_lookup", "step2_notify", "step2_cleanup"}
          /\ worker_pc' = [worker_pc EXCEPT ![s] = "wait"]
          /\ task' = [task EXCEPT ![s] = NoTask]
          /\ UNCHANGED <<task_queue, stop_flag>>
      BY <1>3 DEF LocalAck, Step1NotFound, Step2Notify, Step2Cleanup
    <2>2. CASE r = s
      <3>1. Shard(s)!Finish
        BY <1>0, <2>1 DEF Shard!Finish, Current, AbstractWorker
      <3> QED
        BY <2>2, <3>1 DEF Goal, Shard!Next
    <2>3. CASE r # s
      BY <1>0, <2>1, <2>3, ShardStutters DEF Goal
    <2> QED
      BY <2>2, <2>3
  <1>4. CASE LocalSend(s) \/ Step1Send(s) \/ Step2Send(s) \/ Step2Ack(s)
    <2>1. /\ worker_pc[s] \in {"local_send", "step1_send", "step2_send", "step2_ack"}
          /\ \E pc \in {"local_ack", "step1_lookup", "step2_ack", "step2_cleanup"} :
               worker_pc' = [worker_pc EXCEPT ![s] = pc]
          /\ UNCHANGED <<task, task_queue, stop_flag>>
      BY <1>4 DEF LocalSend, Step1Send, Step2Send, Step2Ack
    <2>2. CASE r = s
      BY <1>0, <2>1, <2>2 DEF Goal, Shard!vars, Current, AbstractWorker
    <2>3. CASE r # s
      BY <1>0, <2>1, <2>3, ShardStutters DEF Goal
    <2> QED
      BY <2>2, <2>3
  <1>5. CASE Step1Found(s)
    <2>1. PICK c \in ContextOf(task[s].correlation_id) :
            task' = [task EXCEPT ![s] = Step2Task(c.task.order, task[s].correlation_id)]
      BY <1>5 DEF Step1Found
    <2>2. /\ worker_pc[s] = "step1_lookup"
          /\ worker_pc' = [worker_pc EXCEPT ![s] = "step2_push"]
          /\ UNCHANGED <<task_queue, stop_flag>>
      BY <1>5 DEF Step1Found
    <2>3. CASE r = s
      <3>1. task[s] \in Tasks /\ task[s].task_type = "CROSS_SHARD_STEP1"
        BY <2>2, WorkerTask DEF Working
      <3>2. c.task.order = task[s].order
        <4>1. Named(task[s], contexts, next_correlation_id)
          BY WorkerTask
        <4> QED
          BY <4>1 DEF ContextOf, Named
      <3>3. task'[s] = Step2Task(task[s].order, task[s].correlation_id)
        BY <1>0, <2>1, <3>2
      <3>4. Step1Task(task'[s].order, task'[s].correlation_id) = task[s]
        BY <3>1, <3>3 DEF Step1Task, Step2Task, Task, Tasks
      <3>5. worker_pc'[s] = "step2_push"
        BY <1>0, <2>2
      <3>6. Current(s)' = Current(s)
        BY <2>2, <3>4, <3>5 DEF Current
      <3>7. AbstractWorker(s)' = AbstractWorker(s)
        BY <2>2, <3>5 DEF AbstractWorker
      <3> QED
        BY <2>2, <2>3, <3>6, <3>7 DEF Goal, Shard!vars
    <2>4. CASE r # s
      BY <1>0, <2>1, <2>2, <2>4, ShardStutters DEF Goal
    <2> QED
      BY <2>3, <2>4
  <1>6. CASE Step2Push(s)
    <2> DEFINE d == GetShardId(Dst(task[s].order))
    <2>1. /\ worker_pc[s] = "step2_push"
          /\ worker_pc' = [worker_pc EXCEPT ![s] = "step2_notify"]
          /\ UNCHANGED <<task, stop_flag>>
          /\ \/ task_queue' = [task_queue EXCEPT ![d] = Append(@, task[s])]
             \/ UNCHANGED task_queue
      BY <1>6 DEF Step2Push, Push
    <2>2. task[s] \in BoundedTasks
      BY <2>1, WorkerTask, IssuedBound
    <2> HIDE DEF d
    <2>3. Current(r)' = Current(r) /\ AbstractWorker(r)' = AbstractWorker(r)
      <3>1. /\ r = s => worker_pc'[r] = "step2_notify" /\ worker_pc[r] = "step2_push"
            /\ r # s => worker_pc'[r] = worker_pc[r]
        BY <1>0, <2>1
      <3>2. Current(r)' = Current(r)
        BY <2>1, <3>1 DEF Current
      <3>3. AbstractWorker(r)' = AbstractWorker(r)
        BY <3>1 DEF AbstractWorker
      <3> QED
        BY <3>2, <3>3
    <2>4. CASE task_queue'[r] = task_queue[r]
      BY <2>1, <2>3, <2>4 DEF Goal, Shard!vars
    <2>5. CASE task_queue'[r] # task_queue[r]
      <3>1. task_queue'[r] = Append(task_queue[r], task[s])
        BY <1>0, <2>1, <2>5
      <3> QED
        BY <2>1, <2>2, <2>3, <3>1, ShardSubmits DEF Goal
    <2> QED
      BY <2>4, <2>5
  <1>7. CASE Crash(s)
    BY <1>7, ShardStutters DEF Crash, Goal
  <1> QED
    BY <1>1, <1>2, <1>3, <1>4, <1>5, <1>6, <1>7 DEF Worker, WorkerStep

\* A submission reaches one shard, and stop_flag_ is the one of the shard that
\* is being destroyed.
LEMMA MainShard ==
  ASSUME IInv, ContextInv, NEW r \in Shards, Main
  PROVE  [Shard(r)!Next]_(Shard(r)!vars)
  <1> DEFINE Goal == [Shard(r)!Next]_(Shard(r)!vars)
  <1> SUFFICES Goal
    OBVIOUS
  <1> HIDE DEF Goal
  <1>0. /\ stop_flag \in [Shards -> BOOLEAN]
        /\ task_queue \in [Shards -> Seq(Tasks)]
    BY DEF IInv, TypeOK, PoolTypeOK
  <1>1. CASE Phase2Submit
    <2> DEFINE d == GetShardId(Src(cursor))
               Given == {LocalTask(cursor), Step1Task(cursor, next_correlation_id)}
    <2>1. /\ main_pc = "submit" /\ cursor \in Orders
          /\ UNCHANGED <<worker_pc, task, stop_flag>>
          /\ \E m \in Given : task_queue' = [task_queue EXCEPT ![d] = Append(@, m)]
      BY <1>1 DEF Phase2Submit, MainAt, SubmitTransfer, SubmitLocal, SubmitCrossShard,
                  Push, lifeVars, IInv, TypeOK, MainTypeOK, CursorRange
    <2>2. \A m \in Given : m \in BoundedTasks
      <3>1. /\ next_correlation_id \in 0 .. Len(Workload)
            /\ 0 \in 0 .. Len(Workload)
        BY <2>1, IssuedBound, WorkloadAssumption, LenProperties
      <3> QED
        BY <2>1, <3>1 DEF BoundedTasks, LocalTask, Step1Task, Task, TaskTypes
    <2> HIDE DEF Given, d
    <2>3. Current(r)' = Current(r) /\ AbstractWorker(r)' = AbstractWorker(r)
      BY <2>1 DEF Current, AbstractWorker
    <2>4. PICK m \in Given : task_queue' = [task_queue EXCEPT ![d] = Append(@, m)]
      BY <2>1
    <2>5. m \in BoundedTasks
      BY <2>2
    <2>6. task_queue'[r] = task_queue[r] \/ task_queue'[r] = Append(task_queue[r], m)
      BY <1>0, <2>4
    <2>7. CASE task_queue'[r] = task_queue[r]
      BY <2>1, <2>3, <2>7 DEF Goal, Shard!vars
    <2>8. CASE task_queue'[r] = Append(task_queue[r], m)
      BY <2>1, <2>3, <2>5, <2>8, ShardSubmits DEF Goal
    <2> QED
      BY <2>6, <2>7, <2>8
  <1>2. CASE StopShard
    <2>1. CASE r = cursor
      <3>1. Shard(r)!Stop
        BY <1>0, <1>2, <2>1 DEF StopShard, Shard!Stop, Current, AbstractWorker
      <3> QED
        BY <3>1 DEF Goal, Shard!Next
    <2>2. CASE r # cursor
      BY <1>0, <1>2, <2>2, ShardStutters DEF StopShard, Goal
    <2> QED
      BY <2>1, <2>2
  <1>3. CASE \/ Phase1WaitStartup \/ WaitAllComplete \/ DestroyContexts \/ JoinShard
             \/ Phase3Stop \/ Phase3WaitDone \/ Phase4CollectHistory
    <2>1. UNCHANGED <<task_queue, worker_pc, task, stop_flag>>
      BY <1>3 DEF Phase1WaitStartup, WaitAllComplete, DestroyContexts, JoinShard,
                  Phase3Stop, Phase3WaitDone, Phase4CollectHistory, poolVars, lifeVars
    <2> QED
      BY <2>1, ShardStutters DEF Goal
  <1> QED
    BY <1>1, <1>2, <1>3 DEF Main, MainStep

\* Whatever the threads of the parent do, each shard takes its tasks in the
\* order in which they were submitted, executes one at a time, and its worker
\* leaves only with an empty queue (account_shard.cpp:59-84): it keeps the
\* contract of TaskQueue, as AccountShard does.
THEOREM ManagerShardsAreQueues == Spec => ShardsAreTaskQueues
  <1> DEFINE Starts == \A s \in Shards : Shard(s)!Init
             Steps == \A s \in Shards : [Shard(s)!Next]_(Shard(s)!vars)
  <1>1. Init => Starts
    BY DEF Init, PoolInit, Shard!Init, Current, AbstractWorker
  <1>2. ASSUME IInv, ContextInv, [Next]_vars
        PROVE  Steps
    <2> SUFFICES ASSUME NEW r \in Shards PROVE [Shard(r)!Next]_(Shard(r)!vars)
      OBVIOUS
    <2>1. CASE Main
      BY <1>2, <2>1, MainShard
    <2>2. CASE \E s \in Shards : Worker(s)
      BY <1>2, <2>2, WorkerShard
    <2>3. CASE \E a \in Accounts : Account(a)
      BY <2>3, ShardStutters DEF Account, parentVars, poolVars, lifeVars
    <2>4. CASE UNCHANGED vars
      BY <2>4, ShardStutters DEF vars, parentVars, poolVars, lifeVars
    <2> QED
      BY <1>2, <2>1, <2>2, <2>3, <2>4 DEF Next, Terminated
  <1>3. IInv /\ ContextInv /\ [Next]_vars => Steps
    BY <1>2
  <1> HIDE DEF Starts, Steps
  <1>4. Spec => Starts /\ [][Steps]_vars
    BY <1>1, <1>3, ContextInvariance, PTL DEF Spec
  <1> QED
    BY <1>4 DEF ShardsAreTaskQueues, Starts, Steps
=============================================================================
