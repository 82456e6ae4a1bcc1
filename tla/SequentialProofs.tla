--------------------------- MODULE SequentialProofs --------------------------
(***************************************************************************)
(* Proofs about the components whose calls are single steps: Schedulers,   *)
(* each of which hands out every task once and in its order, for any       *)
(* number of pushes, priorities and workers; Composition, each of whose    *)
(* copies is the source over again, for any composition, target and number *)
(* of copies; and Placement, which spreads any number of workers evenly    *)
(* over every machine.                                                     *)
(***************************************************************************)
EXTENDS Schedulers, Composition, Placement, DataLemmas
-----------------------------------------------------------------------------
(* Schedulers.                                                             *)

Entries == [op : {"push"}, task : Nat, priority : Priorities] \cup [op : {"pop"}, task : Nat]

Workers == 0 .. NumWorkers - 1

\* The tasks pushed so far, and those still queued.
Tasks == {log[i].task : i \in Pushed}
Left  == Waiting(Len(log))

Increasing(q) == \A i, j \in DOMAIN q : i < j => q[i] < q[j]

\* The places of the pops since the place i.
Since(i) == PopsIn(i, Len(log))

\* x was pushed before y, and nothing was popped in between.
Undisturbed(x, y) == PushAt(x) < PushAt(y) /\ Between(x, y) = {}

\* Too little was popped between the two pushes for y to overtake x.
Kept(x, y) == x < y /\ Cardinality(Between(x, y)) < y - x

\* Tasks are numbered as they are pushed.
NumberInv ==
  /\ log \in Seq(Entries)
  /\ \A i \in Pushed : log[i].task \in 1 .. NextTask - 1
  /\ \A i, j \in Pushed : i < j => log[i].task < log[j].task

\* After i operations, t was one that nothing had to precede.
Due(t, i) == t \in Waiting(i) /\ \A x \in Waiting(i) : ~Before(x, t)

\* What has been popped was due.
PastInv == \A i \in Since(1) : \E t \in Tasks : log[i].task = t /\ Due(t, i - 1)

FifoInv ==
  scheduler = "fifo" =>
    queue \in Seq(Nat) /\ Increasing(queue) /\ ToSet(queue) = Left

\* The number of an entry is the length the heap had: it grows with the pushes
\* and shrinks with the pops, so that two numbers are as far apart as the tasks,
\* less the pops between their pushes.
HeapInv ==
  scheduler = "priority" =>
    /\ IsFiniteSet(heap) /\ heap \subseteq [task : Nat, priority : Priorities, order : Nat]
    /\ {e.task : e \in heap} = Left
    /\ \A e, f \in heap : e.task = f.task => e = f
    /\ \A e \in heap :
         /\ e.priority = log[PushAt(e.task)].priority
         /\ e.order + (NextTask - e.task) = Cardinality(heap) + Cardinality(Since(PushAt(e.task)))
    /\ \A e, f \in heap : e.task < f.task =>
         f.order + Cardinality(Between(e.task, f.task)) = e.order + (f.task - e.task)

\* As long as nothing is popped the index is as many queues further as there have
\* been pushes, so that a whole turn later it is at the same queue.
RoundInv ==
  scheduler = "round_robin" =>
    /\ current \in Workers
    /\ queues \in [Workers -> Seq(Nat)]
    /\ \A w \in Workers : Increasing(queues[w])
    /\ UNION {ToSet(queues[w]) : w \in Workers} = Left
    /\ \A v, w \in Workers : v # w => ToSet(queues[v]) \cap ToSet(queues[w]) = {}
    /\ \A w \in Workers : \A x \in ToSet(queues[w]) :
         Since(PushAt(x)) = {} => current = (w + (NextTask - x)) % NumWorkers
    /\ \A v, w \in Workers : \A x \in ToSet(queues[v]) : \A y \in ToSet(queues[w]) :
         Undisturbed(x, y) /\ (y - x) % NumWorkers = 0 => v = w

OrderInv ==
  /\ scheduler \in {"fifo", "priority", "round_robin"}
  /\ NumberInv /\ PastInv /\ FifoInv /\ HeapInv /\ RoundInv
-----------------------------------------------------------------------------
(* The log.                                                                *)

LEMMA LogFacts ==
  ASSUME log \in Seq(Entries)
  PROVE  /\ Len(log) \in Nat /\ DOMAIN log = 1 .. Len(log)
         /\ \A i \in 1 .. Len(log) : log[i] \in Entries /\ log[i].op \in {"push", "pop"}
         /\ Pushed \subseteq 1 .. Len(log) /\ IsFiniteSet(Pushed)
         /\ Cardinality(Pushed) \in Nat /\ NextTask \in Nat \ {0}
<1>1. Len(log) \in Nat /\ DOMAIN log = 1 .. Len(log)
  BY LenProperties
<1>2. \A i \in 1 .. Len(log) : log[i] \in Entries
  BY <1>1, ElementOfSeq
<1>3. \A i \in 1 .. Len(log) : log[i].op \in {"push", "pop"}
  BY <1>2 DEF Entries
<1>4. Pushed \subseteq 1 .. Len(log)
  BY <1>1 DEF Pushed
<1>5. IsFiniteSet(1 .. Len(log))
  BY <1>1, FS_Interval
<1>6. IsFiniteSet(Pushed)
  BY <1>4, <1>5, FS_Subset
<1>7. Cardinality(Pushed) \in Nat
  BY <1>6, FS_CardinalityType
<1> QED BY <1>1, <1>2, <1>3, <1>4, <1>6, <1>7 DEF NextTask

LEMMA PushAtFacts ==
  ASSUME NumberInv, NEW i \in Pushed
  PROVE  PushAt(log[i].task) = i
<1>1. i \in Nat /\ \A j \in Pushed : j \in Nat
  BY LogFacts DEF NumberInv
<1>2. /\ PushAt(log[i].task) \in Pushed
      /\ log[PushAt(log[i].task)].task = log[i].task
  BY DEF PushAt
<1>3. \A j \in Pushed : log[j].task = log[i].task => j = i
  <2> SUFFICES ASSUME NEW j \in Pushed, log[j].task = log[i].task PROVE j = i
    OBVIOUS
  <2>1. log[j].task \in Nat /\ log[i].task \in Nat
    BY LogFacts DEF NumberInv
  <2>2. ~(i < j) /\ ~(j < i)
    BY <2>1 DEF NumberInv
  <2> QED BY <1>1, <2>2
<1> QED BY <1>2, <1>3

\* A task that has been pushed has a place in the log.
LEMMA TaskFacts ==
  ASSUME NumberInv, NEW t \in Tasks
  PROVE  /\ t \in Nat /\ t \in 1 .. NextTask - 1
         /\ PushAt(t) \in Pushed /\ PushAt(t) \in 1 .. Len(log)
         /\ log[PushAt(t)].task = t /\ log[PushAt(t)].priority \in Priorities
<1>1. PICK i \in Pushed : log[i].task = t
  BY DEF Tasks
<1>2. PushAt(t) = i
  BY <1>1, PushAtFacts
<1>3. i \in 1 .. Len(log) /\ log[i] \in Entries /\ log[i].op = "push" /\ NextTask \in Nat
  BY LogFacts DEF NumberInv, Pushed
<1>4. log[i].priority \in Priorities
  BY <1>3 DEF Entries
<1>5. t \in 1 .. NextTask - 1
  BY <1>1 DEF NumberInv
<1> QED BY <1>1, <1>2, <1>3, <1>4, <1>5

\* Of two tasks the one pushed earlier has the smaller number.
LEMMA EarlierFacts ==
  ASSUME NumberInv, NEW x \in Tasks, NEW y \in Tasks, PushAt(x) < PushAt(y)
  PROVE  x < y
BY TaskFacts DEF NumberInv

LEMMA WaitingFacts ==
  ASSUME NumberInv, NEW i \in 0 .. Len(log)
  PROVE  Waiting(i) \subseteq Tasks
BY DEF Waiting, Tasks

-----------------------------------------------------------------------------
(* An operation adds one entry to the log.                                 *)

Logged(e) == log' = Append(log, e)

LEMMA LogGrows ==
  ASSUME NumberInv, NEW e \in Entries, Logged(e)
  PROVE  /\ log' \in Seq(Entries) /\ Len(log') = Len(log) + 1
         /\ \A i \in 1 .. Len(log) : log'[i] = log[i]
         /\ log'[Len(log) + 1] = e
         /\ e.op = "push" => Pushed' = Pushed \cup {Len(log) + 1}
         /\ e.op = "pop" => Pushed' = Pushed
<1> DEFINE p == Append(log, e)
<1>1. /\ p \in Seq(Entries) /\ Len(p) = Len(log) + 1 /\ DOMAIN p = 1 .. Len(log) + 1
      /\ \A i \in 1 .. Len(log) : p[i] = log[i]
      /\ p[Len(log) + 1] = e
  BY AppendProperties, LenProperties DEF NumberInv
<1>2. DOMAIN log = 1 .. Len(log) /\ Len(log) \in Nat
  BY LogFacts DEF NumberInv
<1> HIDE DEF p
<1>3. log' = p
  BY DEF Logged, p
<1>4. Pushed' = {i \in 1 .. Len(log) + 1 : p[i].op = "push"}
  BY <1>1, <1>3 DEF Pushed
<1>5. 1 .. Len(log) + 1 = 1 .. Len(log) \cup {Len(log) + 1}
  BY <1>2
<1>6. e.op = "push" => Pushed' = Pushed \cup {Len(log) + 1}
  BY <1>1, <1>2, <1>4, <1>5 DEF Pushed
<1>7. e.op = "pop" => Pushed' = Pushed
  BY <1>1, <1>2, <1>4, <1>5 DEF Pushed
<1> QED BY <1>1, <1>3, <1>6, <1>7

LEMMA PopsGrow ==
  ASSUME NumberInv, NEW e \in Entries, Logged(e)
  PROVE  /\ \A i \in 1 .. Len(log) + 1 : \A j \in 0 .. Len(log) : PopsIn(i, j)' = PopsIn(i, j)
         /\ \A i \in 1 .. Len(log) + 1 :
              /\ e.op = "push" => Since(i)' = Since(i)
              /\ e.op = "pop" => Since(i)' = Since(i) \cup {Len(log) + 1}
         /\ \A j \in 0 .. Len(log) : Waiting(j)' = Waiting(j)
<1>1. /\ Len(log') = Len(log) + 1 /\ Len(log) \in Nat
      /\ \A i \in 1 .. Len(log) : log'[i] = log[i]
      /\ log'[Len(log) + 1] = e
      /\ Pushed' = Pushed \/ Pushed' = Pushed \cup {Len(log) + 1}
      /\ Pushed \subseteq 1 .. Len(log)
  <2>1. e.op \in {"push", "pop"}
    BY DEF Entries
  <2> QED BY <2>1, LogGrows, LogFacts DEF NumberInv
<1>2. \A i \in 1 .. Len(log) + 1 : \A j \in 0 .. Len(log) : PopsIn(i, j)' = PopsIn(i, j)
  <2> SUFFICES ASSUME NEW i \in 1 .. Len(log) + 1, NEW j \in 0 .. Len(log)
               PROVE  PopsIn(i, j)' = PopsIn(i, j)
    OBVIOUS
  <2>1. \A k \in i .. j : log'[k] = log[k]
    BY <1>1
  <2> QED BY <2>1 DEF PopsIn
<1>3. ASSUME NEW i \in 1 .. Len(log) + 1
      PROVE  /\ e.op = "push" => Since(i)' = Since(i)
             /\ e.op = "pop" => Since(i)' = Since(i) \cup {Len(log) + 1}
  <2>1. i .. Len(log) + 1 = i .. Len(log) \cup {Len(log) + 1}
    BY <1>1
  <2>2. \A k \in i .. Len(log) : log'[k] = log[k]
    BY <1>1
  <2>3. Since(i)' = {k \in i .. Len(log) + 1 : log'[k].op = "pop"}
    BY <1>1 DEF PopsIn, Since
  <2>4. Since(i) = {k \in i .. Len(log) : log'[k].op = "pop"}
    BY <2>2 DEF PopsIn, Since
  <2> QED BY <1>1, <2>1, <2>3, <2>4
<1>4. ASSUME NEW j \in 0 .. Len(log) PROVE Waiting(j)' = Waiting(j)
  <2>1. PopsIn(1, j)' = PopsIn(1, j)
    BY <1>1, <1>2
  <2>2. Pushed' \cap 1 .. j = Pushed \cap 1 .. j
    BY <1>1
  <2>3. \A k \in 1 .. j : log'[k] = log[k]
    BY <1>1
  <2>4. PopsIn(1, j) \subseteq 1 .. j
    BY DEF PopsIn
  <2> QED BY <2>1, <2>2, <2>3, <2>4 DEF Waiting
<1> QED BY <1>2, <1>3, <1>4

\* The next number is new.
LEMMA NumberPush ==
  ASSUME NumberInv, NEW p \in Priorities,
         Logged([op |-> "push", task |-> NextTask, priority |-> p])
  PROVE  /\ NumberInv'
         /\ NextTask' = NextTask + 1 /\ NextTask \notin Tasks
         /\ Tasks' = Tasks \cup {NextTask}
         /\ Len(log) + 1 \in Pushed'
<1> DEFINE e == [op |-> "push", task |-> NextTask, priority |-> p]
<1>1. NextTask \in Nat /\ Len(log) \in Nat /\ Pushed \subseteq 1 .. Len(log)
      /\ IsFiniteSet(Pushed) /\ NextTask = Cardinality(Pushed) + 1 /\ Cardinality(Pushed) \in Nat
  BY LogFacts DEF NumberInv, NextTask
<1>2. e \in Entries /\ e.op = "push" /\ e.task = NextTask
  BY <1>1 DEF Entries
<1>3. Logged(e)
  OBVIOUS
<1> HIDE DEF e
<1>4. /\ log' \in Seq(Entries) /\ Len(log') = Len(log) + 1
      /\ \A i \in 1 .. Len(log) : log'[i] = log[i]
      /\ log'[Len(log) + 1] = e
      /\ Pushed' = Pushed \cup {Len(log) + 1}
  BY <1>2, <1>3, LogGrows
<1>5. Cardinality(Pushed') = Cardinality(Pushed) + 1
  <2>1. Len(log) + 1 \notin Pushed
    BY <1>1
  <2> QED BY <1>1, <1>4, <2>1, FS_AddElement
<1>6. NextTask' = NextTask + 1
  BY <1>1, <1>5 DEF NextTask
<1>7. \A i \in Pushed : log'[i] = log[i] /\ log[i].task \in 1 .. NextTask - 1
  BY <1>1, <1>4 DEF NumberInv
<1>8. \A i \in Pushed' : log'[i].task \in 1 .. NextTask' - 1
  <2> SUFFICES ASSUME NEW i \in Pushed' PROVE log'[i].task \in 1 .. NextTask' - 1
    OBVIOUS
  <2>1. CASE i \in Pushed
    <3>1. log'[i].task \in 1 .. NextTask - 1
      BY <1>7, <2>1
    <3> QED BY <1>1, <1>6, <3>1
  <2>2. CASE i = Len(log) + 1
    BY <1>1, <1>2, <1>4, <1>6, <2>2
  <2> QED BY <1>4, <2>1, <2>2
<1>9. \A i, j \in Pushed' : i < j => log'[i].task < log'[j].task
  <2> SUFFICES ASSUME NEW i \in Pushed', NEW j \in Pushed', i < j
               PROVE  log'[i].task < log'[j].task
    OBVIOUS
  <2>1. i \in Pushed
    BY <1>1, <1>4
  <2>2. CASE j \in Pushed
    BY <1>7, <2>1, <2>2 DEF NumberInv
  <2>3. CASE j = Len(log) + 1
    BY <1>1, <1>2, <1>4, <1>7, <2>1, <2>3
  <2> QED BY <1>4, <2>2, <2>3
<1>10. NumberInv'
  BY <1>4, <1>8, <1>9 DEF NumberInv
<1>11. Tasks' = Tasks \cup {NextTask}
  BY <1>2, <1>4, <1>7 DEF Tasks
<1>12. NextTask \notin Tasks
  <2>1. \A i \in Pushed : log[i].task \in 1 .. NextTask - 1
    BY <1>7
  <2>2. \A i \in Pushed : log[i].task # NextTask
    BY <1>1, <2>1
  <2> QED BY <2>2 DEF Tasks
<1> QED BY <1>4, <1>6, <1>10, <1>11, <1>12

LEMMA NumberPop ==
  ASSUME NumberInv, NEW t \in Nat, Logged([op |-> "pop", task |-> t])
  PROVE  NumberInv' /\ NextTask' = NextTask /\ Tasks' = Tasks
<1> DEFINE e == [op |-> "pop", task |-> t]
<1>1. e \in Entries /\ e.op = "pop" /\ Logged(e)
  BY DEF Entries
<1> HIDE DEF e
<1>2. /\ log' \in Seq(Entries) /\ \A i \in 1 .. Len(log) : log'[i] = log[i]
      /\ Pushed' = Pushed /\ Pushed \subseteq 1 .. Len(log)
  BY <1>1, LogGrows, LogFacts DEF NumberInv
<1>3. NextTask' = NextTask
  BY <1>2 DEF NextTask
<1>4. \A i \in Pushed : log'[i] = log[i]
  BY <1>2
<1> QED BY <1>2, <1>3, <1>4 DEF NumberInv, Tasks

\* The places of tasks and their order stay as they are.
LEMMA OrderStays ==
  ASSUME NumberInv, NumberInv', NEW e \in Entries, Logged(e), scheduler' = scheduler
  PROVE  /\ \A t \in Tasks : t \in Tasks' /\ PushAt(t)' = PushAt(t)
         /\ \A x, y \in Tasks : /\ Undisturbed(x, y)' = Undisturbed(x, y)
                                /\ Between(x, y)' = Between(x, y)
                                /\ Before(x, y)' = Before(x, y)
         /\ \A t \in Tasks : log'[PushAt(t)] = log[PushAt(t)]
<1>1. /\ \A i \in 1 .. Len(log) : log'[i] = log[i]
      /\ Pushed \subseteq Pushed' /\ Pushed \subseteq 1 .. Len(log)
  <2>1. e.op \in {"push", "pop"}
    BY DEF Entries
  <2> QED BY <2>1, LogGrows, LogFacts DEF NumberInv
<1>2. \A k \in Pushed' : k \in Nat
  BY LogFacts, LogGrows DEF Pushed
<1>3. ASSUME NEW t \in Tasks
      PROVE  t \in Tasks' /\ PushAt(t)' = PushAt(t) /\ log'[PushAt(t)] = log[PushAt(t)]
  <2>1. PICK i \in Pushed : log[i].task = t
    BY DEF Tasks
  <2>2. i \in Pushed' /\ log'[i] = log[i]
    BY <1>1
  <2>3. PushAt(t) = i
    BY <2>1, PushAtFacts
  <2>4. \A j \in Pushed' : log'[j].task = t => j = i
    <3> SUFFICES ASSUME NEW j \in Pushed', log'[j].task = t PROVE j = i
      OBVIOUS
    <3>1. \A k \in Pushed' : k \in Nat
      BY <1>2
    <3>2. t \in Nat
      BY TaskFacts
    <3>3. ~(i < j) /\ ~(j < i)
      BY <2>1, <2>2, <3>2 DEF NumberInv
    <3> QED BY <2>2, <3>1, <3>3
  <2>5. PushAt(t)' = i
    BY <2>1, <2>2, <2>4 DEF PushAt
  <2> QED BY <2>1, <2>2, <2>3, <2>5 DEF Tasks
<1>4. ASSUME NEW x \in Tasks, NEW y \in Tasks
      PROVE  Undisturbed(x, y)' = Undisturbed(x, y) /\ Between(x, y)' = Between(x, y)
  <2>1. PushAt(x) \in 1 .. Len(log) /\ PushAt(y) \in 1 .. Len(log)
    BY TaskFacts
  <2>2. PICK i \in 1 .. Len(log), j \in 1 .. Len(log) : i = PushAt(x) /\ j = PushAt(y)
    BY <2>1
  <2>3. PushAt(x)' = i /\ PushAt(y)' = j
    BY <1>3, <2>2
  <2>4. PopsIn(i, j)' = PopsIn(i, j)
    BY PopsGrow
  <2>5. Between(x, y)' = Between(x, y)
    BY <2>2, <2>3, <2>4 DEF Between, PopsIn
  <2> QED BY <2>2, <2>3, <2>5 DEF Undisturbed
<1>5. ASSUME NEW x \in Tasks, NEW y \in Tasks
      PROVE  Before(x, y)' = Before(x, y)
  <2>1. /\ PushAt(x)' = PushAt(x) /\ PushAt(y)' = PushAt(y)
        /\ log'[PushAt(x)] = log[PushAt(x)] /\ log'[PushAt(y)] = log[PushAt(y)]
    BY <1>3
  <2>2. Before(x, y) =
          CASE scheduler = "fifo" -> x < y
            [] scheduler = "priority" ->
                 \/ log[PushAt(x)].priority > log[PushAt(y)].priority
                 \/ log[PushAt(x)].priority = log[PushAt(y)].priority /\ Kept(x, y)
            [] OTHER -> Undisturbed(x, y) /\ (y - x) % NumWorkers = 0
    BY DEF Before, Undisturbed, Kept
  <2>3. Before(x, y)' =
          CASE scheduler = "fifo" -> x < y
            [] scheduler = "priority" ->
                 \/ log'[PushAt(x)'].priority > log'[PushAt(y)'].priority
                 \/ log'[PushAt(x)'].priority = log'[PushAt(y)'].priority /\ Kept(x, y)'
            [] OTHER -> Undisturbed(x, y)' /\ (y - x) % NumWorkers = 0
    BY DEF Before, Undisturbed, Kept
  <2>4. Kept(x, y)' = Kept(x, y)
    BY <1>4 DEF Kept
  <2> HIDE DEF Undisturbed, Kept
  <2> QED BY <2>1, <2>2, <2>3, <2>4, <1>4
<1> QED BY <1>3, <1>4, <1>5

\* The pops since a push can be counted.
LEMMA SinceFinite ==
  ASSUME NumberInv, NEW t \in Tasks
  PROVE  /\ IsFiniteSet(Since(PushAt(t))) /\ Cardinality(Since(PushAt(t))) \in Nat
         /\ \A u \in Tasks : Cardinality(Between(t, u)) \in Nat
<1>1. /\ Len(log) \in Nat /\ PushAt(t) \in 1 .. Len(log)
      /\ \A u \in Tasks : PushAt(u) \in 1 .. Len(log)
  BY LogFacts, TaskFacts DEF NumberInv
<1>2. ASSUME NEW j \in 0 .. Len(log)
      PROVE  IsFiniteSet(PopsIn(PushAt(t), j)) /\ Cardinality(PopsIn(PushAt(t), j)) \in Nat
  <2>1. IsFiniteSet(PushAt(t) .. j)
    BY <1>1, FS_Interval
  <2>2. PopsIn(PushAt(t), j) \subseteq PushAt(t) .. j
    BY DEF PopsIn
  <2>3. IsFiniteSet(PopsIn(PushAt(t), j))
    BY <2>1, <2>2, FS_Subset
  <2> QED BY <2>3, FS_CardinalityType
<1>3. Len(log) \in 0 .. Len(log) /\ \A u \in Tasks : PushAt(u) \in 0 .. Len(log)
  BY <1>1
<1> QED BY <1>2, <1>3 DEF Since, Between

\* What was due stays so.
LEMMA DueStays ==
  ASSUME NumberInv, NumberInv', NEW e \in Entries, Logged(e), scheduler' = scheduler,
         NEW t, NEW i \in 0 .. Len(log), Due(t, i)
  PROVE  Due(t, i)'
<1>1. Waiting(i)' = Waiting(i) /\ Waiting(i) \subseteq Tasks
  BY PopsGrow, WaitingFacts
<1>2. \A x, y \in Tasks : Before(x, y)' = Before(x, y)
  BY OrderStays
<1>3. t \in Waiting(i) /\ \A x \in Waiting(i) : ~Before(x, t)
  BY DEF Due
<1>4. t \in Tasks
  BY <1>1, <1>3
<1>5. \A x \in Waiting(i) : ~Before(x, t)'
  BY <1>1, <1>2, <1>3, <1>4
<1> QED BY <1>1, <1>3, <1>5 DEF Due

-----------------------------------------------------------------------------
(* What an operation does to the tasks that are left.                      *)

LEMMA LeftFacts ==
  ASSUME NumberInv
  PROVE  Left \subseteq Tasks /\ Left = Tasks \ {log[j].task : j \in PopsIn(1, Len(log))}
<1>1. Len(log) \in 0 .. Len(log) /\ Pushed \subseteq 1 .. Len(log)
  BY LogFacts DEF NumberInv
<1>2. Left \subseteq Tasks
  BY <1>1, WaitingFacts DEF Left
<1>3. Pushed \cap 1 .. Len(log) = Pushed
  BY <1>1
<1> QED BY <1>2, <1>3 DEF Left, Waiting, Tasks

\* A push leaves the past alone and puts a new task behind all others.
LEMMA AfterPush ==
  ASSUME NumberInv, PastInv, scheduler' = scheduler, NEW p \in Priorities, NEW n, n = NextTask,
         log' = Append(log, [op |-> "push", task |-> n, priority |-> p])
  PROVE  /\ NumberInv' /\ PastInv'
         /\ n \in Nat /\ NextTask' = n + 1 /\ n \notin Tasks
         /\ Left' = Left \cup {n}
         /\ PushAt(n)' = Len(log) + 1 /\ log'[Len(log) + 1].priority = p
         /\ Since(PushAt(n))' = {}
         /\ \A x \in Tasks :
              /\ x \in Nat /\ x < n
              /\ PushAt(x)' = PushAt(x) /\ log'[PushAt(x)] = log[PushAt(x)]
              /\ Since(PushAt(x))' = Since(PushAt(x))
              /\ Undisturbed(x, n)' => Since(PushAt(x)) = {}
              /\ Between(x, n)' = Since(PushAt(x))
              /\ ~Undisturbed(n, x)'
         /\ \A x, y \in Tasks : /\ Undisturbed(x, y)' = Undisturbed(x, y)
                                /\ Between(x, y)' = Between(x, y)
         /\ ~Undisturbed(n, n)'
<1> DEFINE e == [op |-> "push", task |-> n, priority |-> p]
<1>1. n \in Nat /\ Len(log) \in Nat /\ Pushed \subseteq 1 .. Len(log) /\ DOMAIN log = 1 .. Len(log)
  BY LogFacts DEF NumberInv
<1>2. e \in Entries /\ e.op = "push" /\ e.task = n /\ e.priority = p /\ Logged(e)
  BY <1>1 DEF Entries, Logged
<1>3. /\ NumberInv' /\ NextTask' = n + 1 /\ n \notin Tasks /\ Tasks' = Tasks \cup {n}
      /\ Len(log) + 1 \in Pushed'
  BY NumberPush DEF Logged
<1> HIDE DEF e
<1>4. /\ Len(log') = Len(log) + 1 /\ \A i \in 1 .. Len(log) : log'[i] = log[i]
      /\ log'[Len(log) + 1] = e
  BY <1>2, LogGrows
<1>5. /\ \A i \in 1 .. Len(log) + 1 : Since(i)' = Since(i)
      /\ \A j \in 0 .. Len(log) : Waiting(j)' = Waiting(j)
      /\ \A i \in 1 .. Len(log) + 1 : \A j \in 0 .. Len(log) : PopsIn(i, j)' = PopsIn(i, j)
  BY <1>2, PopsGrow
<1>6. /\ \A x \in Tasks : PushAt(x)' = PushAt(x) /\ log'[PushAt(x)] = log[PushAt(x)]
      /\ \A x, y \in Tasks : /\ Undisturbed(x, y)' = Undisturbed(x, y)
                             /\ Between(x, y)' = Between(x, y) /\ Before(x, y)' = Before(x, y)
  BY <1>2, <1>3, OrderStays
<1>7. PushAt(n)' = Len(log) + 1
  <2>1. \A j \in Pushed' : log'[j].task = n => j = Len(log) + 1
    <3>1. Pushed' = Pushed \cup {Len(log) + 1}
      BY <1>2, LogGrows
    <3>2. \A j \in Pushed : log'[j] = log[j] /\ log[j].task # n
      BY <1>1, <1>3, <1>4 DEF Tasks
    <3> QED BY <3>1, <3>2
  <2> QED BY <1>2, <1>3, <1>4, <2>1 DEF PushAt
<1>8. Since(Len(log) + 1) = {}
  BY <1>1 DEF Since, PopsIn
<1>9. Since(PushAt(n))' = {}
  <2>1. PICK k \in 1 .. Len(log) + 1 : k = Len(log) + 1
    BY <1>1
  <2>2. PushAt(n)' = k /\ Since(k) = {} /\ Since(k)' = Since(k)
    BY <1>5, <1>7, <1>8, <2>1
  <2> QED BY <2>2 DEF Since, PopsIn
<1>10. \A x \in Tasks : x \in Nat /\ x < n /\ PushAt(x) \in 1 .. Len(log)
  BY <1>1, TaskFacts
<1>11. ASSUME NEW x \in Tasks
       PROVE  /\ Since(PushAt(x))' = Since(PushAt(x))
              /\ Undisturbed(x, n)' => Since(PushAt(x)) = {}
              /\ Between(x, n)' = Since(PushAt(x))
              /\ ~Undisturbed(n, x)'
  <2>1. PICK i \in 1 .. Len(log) : i = PushAt(x)
    BY <1>10
  <2>2. PushAt(x)' = i
    BY <1>6, <2>1
  <2>3. Since(PushAt(x))' = Since(i)'
    BY <2>2 DEF Since, PopsIn
  <2>4. Since(i)' = Since(i)
    BY <1>5
  <2>7. Between(x, n)' = Since(i)'
    BY <1>4, <1>7, <2>2 DEF Between, Since, PopsIn
  <2>5. Undisturbed(x, n)' => Since(i)' = {}
    BY <2>7 DEF Undisturbed
  <2>6. ~Undisturbed(n, x)'
    BY <1>1, <1>7, <2>2 DEF Undisturbed
  <2> QED BY <2>1, <2>3, <2>4, <2>5, <2>6, <2>7
<1>12. ~Undisturbed(n, n)'
  BY <1>1, <1>7 DEF Undisturbed
<1>13. Left' = Left \cup {n}
  <2>1. Left' = Tasks' \ {log'[j].task : j \in Since(1)'}
    <3>1. Pushed' \cap 1 .. Len(log') = Pushed'
      <4>1. Pushed' = Pushed \cup {Len(log) + 1}
        BY <1>2, LogGrows
      <4>2. \A i \in Pushed' : i \in 1 .. Len(log) + 1
        BY <1>1, <4>1
      <4>3. Pushed' \subseteq 1 .. Len(log')
        BY <1>4, <4>2
      <4> QED BY <4>3
    <3> QED BY <3>1 DEF Left, Waiting, Tasks, Since
  <2>2. Since(1)' = Since(1) /\ Since(1) \subseteq 1 .. Len(log)
    BY <1>1, <1>5 DEF Since, PopsIn
  <2>3. Left = Tasks \ {log[j].task : j \in Since(1)}
    BY LeftFacts DEF Since
  <2>4. \A j \in Since(1) : log'[j] = log[j] /\ log[j].task \in Tasks
    <3> SUFFICES ASSUME NEW j \in Since(1) PROVE log'[j] = log[j] /\ log[j].task \in Tasks
      OBVIOUS
    <3> QED BY <1>4, <2>2 DEF PastInv
  <2> QED BY <1>3, <2>1, <2>2, <2>3, <2>4
<1>14. PastInv'
  <2>1. Since(1)' = Since(1) /\ Since(1) \subseteq 1 .. Len(log)
    BY <1>1, <1>5 DEF Since, PopsIn
  <2>2. ASSUME NEW i \in Since(1) PROVE \E t \in Tasks' : log'[i].task = t /\ Due(t, i - 1)'
    <3>1. i - 1 \in 0 .. Len(log) /\ log'[i] = log[i]
      BY <1>1, <1>4, <2>1
    <3>2. PICK t \in Tasks : log[i].task = t /\ Due(t, i - 1)
      BY DEF PastInv
    <3>3. Due(t, i - 1)'
      BY <1>2, <1>3, <3>1, <3>2, DueStays
    <3> QED BY <1>3, <3>1, <3>2, <3>3
  <2> QED BY <2>1, <2>2 DEF PastInv
<1> QED BY <1>1, <1>2, <1>3, <1>4, <1>6, <1>7, <1>9, <1>10, <1>11, <1>12, <1>13, <1>14

\* A pop of a task that nothing has to precede takes it from those left.
LEMMA AfterPop ==
  ASSUME NumberInv, PastInv, scheduler' = scheduler, NEW t \in Left,
         \A x \in Left : ~Before(x, t), log' = Append(log, [op |-> "pop", task |-> t])
  PROVE  /\ NumberInv' /\ PastInv' /\ NextTask' = NextTask
         /\ Left' = Left \ {t}
         /\ \A x \in Tasks :
              /\ PushAt(x)' = PushAt(x) /\ log'[PushAt(x)] = log[PushAt(x)]
              /\ Since(PushAt(x))' # {}
              /\ Cardinality(Since(PushAt(x)))' = Cardinality(Since(PushAt(x))) + 1
         /\ \A x, y \in Tasks : /\ Undisturbed(x, y)' = Undisturbed(x, y)
                                /\ Between(x, y)' = Between(x, y)
<1> DEFINE e == [op |-> "pop", task |-> t]
<1>1. Len(log) \in Nat /\ Pushed \subseteq 1 .. Len(log)
  BY LogFacts DEF NumberInv
<1>2. t \in Nat /\ t \in Tasks /\ Left \subseteq Tasks
  BY LeftFacts, TaskFacts
<1>3. e \in Entries /\ e.op = "pop" /\ e.task = t /\ Logged(e)
  BY <1>2 DEF Entries, Logged
<1>4. NumberInv' /\ NextTask' = NextTask /\ Tasks' = Tasks
  BY <1>2, NumberPop DEF Logged
<1> HIDE DEF e
<1>5. /\ Len(log') = Len(log) + 1 /\ \A i \in 1 .. Len(log) : log'[i] = log[i]
      /\ log'[Len(log) + 1] = e /\ Pushed' = Pushed
  BY <1>3, LogGrows
<1>6. /\ \A i \in 1 .. Len(log) + 1 : Since(i)' = Since(i) \cup {Len(log) + 1}
      /\ \A j \in 0 .. Len(log) : Waiting(j)' = Waiting(j)
  BY <1>3, PopsGrow
<1>7. /\ \A x \in Tasks : PushAt(x)' = PushAt(x) /\ log'[PushAt(x)] = log[PushAt(x)]
      /\ \A x, y \in Tasks : /\ Undisturbed(x, y)' = Undisturbed(x, y)
                             /\ Between(x, y)' = Between(x, y) /\ Before(x, y)' = Before(x, y)
  BY <1>3, <1>4, OrderStays
<1>8. ASSUME NEW x \in Tasks
      PROVE  /\ Since(PushAt(x))' # {}
             /\ Cardinality(Since(PushAt(x)))' = Cardinality(Since(PushAt(x))) + 1
  <2>1. PICK i \in 1 .. Len(log) + 1 : i = PushAt(x)
    BY <1>1, TaskFacts
  <2>2. PushAt(x)' = i /\ Since(i)' = Since(i) \cup {Len(log) + 1}
    BY <1>6, <1>7, <2>1
  <2>3. Since(PushAt(x))' = Since(PushAt(x)) \cup {Len(log) + 1}
    BY <2>1, <2>2 DEF Since, PopsIn
  <2>4. Len(log) + 1 \notin Since(PushAt(x)) /\ IsFiniteSet(Since(PushAt(x)))
    <3>1. Len(log) + 1 \notin Since(PushAt(x))
      BY <1>1 DEF Since, PopsIn
    <3> QED BY <3>1, SinceFinite
  <2>5. Cardinality(Since(PushAt(x)) \cup {Len(log) + 1}) = Cardinality(Since(PushAt(x))) + 1
    BY <2>4, FS_AddElement
  <2> QED BY <2>3, <2>5
<1>9. Since(1)' = Since(1) \cup {Len(log) + 1} /\ Since(1) \subseteq 1 .. Len(log)
  BY <1>1, <1>6 DEF Since, PopsIn
<1>10. Left' = Left \ {t}
  <2>1. Left' = Tasks' \ {log'[j].task : j \in Since(1)'}
    <3>1. Pushed' \subseteq 1 .. Len(log')
      BY <1>1, <1>5
    <3>2. Pushed' \cap 1 .. Len(log') = Pushed'
      BY <3>1
    <3> QED BY <3>2 DEF Left, Waiting, Tasks, Since
  <2>2. Left = Tasks \ {log[j].task : j \in Since(1)}
    BY LeftFacts DEF Since
  <2>3. \A j \in Since(1) : log'[j] = log[j]
    BY <1>5, <1>9
  <2> QED BY <1>3, <1>4, <1>5, <1>9, <2>1, <2>2, <2>3
<1>11. PastInv'
  <2>1. ASSUME NEW i \in Since(1) PROVE \E x \in Tasks' : log'[i].task = x /\ Due(x, i - 1)'
    <3>1. i - 1 \in 0 .. Len(log) /\ log'[i] = log[i]
      BY <1>1, <1>5, <1>9
    <3>2. PICK x \in Tasks : log[i].task = x /\ Due(x, i - 1)
      BY DEF PastInv
    <3>3. Due(x, i - 1)'
      BY <1>3, <1>4, <3>1, <3>2, DueStays
    <3> QED BY <1>4, <3>1, <3>2, <3>3
  <2>2. PICK l \in 0 .. Len(log) : l = Len(log)
    BY <1>1
  <2>3. Due(t, l)
    BY <2>2 DEF Due, Left
  <2>4. Due(t, l)'
    BY <1>3, <1>4, <2>3, DueStays
  <2>5. \E x \in Tasks' : log'[l + 1].task = x /\ Due(x, (l + 1) - 1)'
    <3>1. (l + 1) - 1 = l
      OBVIOUS
    <3>2. log'[l + 1].task = t
      BY <1>3, <1>5, <2>2
    <3>3. Due(t, (l + 1) - 1)'
      BY <2>4, <3>1
    <3> QED BY <1>2, <1>4, <3>2, <3>3
  <2>6. Since(1)' = Since(1) \cup {l + 1}
    BY <1>9, <2>2
  <2> QED BY <2>1, <2>5, <2>6 DEF PastInv
<1> QED BY <1>4, <1>7, <1>8, <1>10, <1>11

-----------------------------------------------------------------------------
(* Queues of increasing numbers.                                           *)

\* The head of an increasing queue is its least element, and comes but once.
LEMMA HeadLeast ==
  ASSUME NEW q \in Seq(Nat), Increasing(q), q # <<>>
  PROVE  /\ Head(q) \in Nat /\ Head(q) \in ToSet(q)
         /\ \A x \in ToSet(q) : ~(x < Head(q))
         /\ Tail(q) \in Seq(Nat) /\ Increasing(Tail(q))
         /\ ToSet(Tail(q)) = ToSet(q) \ {Head(q)}
<1>1. /\ Len(q) \in Nat \ {0} /\ DOMAIN q = 1 .. Len(q) /\ Head(q) = q[1]
      /\ Tail(q) \in Seq(Nat) /\ Len(Tail(q)) = Len(q) - 1
      /\ \A i \in 1 .. Len(Tail(q)) : Tail(q)[i] = q[i + 1]
  BY EmptySeq, LenProperties, HeadTailProperties
<1>2. \A i \in 1 .. Len(q) : q[i] \in Nat
  BY <1>1, ElementOfSeq
<1>3. IsInjective(q)
  <2> SUFFICES ASSUME NEW i \in 1 .. Len(q), NEW j \in 1 .. Len(q), q[i] = q[j] PROVE i = j
    BY <1>1 DEF IsInjective
  <2>1. q[i] \in Nat /\ i \in DOMAIN q /\ j \in DOMAIN q
    BY <1>1, <1>2
  <2>2. ~(i < j) /\ ~(j < i)
    BY <2>1 DEF Increasing
  <2> QED BY <1>1, <2>2
<1>4. \A x \in ToSet(q) : ~(x < Head(q))
  <2> SUFFICES ASSUME NEW i \in 1 .. Len(q) PROVE ~(q[i] < q[1])
    BY <1>1 DEF ToSet
  <2>1. i = 1 \/ 1 < i
    BY <1>1
  <2>2. 1 < i => q[1] < q[i]
    BY <1>1 DEF Increasing
  <2>3. q[1] \in Nat /\ q[i] \in Nat
    BY <1>1, <1>2
  <2> QED BY <2>1, <2>2, <2>3
<1>5. Increasing(Tail(q))
  <2>1. DOMAIN Tail(q) = 1 .. Len(q) - 1
    BY <1>1, LenProperties
  <2> SUFFICES ASSUME NEW i \in 1 .. Len(q) - 1, NEW j \in 1 .. Len(q) - 1, i < j
               PROVE  Tail(q)[i] < Tail(q)[j]
    BY <2>1 DEF Increasing
  <2>2. Tail(q)[i] = q[i + 1] /\ Tail(q)[j] = q[j + 1]
    BY <1>1
  <2>3. i + 1 \in DOMAIN q /\ j + 1 \in DOMAIN q /\ i + 1 < j + 1
    BY <1>1
  <2> QED BY <2>2, <2>3 DEF Increasing
<1> QED BY <1>1, <1>2, <1>3, <1>4, <1>5, TailFacts

\* A number above all others goes to the end.
LEMMA AppendGreater ==
  ASSUME NEW q \in Seq(Nat), Increasing(q), NEW n \in Nat, \A x \in ToSet(q) : x < n
  PROVE  /\ Append(q, n) \in Seq(Nat) /\ Increasing(Append(q, n))
         /\ ToSet(Append(q, n)) = ToSet(q) \cup {n}
<1>1. /\ Len(q) \in Nat /\ DOMAIN q = 1 .. Len(q) /\ DOMAIN Append(q, n) = 1 .. Len(q) + 1
      /\ \A i \in 1 .. Len(q) : Append(q, n)[i] = q[i]
      /\ Append(q, n)[Len(q) + 1] = n
  BY AppendProperties, LenProperties
<1>2. \A i \in 1 .. Len(q) : q[i] < n
  BY <1>1 DEF ToSet
<1>3. Increasing(Append(q, n))
  <2> SUFFICES ASSUME NEW i \in 1 .. Len(q) + 1, NEW j \in 1 .. Len(q) + 1, i < j
               PROVE  Append(q, n)[i] < Append(q, n)[j]
    BY <1>1 DEF Increasing
  <2>1. i \in 1 .. Len(q)
    BY <1>1
  <2>2. j \in 1 .. Len(q) \/ j = Len(q) + 1
    BY <1>1
  <2> QED BY <1>1, <1>2, <2>1, <2>2 DEF Increasing
<1> QED BY <1>3, AppendFacts

-----------------------------------------------------------------------------
(* The queue.                                                              *)

LEMMA FifoPush ==
  ASSUME OrderInv, NEW p \in Priorities, Push(p), scheduler = "fifo"
  PROVE  OrderInv'
<1>1. /\ queue' = Append(queue, NextTask) /\ scheduler' = scheduler
      /\ log' = Append(log, [op |-> "push", task |-> NextTask, priority |-> p])
  BY DEF Push
<1>2. PICK n : n = NextTask
  OBVIOUS
<1>3. /\ NumberInv' /\ PastInv' /\ n \in Nat /\ Left' = Left \cup {n}
      /\ \A x \in Tasks : x < n
  BY <1>1, <1>2, AfterPush DEF OrderInv
<1>4. queue \in Seq(Nat) /\ Increasing(queue) /\ ToSet(queue) = Left /\ Left \subseteq Tasks
  BY LeftFacts DEF OrderInv, FifoInv
<1>5. queue' \in Seq(Nat) /\ Increasing(queue') /\ ToSet(queue') = Left'
  BY <1>1, <1>2, <1>3, <1>4, AppendGreater
<1>6. FifoInv' /\ HeapInv' /\ RoundInv'
  BY <1>1, <1>5 DEF FifoInv, HeapInv, RoundInv, Increasing
<1> QED BY <1>1, <1>3, <1>6 DEF OrderInv

LEMMA FifoPop ==
  ASSUME OrderInv, PopFifo
  PROVE  OrderInv'
<1>1. /\ scheduler = "fifo" /\ queue # <<>> /\ queue' = Tail(queue) /\ scheduler' = scheduler
      /\ log' = Append(log, [op |-> "pop", task |-> Head(queue)])
  BY DEF PopFifo, Took
<1>2. queue \in Seq(Nat) /\ Increasing(queue) /\ ToSet(queue) = Left
  BY <1>1 DEF OrderInv, FifoInv
<1>3. PICK t : t = Head(queue)
  OBVIOUS
<1>4. /\ t \in Nat /\ t \in Left /\ \A x \in Left : ~(x < t)
      /\ Tail(queue) \in Seq(Nat) /\ Increasing(Tail(queue)) /\ ToSet(Tail(queue)) = Left \ {t}
  BY <1>1, <1>2, <1>3, HeadLeast
<1>5. \A x \in Left : ~Before(x, t)
  BY <1>1, <1>4 DEF Before
<1>6. NumberInv' /\ PastInv' /\ Left' = Left \ {t}
  BY <1>1, <1>3, <1>4, <1>5, AfterPop DEF OrderInv
<1>7. FifoInv' /\ HeapInv' /\ RoundInv'
  BY <1>1, <1>4, <1>6 DEF FifoInv, HeapInv, RoundInv, Increasing
<1> QED BY <1>1, <1>6, <1>7 DEF OrderInv

-----------------------------------------------------------------------------
(* The heap.                                                               *)

LEMMA HeapPush ==
  ASSUME OrderInv, NEW p \in Priorities, Push(p), scheduler = "priority"
  PROVE  OrderInv'
<1>1. PICK n : n = NextTask
  OBVIOUS
<1>2. PICK g : g = [task |-> n, priority |-> p, order |-> Cardinality(heap)]
  OBVIOUS
<1>3. /\ heap' = heap \cup {g} /\ scheduler' = scheduler
      /\ log' = Append(log, [op |-> "push", task |-> n, priority |-> p])
  BY <1>1, <1>2 DEF Push
<1>4. /\ NumberInv' /\ PastInv' /\ n \in Nat /\ n \notin Tasks /\ Left' = Left \cup {n}
      /\ NextTask' = n + 1 /\ PushAt(n)' = Len(log) + 1 /\ log'[Len(log) + 1].priority = p /\ Since(PushAt(n))' = {}
      /\ \A x \in Tasks :
           /\ PushAt(x)' = PushAt(x) /\ log'[PushAt(x)] = log[PushAt(x)]
           /\ x \in Nat /\ x < n
           /\ Since(PushAt(x))' = Since(PushAt(x))
           /\ Between(x, n)' = Since(PushAt(x))
      /\ \A x, y \in Tasks : Between(x, y)' = Between(x, y)
  BY <1>1, <1>3, AfterPush DEF OrderInv
<1>5. /\ IsFiniteSet(heap) /\ heap \subseteq [task : Nat, priority : Priorities, order : Nat]
      /\ {e.task : e \in heap} = Left /\ Left \subseteq Tasks
      /\ \A e, f \in heap : e.task = f.task => e = f
      /\ \A e \in heap :
           /\ e.priority = log[PushAt(e.task)].priority
           /\ e.order + (NextTask - e.task) = Cardinality(heap) + Cardinality(Since(PushAt(e.task)))
      /\ \A e, f \in heap : e.task < f.task =>
           f.order + Cardinality(Between(e.task, f.task)) = e.order + (f.task - e.task)
  BY LeftFacts DEF OrderInv, HeapInv
<1>6. \A e \in heap : e.task \in Tasks
  BY <1>5
<1>7. Cardinality(heap) \in Nat
  BY <1>5, FS_CardinalityType
<1>8. g.task = n /\ g.priority = p /\ g.order = Cardinality(heap)
      /\ g \in [task : Nat, priority : Priorities, order : Nat] /\ g \notin heap
  BY <1>2, <1>4, <1>6, <1>7
<1>9. IsFiniteSet(heap') /\ Cardinality(heap') = Cardinality(heap) + 1
  BY <1>3, <1>5, <1>8, FS_AddElement
<1>10. {e.task : e \in heap'} = Left'
  BY <1>3, <1>4, <1>5, <1>8
<1>11. \A e, f \in heap' : e.task = f.task => e = f
  BY <1>3, <1>4, <1>5, <1>6, <1>8
<1>12. ASSUME NEW e \in heap'
       PROVE  /\ e.priority = log'[PushAt(e.task)'].priority
              /\ e.order + (NextTask' - e.task) =
                   Cardinality(heap') + Cardinality(Since(PushAt(e.task)))'
  <2>1. PICK x : x = e.task
    OBVIOUS
  <2>2. CASE e \in heap
    <3>1. x \in Tasks /\ e.order \in Nat /\ x \in Nat
      BY <1>4, <1>5, <1>6, <2>1, <2>2
    <3>2. e.priority = log'[PushAt(x)'].priority
      BY <1>4, <1>5, <2>1, <2>2, <3>1
    <3>3. e.order + (n - x) = Cardinality(heap) + Cardinality(Since(PushAt(x)))
      BY <1>1, <1>5, <2>1, <2>2
    <3>4. Cardinality(Since(PushAt(x)))' = Cardinality(Since(PushAt(x)))
      BY <1>4, <3>1
    <3>5. Cardinality(Since(PushAt(x))) \in Nat
      BY <3>1, SinceFinite DEF OrderInv
    <3>6. e.order + (NextTask' - x) = Cardinality(heap') + Cardinality(Since(PushAt(x)))'
      BY <1>4, <1>7, <1>9, <3>1, <3>3, <3>4, <3>5
    <3> QED BY <2>1, <3>2, <3>6
  <2>3. CASE e = g
    <3>1. Cardinality(Since(PushAt(n)))' = 0
      <4>1. Since(PushAt(n))' = {}
        BY <1>4
      <4> QED BY <4>1, FS_EmptySet
    <3>2. e.priority = log'[PushAt(n)'].priority
      BY <1>4, <1>8, <2>3
    <3>3. e.order + (NextTask' - n) = Cardinality(heap') + 0
      BY <1>4, <1>7, <1>8, <1>9, <2>3
    <3>4. x = n
      BY <1>8, <2>1, <2>3
    <3> QED BY <2>1, <3>1, <3>2, <3>3, <3>4
  <2> QED BY <1>3, <2>2, <2>3
<1>13. ASSUME NEW e \in heap', NEW f \in heap', e.task < f.task
       PROVE  f.order + Cardinality(Between(e.task, f.task))' = e.order + (f.task - e.task)
  <2>0. PICK x, y : x = e.task /\ y = f.task
    OBVIOUS
  <2>1. CASE e \in heap /\ f \in heap
    <3>1. f.order + Cardinality(Between(x, y)) = e.order + (y - x)
      BY <1>5, <1>13, <2>0, <2>1
    <3>2. Between(x, y)' = Between(x, y)
      BY <1>4, <1>6, <2>0, <2>1
    <3> QED BY <2>0, <3>1, <3>2
  <2>2. CASE e \in heap /\ f = g
    <3>1. x \in Tasks /\ x \in Nat /\ e.order \in Nat /\ y = n /\ f.order = Cardinality(heap)
      BY <1>4, <1>5, <1>6, <1>8, <2>0, <2>2
    <3>2. e.order + (n - x) = Cardinality(heap) + Cardinality(Since(PushAt(x)))
      BY <1>1, <1>5, <2>0, <2>2
    <3>3. Between(x, n)' = Since(PushAt(x))
      BY <1>4, <3>1
    <3> QED BY <2>0, <3>1, <3>2, <3>3
  <2>3. CASE e = g
    <3>1. y \in Nat /\ ~(n < y)
      BY <1>3, <1>4, <1>6, <1>8, <2>0
    <3> QED BY <1>8, <1>13, <2>0, <2>3, <3>1
  <2> QED BY <1>3, <2>1, <2>2, <2>3
<1>14. HeapInv'
  BY <1>3, <1>5, <1>8, <1>9, <1>10, <1>11, <1>12, <1>13 DEF HeapInv
<1>15. FifoInv' /\ RoundInv'
  BY <1>3 DEF FifoInv, RoundInv
<1> QED BY <1>3, <1>4, <1>14, <1>15 DEF OrderInv

LEMMA HeapPop ==
  ASSUME OrderInv, PopPriority
  PROVE  OrderInv'
<1>1. PICK g \in heap :
        /\ ~ \E f \in heap : Ahead(f, g)
        /\ heap' = heap \ {g} /\ log' = Append(log, [op |-> "pop", task |-> g.task])
  BY DEF PopPriority, Took
<1>2. scheduler = "priority" /\ scheduler' = scheduler
  BY DEF PopPriority
<1>3. /\ IsFiniteSet(heap) /\ heap \subseteq [task : Nat, priority : Priorities, order : Nat]
      /\ {e.task : e \in heap} = Left /\ Left \subseteq Tasks
      /\ \A e, f \in heap : e.task = f.task => e = f
      /\ \A e \in heap :
           /\ e.priority = log[PushAt(e.task)].priority
           /\ e.order + (NextTask - e.task) = Cardinality(heap) + Cardinality(Since(PushAt(e.task)))
      /\ \A e, f \in heap : e.task < f.task =>
           f.order + Cardinality(Between(e.task, f.task)) = e.order + (f.task - e.task)
  BY <1>2, LeftFacts DEF OrderInv, HeapInv
<1>4. PICK t \in Left : t = g.task
  BY <1>3
<1>5. ASSUME NEW x \in Left PROVE ~Before(x, t)
  <2>1. PICK f \in heap : f.task = x
    BY <1>3
  <2>2. ~Ahead(f, g)
    BY <1>1
  <2>3. Kept(x, t) => f.order < g.order
    <3>1. x \in Tasks /\ t \in Tasks /\ x \in Nat /\ t \in Nat /\ f.order \in Nat /\ g.order \in Nat
      BY <1>3, <2>1, TaskFacts DEF OrderInv
    <3>2. Cardinality(Between(x, t)) \in Nat
      BY <3>1, SinceFinite DEF OrderInv
    <3>3. x < t => g.order + Cardinality(Between(x, t)) = f.order + (t - x)
      BY <1>3, <1>4, <2>1
    <3> QED BY <3>1, <3>2, <3>3 DEF Kept
  <2>4. f.priority = log[PushAt(x)].priority /\ g.priority = log[PushAt(t)].priority
    BY <1>3, <1>4, <2>1
  <2> QED BY <1>2, <2>2, <2>3, <2>4 DEF Before, Kept, Ahead
<1>6. /\ NumberInv' /\ PastInv' /\ NextTask' = NextTask /\ Left' = Left \ {t}
      /\ \A x \in Tasks :
           /\ PushAt(x)' = PushAt(x) /\ log'[PushAt(x)] = log[PushAt(x)]
           /\ Cardinality(Since(PushAt(x)))' = Cardinality(Since(PushAt(x))) + 1
      /\ \A x, y \in Tasks : Between(x, y)' = Between(x, y)
  BY <1>1, <1>2, <1>4, <1>5, AfterPop DEF OrderInv
<1>7. \A e \in heap : e.task \in Tasks
  BY <1>3
<1>8. IsFiniteSet(heap') /\ Cardinality(heap') = Cardinality(heap) - 1 /\ Cardinality(heap) \in Nat
  BY <1>1, <1>3, FS_RemoveElement, FS_CardinalityType
<1>9. {e.task : e \in heap'} = Left'
  BY <1>1, <1>3, <1>4, <1>6
<1>10. ASSUME NEW e \in heap'
       PROVE  /\ e.priority = log'[PushAt(e.task)'].priority
              /\ e.order + (NextTask' - e.task) =
                   Cardinality(heap') + Cardinality(Since(PushAt(e.task)))'
  <2>1. PICK x \in Tasks : x = e.task
    BY <1>1, <1>7
  <2>2. /\ e.priority = log[PushAt(x)].priority
        /\ e.order + (NextTask - x) = Cardinality(heap) + Cardinality(Since(PushAt(x)))
    BY <1>1, <1>3, <2>1
  <2>3. /\ log'[PushAt(x)'] = log[PushAt(x)]
        /\ Cardinality(Since(PushAt(x)))' = Cardinality(Since(PushAt(x))) + 1
    BY <1>6
  <2>4. Cardinality(Since(PushAt(x))) \in Nat /\ x \in Nat /\ e.order \in Nat /\ NextTask \in Nat
    BY <1>1, <1>3, SinceFinite, TaskFacts, LogFacts DEF OrderInv, NumberInv
  <2>5. e.order + (NextTask' - x) = Cardinality(heap') + Cardinality(Since(PushAt(x)))'
    BY <1>6, <1>8, <2>2, <2>3, <2>4
  <2> QED BY <2>1, <2>2, <2>3, <2>5
<1>11. ASSUME NEW e \in heap', NEW f \in heap', e.task < f.task
       PROVE  f.order + Cardinality(Between(e.task, f.task))' = e.order + (f.task - e.task)
  <2>1. PICK x \in Tasks, y \in Tasks : x = e.task /\ y = f.task
    BY <1>1, <1>7
  <2>2. Between(x, y)' = Between(x, y)
    BY <1>6
  <2> QED BY <1>1, <1>3, <1>11, <2>1, <2>2
<1>12. HeapInv'
  BY <1>1, <1>3, <1>8, <1>9, <1>10, <1>11 DEF HeapInv
<1>13. FifoInv' /\ RoundInv'
  BY <1>2 DEF FifoInv, RoundInv
<1> QED BY <1>2, <1>6, <1>12, <1>13 DEF OrderInv

-----------------------------------------------------------------------------
(* The queues in turn.                                                     *)

LEMMA RoundPush ==
  ASSUME OrderInv, NEW p \in Priorities, Push(p), scheduler = "round_robin"
  PROVE  OrderInv'
<1>1. PICK n : n = NextTask
  OBVIOUS
<1>2. /\ queues' = [queues EXCEPT ![current] = Append(@, n)] /\ scheduler' = scheduler
      /\ current' = (current + 1) % NumWorkers
      /\ log' = Append(log, [op |-> "push", task |-> n, priority |-> p])
  BY <1>1 DEF Push, Following
<1>3. /\ NumberInv' /\ PastInv' /\ n \in Nat /\ NextTask' = n + 1 /\ n \notin Tasks
      /\ Left' = Left \cup {n}
      /\ \A x \in Tasks :
           /\ x \in Nat /\ x < n
           /\ Since(PushAt(x))' = Since(PushAt(x))
           /\ Undisturbed(x, n)' => Since(PushAt(x)) = {}
           /\ ~Undisturbed(n, x)'
      /\ \A x, y \in Tasks : Undisturbed(x, y)' = Undisturbed(x, y)
      /\ ~Undisturbed(n, n)'
  BY <1>1, <1>2, AfterPush DEF OrderInv
<1>4. /\ current \in Workers
      /\ queues \in [Workers -> Seq(Nat)]
      /\ \A w \in Workers : Increasing(queues[w])
      /\ UNION {ToSet(queues[w]) : w \in Workers} = Left
      /\ \A v, w \in Workers : v # w => ToSet(queues[v]) \cap ToSet(queues[w]) = {}
      /\ \A w \in Workers : \A x \in ToSet(queues[w]) :
           Since(PushAt(x)) = {} => current = (w + (n - x)) % NumWorkers
      /\ \A v, w \in Workers : \A x \in ToSet(queues[v]) : \A y \in ToSet(queues[w]) :
           Undisturbed(x, y) /\ (y - x) % NumWorkers = 0 => v = w
  BY <1>1, <1>2 DEF OrderInv, RoundInv
<1>5. NumWorkers \in Nat \ {0} /\ Workers = 0 .. NumWorkers - 1
  BY SchedulersAssumption DEF Workers
<1>6. \A w \in Workers : ToSet(queues[w]) \subseteq Tasks
  BY <1>4, LeftFacts DEF OrderInv
<1>7. /\ queues' \in [Workers -> Seq(Nat)]
      /\ \A w \in Workers : Increasing(queues'[w])
      /\ ToSet(queues'[current]) = ToSet(queues[current]) \cup {n}
      /\ \A w \in Workers : w # current => queues'[w] = queues[w]
  <2>1. /\ Append(queues[current], n) \in Seq(Nat) /\ Increasing(Append(queues[current], n))
        /\ ToSet(Append(queues[current], n)) = ToSet(queues[current]) \cup {n}
    BY <1>3, <1>4, <1>6, AppendGreater
  <2>2. /\ queues' \in [Workers -> Seq(Nat)] /\ queues'[current] = Append(queues[current], n)
        /\ \A w \in Workers : w # current => queues'[w] = queues[w]
    BY <1>2, <1>4, <2>1
  <2>3. ASSUME NEW w \in Workers PROVE Increasing(queues'[w])
    <3>1. CASE w = current
      BY <2>1, <2>2, <3>1
    <3>2. CASE w # current
      BY <1>4, <2>2, <3>2
    <3> QED BY <3>1, <3>2
  <2> QED BY <2>1, <2>2, <2>3
<1>8. UNION {ToSet(queues'[w]) : w \in Workers} = Left'
  <2>1. \A w \in Workers : ToSet(queues'[w]) \subseteq Left'
    <3>1. \A w \in Workers : ToSet(queues[w]) \subseteq Left
      BY <1>4
    <3> QED BY <1>3, <1>7, <3>1
  <2>2. \A w \in Workers : ToSet(queues[w]) \subseteq ToSet(queues'[w])
    BY <1>7
  <2>3. n \in ToSet(queues'[current])
    BY <1>7
  <2> QED BY <1>3, <1>4, <2>1, <2>2, <2>3
<1>9. \A v, w \in Workers : v # w => ToSet(queues'[v]) \cap ToSet(queues'[w]) = {}
  <2> SUFFICES ASSUME NEW v \in Workers, NEW w \in Workers, v # w
               PROVE  ToSet(queues'[v]) \cap ToSet(queues'[w]) = {}
    OBVIOUS
  <2>1. ToSet(queues[v]) \cap ToSet(queues[w]) = {} /\ n \notin ToSet(queues[v]) /\ n \notin ToSet(queues[w])
    BY <1>3, <1>4, <1>6
  <2>2. CASE v = current
    BY <1>7, <2>1, <2>2
  <2>3. CASE v # current
    BY <1>7, <2>1, <2>3
  <2> QED BY <2>2, <2>3
<1>10. ASSUME NEW w \in Workers, NEW x \in ToSet(queues[w]), Since(PushAt(x)) = {}
       PROVE  current = (w + (n - x)) % NumWorkers /\ current' = (w + ((n + 1) - x)) % NumWorkers
  <2>1. current = (w + (n - x)) % NumWorkers
    BY <1>4, <1>10
  <2>2. PICK k \in Nat : k = w + (n - x) /\ k + 1 = w + ((n + 1) - x)
    <3>1. x \in Nat /\ x < n /\ w \in Nat
      BY <1>3, <1>5, <1>6
    <3> QED BY <1>3, <3>1
  <2>3. ((k % NumWorkers) + 1) % NumWorkers = (k + 1) % NumWorkers
    BY <1>5, NextTurn
  <2> QED BY <1>2, <2>1, <2>2, <2>3
<1>11. ASSUME NEW w \in Workers, NEW x \in ToSet(queues'[w]), Since(PushAt(x))' = {}
       PROVE  current' = (w + (NextTask' - x)) % NumWorkers
  <2>1. CASE x \in ToSet(queues[w])
    <3>1. Since(PushAt(x)) = {}
      BY <1>3, <1>6, <1>11, <2>1
    <3> QED BY <1>3, <1>10, <2>1, <3>1
  <2>2. CASE x \notin ToSet(queues[w])
    <3>1. w = current /\ x = n
      BY <1>7, <2>2
    <3>2. (n + 1) - n = 1
      BY <1>3
    <3> QED BY <1>2, <1>3, <3>1, <3>2
  <2> QED BY <2>1, <2>2
<1>12. ASSUME NEW v \in Workers, NEW w \in Workers, NEW x \in ToSet(queues'[v]), NEW y \in ToSet(queues'[w]),
              Undisturbed(x, y)', (y - x) % NumWorkers = 0
       PROVE  v = w
  <2>1. x \in ToSet(queues[v])
    <3>1. x \in ToSet(queues[v]) \/ x = n
      BY <1>7
    <3>2. y \in Tasks \/ y = n
      BY <1>6, <1>7
    <3> QED BY <1>3, <1>12, <3>1, <3>2
  <2>2. CASE y \in ToSet(queues[w])
    BY <1>3, <1>4, <1>6, <1>12, <2>1, <2>2
  <2>3. CASE y \notin ToSet(queues[w])
    <3>1. w = current /\ y = n
      BY <1>7, <2>3
    <3>2. Since(PushAt(x)) = {} /\ x \in Nat /\ x < n
      BY <1>3, <1>6, <1>12, <2>1, <3>1
    <3>3. current = (v + (n - x)) % NumWorkers
      BY <1>10, <2>1, <3>2
    <3>4. PICK d \in Nat : d = n - x
      BY <1>3, <3>2
    <3>5. (v + d) % NumWorkers = v
      BY <1>5, <1>12, <3>1, <3>4, WholeTurns
    <3> QED BY <3>1, <3>3, <3>4, <3>5
  <2> QED BY <2>2, <2>3
<1>13. current' \in Workers
  <2>1. current + 1 \in Nat
    BY <1>4, <1>5
  <2> QED BY <1>2, <1>5, <2>1, Remainder
<1>14. RoundInv'
  BY <1>2, <1>7, <1>8, <1>9, <1>11, <1>12, <1>13 DEF RoundInv, Workers, Increasing
<1>15. FifoInv' /\ HeapInv'
  BY <1>2 DEF FifoInv, HeapInv
<1> QED BY <1>2, <1>3, <1>14, <1>15 DEF OrderInv

LEMMA RoundPop ==
  ASSUME OrderInv, PopRoundRobin
  PROVE  OrderInv'
<1>1. scheduler = "round_robin" /\ scheduler' = scheduler
  BY DEF PopRoundRobin
<1>2. PICK k \in 0 .. NumWorkers - 1 :
        /\ queues[(current + k) % NumWorkers] # <<>>
        /\ queues' = [queues EXCEPT ![(current + k) % NumWorkers] = Tail(@)]
        /\ current' = (((current + k) % NumWorkers) + 1) % NumWorkers
        /\ log' = Append(log, [op |-> "pop", task |-> Head(queues[(current + k) % NumWorkers])])
  BY DEF PopRoundRobin, Took, Following
<1>3. /\ current \in Workers
      /\ queues \in [Workers -> Seq(Nat)]
      /\ \A w \in Workers : Increasing(queues[w])
      /\ UNION {ToSet(queues[w]) : w \in Workers} = Left
      /\ \A v, w \in Workers : v # w => ToSet(queues[v]) \cap ToSet(queues[w]) = {}
      /\ \A v, w \in Workers : \A x \in ToSet(queues[v]) : \A y \in ToSet(queues[w]) :
           Undisturbed(x, y) /\ (y - x) % NumWorkers = 0 => v = w
  BY <1>1 DEF OrderInv, RoundInv
<1>4. NumWorkers \in Nat \ {0} /\ Workers = 0 .. NumWorkers - 1
  BY SchedulersAssumption DEF Workers
<1>5. PICK h \in Workers : h = (current + k) % NumWorkers
  <2>1. current + k \in Nat
    BY <1>3, <1>4
  <2> QED BY <1>4, <2>1, Remainder
<1>6. PICK t : t = Head(queues[h])
  OBVIOUS
<1>7. /\ t \in Nat /\ t \in ToSet(queues[h]) /\ \A x \in ToSet(queues[h]) : ~(x < t)
      /\ Tail(queues[h]) \in Seq(Nat) /\ Increasing(Tail(queues[h]))
      /\ ToSet(Tail(queues[h])) = ToSet(queues[h]) \ {t}
  BY <1>2, <1>3, <1>5, <1>6, HeadLeast
<1>8. /\ queues' \in [Workers -> Seq(Nat)] /\ queues'[h] = Tail(queues[h])
      /\ \A w \in Workers : w # h => queues'[w] = queues[w]
  BY <1>2, <1>3, <1>5, <1>7
<1>9. t \in Left /\ Left \subseteq Tasks
  BY <1>3, <1>7, LeftFacts DEF OrderInv
<1>10. ASSUME NEW x \in Left PROVE ~Before(x, t)
  <2>1. SUFFICES ASSUME Undisturbed(x, t), (t - x) % NumWorkers = 0 PROVE FALSE
    BY <1>1 DEF Before, Undisturbed
  <2>2. PICK v \in Workers : x \in ToSet(queues[v])
    BY <1>3
  <2>3. v = h
    BY <1>3, <1>7, <2>1, <2>2
  <2>4. x < t
    BY <1>9, <2>1, EarlierFacts DEF Undisturbed, OrderInv
  <2> QED BY <1>7, <2>2, <2>3, <2>4
<1>11. /\ NumberInv' /\ PastInv' /\ Left' = Left \ {t}
       /\ \A x \in Tasks : Since(PushAt(x))' # {}
       /\ \A x, y \in Tasks : Undisturbed(x, y)' = Undisturbed(x, y)
  BY <1>1, <1>2, <1>5, <1>6, <1>9, <1>10, AfterPop DEF OrderInv
<1>12. \A w \in Workers : ToSet(queues'[w]) = ToSet(queues[w]) \ {t}
  <2>1. \A w \in Workers : w # h => t \notin ToSet(queues[w])
    BY <1>3, <1>7
  <2> QED BY <1>7, <1>8, <2>1
<1>13. \A w \in Workers : Increasing(queues'[w])
  <2> SUFFICES ASSUME NEW w \in Workers PROVE Increasing(queues'[w])
    OBVIOUS
  <2>1. CASE w = h
    BY <1>7, <1>8, <2>1
  <2>2. CASE w # h
    BY <1>3, <1>8, <2>2
  <2> QED BY <2>1, <2>2
<1>14. UNION {ToSet(queues'[w]) : w \in Workers} = Left'
  <2>1. ASSUME NEW w \in Workers, NEW x \in ToSet(queues'[w]) PROVE x \in Left'
    <3>1. x \in ToSet(queues[w]) /\ x # t
      BY <1>12
    <3>2. x \in Left
      BY <1>3, <3>1
    <3> QED BY <1>11, <3>1, <3>2
  <2>2. ASSUME NEW x \in Left' PROVE \E w \in Workers : x \in ToSet(queues'[w])
    <3>1. PICK w \in Workers : x \in ToSet(queues[w])
      BY <1>3, <1>11
    <3>2. x \in ToSet(queues'[w])
      BY <1>11, <1>12, <3>1
    <3> QED BY <3>2
  <2> QED BY <2>1, <2>2
<1>15. \A v, w \in Workers : v # w => ToSet(queues'[v]) \cap ToSet(queues'[w]) = {}
  BY <1>3, <1>12
<1>16. ASSUME NEW w \in Workers, NEW x \in ToSet(queues'[w]) PROVE x \in Tasks /\ Since(PushAt(x))' # {}
  BY <1>3, <1>9, <1>11, <1>12
<1>17. ASSUME NEW v \in Workers, NEW w \in Workers, NEW x \in ToSet(queues'[v]), NEW y \in ToSet(queues'[w]),
              Undisturbed(x, y)', (y - x) % NumWorkers = 0
       PROVE  v = w
  <2>1. Undisturbed(x, y)
    <3>1. x \in Tasks /\ y \in Tasks
      BY <1>16
    <3> QED BY <1>11, <1>17, <3>1
  <2> QED BY <1>3, <1>12, <1>17, <2>1
<1>18. current' \in Workers
  <2>1. h + 1 \in Nat /\ current' = (h + 1) % NumWorkers
    BY <1>2, <1>4, <1>5
  <2> QED BY <1>4, <2>1, Remainder
<1>19. RoundInv'
  BY <1>1, <1>8, <1>13, <1>14, <1>15, <1>16, <1>17, <1>18 DEF RoundInv, Workers, Increasing
<1>20. FifoInv' /\ HeapInv'
  BY <1>1 DEF FifoInv, HeapInv
<1> QED BY <1>1, <1>11, <1>19, <1>20 DEF OrderInv
-----------------------------------------------------------------------------
(* The order.                                                              *)

LEMMA OrderInit ==
  ASSUME Init
  PROVE  OrderInv
<1>1. log = <<>> /\ Len(log) = 0 /\ DOMAIN log = {} /\ log \in Seq(Entries)
  BY EmptySeq, LenProperties DEF Init
<1>2. Pushed = {}
  BY <1>1 DEF Pushed
<1>3. NumberInv
  BY <1>1, <1>2 DEF NumberInv
<1>4. PastInv
  BY <1>1 DEF PastInv, Since, PopsIn
<1>5. Left = {} 
  BY <1>2 DEF Left, Waiting
<1>6. FifoInv
  <2>1. queue = <<>> /\ queue \in Seq(Nat) /\ DOMAIN queue = {}
    BY EmptySeq, LenProperties DEF Init
  <2> QED BY <1>5, <2>1 DEF FifoInv, Increasing, ToSet
<1>7. HeapInv
  <2>1. heap = {} /\ IsFiniteSet(heap)
    BY FS_EmptySet DEF Init
  <2> QED BY <1>5, <2>1 DEF HeapInv
<1>8. RoundInv
  <2>1. NumWorkers \in Nat \ {0} /\ current = 0 /\ queues = [w \in Workers |-> <<>>]
    BY SchedulersAssumption DEF Init, Workers
  <2>2. current \in Workers
    BY <2>1 DEF Workers
  <2>3. <<>> \in Seq(Nat) /\ DOMAIN <<>> = {}
    OBVIOUS
  <2>4. queues \in [Workers -> Seq(Nat)] /\ \A w \in Workers : queues[w] = <<>>
    BY <2>1, <2>3
  <2>5. \A w \in Workers : Increasing(queues[w]) /\ ToSet(queues[w]) = {}
    BY <2>3, <2>4 DEF Increasing, ToSet
  <2> QED BY <1>5, <2>2, <2>4, <2>5 DEF RoundInv
<1> QED BY <1>3, <1>4, <1>6, <1>7, <1>8 DEF OrderInv, Init

LEMMA OrderStep ==
  ASSUME OrderInv, [Next]_vars
  PROVE  OrderInv'
<1>1. ASSUME NEW p \in Priorities, Push(p) PROVE OrderInv'
  <2>1. scheduler \in {"fifo", "priority", "round_robin"}
    BY DEF OrderInv
  <2> QED BY <1>1, <2>1, FifoPush, HeapPush, RoundPush
<1>2. CASE PopFifo
  BY <1>2, FifoPop
<1>3. CASE PopPriority
  BY <1>3, HeapPop
<1>4. CASE PopRoundRobin
  BY <1>4, RoundPop
<1>5. CASE UNCHANGED vars
  <2>1. /\ log' = log /\ scheduler' = scheduler /\ queue' = queue /\ heap' = heap
        /\ queues' = queues /\ current' = current
    BY <1>5 DEF vars
  <2>2. Pushed' = Pushed
    BY <2>1 DEF Pushed
  <2>3. NextTask' = NextTask /\ Tasks' = Tasks
    BY <2>1, <2>2 DEF NextTask, Tasks
  <2>4. \A i, j : PopsIn(i, j)' = PopsIn(i, j)
    BY <2>1 DEF PopsIn
  <2>5. \A i : Since(i)' = Since(i) /\ Waiting(i)' = Waiting(i)
    BY <2>1, <2>2, <2>4 DEF Since, Waiting, PopsIn
  <2>6. Left' = Left
    BY <2>1, <2>2 DEF Left, Waiting, PopsIn
  <2>7. \A t : PushAt(t)' = PushAt(t)
    BY <2>1, <2>2 DEF PushAt
  <2>8. \A t : Since(PushAt(t))' = Since(PushAt(t))
    BY <2>1, <2>7 DEF Since, PopsIn
  <2>16. \A x, y : Between(x, y)' = Between(x, y)
    BY <2>1, <2>7 DEF Between, PopsIn
  <2>9. \A x, y : Undisturbed(x, y)' = Undisturbed(x, y)
    BY <2>7, <2>16 DEF Undisturbed
  <2>10. \A x, y : Before(x, y)' = Before(x, y)
    BY <2>1, <2>7, <2>16 DEF Before
  <2>11. \A t, i : Due(t, i)' = Due(t, i)
    BY <2>5, <2>10 DEF Due
  <2>12. NumberInv' /\ PastInv'
    BY <2>1, <2>2, <2>3, <2>5, <2>11 DEF OrderInv, NumberInv, PastInv
  <2>13. FifoInv'
    BY <2>1, <2>6 DEF OrderInv, FifoInv, Increasing
  <2>14. HeapInv'
    BY <2>1, <2>3, <2>6, <2>7, <2>8, <2>16 DEF OrderInv, HeapInv
  <2>15. RoundInv'
    BY <2>1, <2>3, <2>6, <2>8, <2>9 DEF OrderInv, RoundInv, Increasing
  <2> QED BY <2>1, <2>12, <2>13, <2>14, <2>15 DEF OrderInv
<1> QED BY <1>1, <1>2, <1>3, <1>4, <1>5 DEF Next

\* Each scheduler hands out what it was given, once: the queue the task pushed
\* first; the heap one of the highest priority, and of those the first pushed,
\* except that a task may overtake one of its priority pushed k places earlier
\* once k tasks have been popped between their pushes; the queues, of tasks a
\* whole turn of pushes apart with no pop in between, the first.
THEOREM InOrder == Spec => []ServedInOrder
<1>1. Init => OrderInv
  BY OrderInit
<1>2. OrderInv /\ [Next]_vars => OrderInv'
  BY OrderStep
<1>3. OrderInv => ServedInOrder
  <2> SUFFICES ASSUME OrderInv PROVE ServedInOrder
    OBVIOUS
  <2>1. ASSUME NEW i \in PopsIn(1, Len(log))
        PROVE  /\ log[i].task \in Waiting(i - 1)
               /\ \A x \in Waiting(i - 1) : ~Before(x, log[i].task)
    BY DEF OrderInv, PastInv, Since, Due
  <2>2. CASE scheduler = "fifo"
    BY <2>1, <2>2 DEF OrderInv, FifoInv, ServedInOrder, Left
  <2>3. CASE scheduler = "priority"
    BY <2>1, <2>3 DEF OrderInv, HeapInv, ServedInOrder, Left
  <2>4. CASE scheduler = "round_robin"
    <3>1. DOMAIN queues = Workers /\ UNION {ToSet(queues[w]) : w \in Workers} = Left
      BY <2>4 DEF OrderInv, RoundInv
    <3> QED BY <2>1, <2>4, <3>1 DEF ServedInOrder, Left
  <2> QED BY <2>2, <2>3, <2>4 DEF OrderInv
<1> QED BY <1>1, <1>2, <1>3, PTL DEF Spec

-----------------------------------------------------------------------------
(* Composition.                                                            *)

\* The tasks of a taskflow.
Names == {<<"task", n>> : n \in Nat} \cup {<<"named", n>> : n \in Nat}
Works == {Own(n) : n \in Nat} \cup {Shared(n) : n \in Nat} \cup {Placeholder(m) : m \in Names}
Node  == [id : Nat, name : Names, work : Works, succ : SUBSET Nat, deps : SUBSET Nat, numDeps : Nat]

\* numDeps counts the dependencies.
Counted(task) == IsFiniteSet(task.deps) /\ task.numDeps = Cardinality(task.deps)

\* The graph r of n tasks is g with the edges E.
Drawn(n, g, E, r) ==
  /\ r \in [1 .. n -> Node]
  /\ \A p \in 1 .. n :
       /\ r[p].id = g[p].id /\ r[p].name = g[p].name /\ r[p].work = g[p].work
       /\ r[p].succ = g[p].succ \cup {s \in 1 .. n : <<p, s>> \in E}
       /\ r[p].deps = g[p].deps \cup {q \in 1 .. n : <<q, p>> \in E}
       /\ Counted(g[p]) => Counted(r[p])

LEMMA DrawnNothing ==
  ASSUME NEW n \in Nat, NEW g \in [1 .. n -> Node]
  PROVE  Drawn(n, g, {}, g)
BY DEF Drawn

LEMMA DrawnMore ==
  ASSUME NEW n \in Nat, NEW g, NEW E, NEW h, Drawn(n, g, E, h), NEW F, NEW r, Drawn(n, h, F, r)
  PROVE  Drawn(n, g, E \cup F, r)
<1> SUFFICES ASSUME NEW p \in 1 .. n
             PROVE  /\ r[p].id = g[p].id /\ r[p].name = g[p].name /\ r[p].work = g[p].work
                    /\ r[p].succ = g[p].succ \cup {s \in 1 .. n : <<p, s>> \in E \cup F}
                    /\ r[p].deps = g[p].deps \cup {q \in 1 .. n : <<q, p>> \in E \cup F}
                    /\ Counted(g[p]) => Counted(r[p])
  BY DEF Drawn
<1>1. /\ h[p].id = g[p].id /\ h[p].name = g[p].name /\ h[p].work = g[p].work
      /\ h[p].succ = g[p].succ \cup {s \in 1 .. n : <<p, s>> \in E}
      /\ h[p].deps = g[p].deps \cup {q \in 1 .. n : <<q, p>> \in E}
      /\ Counted(g[p]) => Counted(h[p])
  BY DEF Drawn
<1>2. /\ r[p].id = h[p].id /\ r[p].name = h[p].name /\ r[p].work = h[p].work
      /\ r[p].succ = h[p].succ \cup {s \in 1 .. n : <<p, s>> \in F}
      /\ r[p].deps = h[p].deps \cup {q \in 1 .. n : <<q, p>> \in F}
      /\ Counted(h[p]) => Counted(r[p])
  BY DEF Drawn
<1>3. /\ {s \in 1 .. n : <<p, s>> \in E \cup F} = {s \in 1 .. n : <<p, s>> \in E} \cup {s \in 1 .. n : <<p, s>> \in F}
      /\ {q \in 1 .. n : <<q, p>> \in E \cup F} = {q \in 1 .. n : <<q, p>> \in E} \cup {q \in 1 .. n : <<q, p>> \in F}
  OBVIOUS
<1> QED BY <1>1, <1>2, <1>3

\* A node with one field replaced, and a graph with one node replaced.
WithSucc(x, u)    == [x EXCEPT !.succ = u]
WithDeps(x, u)    == [x EXCEPT !.deps = u]
WithNumDeps(x, u) == [x EXCEPT !.numDeps = u]
Replaced(g, a, x) == [g EXCEPT ![a] = x]

OnlySucc(n, g, a, u, f) ==
  /\ f \in [1 .. n -> Node] /\ f[a].succ = u
  /\ \A p \in 1 .. n : p # a => f[p] = g[p]
  /\ f[a].id = g[a].id /\ f[a].name = g[a].name /\ f[a].work = g[a].work /\ f[a].deps = g[a].deps /\ f[a].numDeps = g[a].numDeps

OnlyDeps(n, g, a, u, f) ==
  /\ f \in [1 .. n -> Node] /\ f[a].deps = u
  /\ \A p \in 1 .. n : p # a => f[p] = g[p]
  /\ f[a].id = g[a].id /\ f[a].name = g[a].name /\ f[a].work = g[a].work /\ f[a].succ = g[a].succ /\ f[a].numDeps = g[a].numDeps

OnlyNumDeps(n, g, a, u, f) ==
  /\ f \in [1 .. n -> Node] /\ f[a].numDeps = u
  /\ \A p \in 1 .. n : p # a => f[p] = g[p]
  /\ f[a].id = g[a].id /\ f[a].name = g[a].name /\ f[a].work = g[a].work /\ f[a].succ = g[a].succ /\ f[a].deps = g[a].deps

LEMMA NodeSucc ==
  ASSUME NEW x \in Node, NEW u \in SUBSET Nat, NEW y, y = WithSucc(x, u)
  PROVE  /\ y \in Node /\ y.succ = u
         /\ y.id = x.id /\ y.name = x.name /\ y.work = x.work /\ y.deps = x.deps /\ y.numDeps = x.numDeps
BY DEF Node, WithSucc

LEMMA GraphSucc ==
  ASSUME NEW n \in Nat, NEW g \in [1 .. n -> Node], NEW a \in 1 .. n, NEW u \in SUBSET Nat,
         NEW f, f = Replaced(g, a, WithSucc(g[a], u))
  PROVE  OnlySucc(n, g, a, u, f)
<1>1. PICK x : x = WithSucc(g[a], u)
  OBVIOUS
<1>2. /\ x \in Node /\ x.succ = u
      /\ x.id = g[a].id /\ x.name = g[a].name /\ x.work = g[a].work /\ x.deps = g[a].deps /\ x.numDeps = g[a].numDeps
  <2>1. g[a] \in Node
    OBVIOUS
  <2> QED BY <1>1, <2>1, NodeSucc
<1>3. f \in [1 .. n -> Node] /\ f[a] = x /\ \A p \in 1 .. n : p # a => f[p] = g[p]
  BY <1>1, <1>2 DEF Replaced
<1> QED BY <1>2, <1>3 DEF OnlySucc

LEMMA NodeDeps ==
  ASSUME NEW x \in Node, NEW u \in SUBSET Nat, NEW y, y = WithDeps(x, u)
  PROVE  /\ y \in Node /\ y.deps = u
         /\ y.id = x.id /\ y.name = x.name /\ y.work = x.work /\ y.succ = x.succ /\ y.numDeps = x.numDeps
BY DEF Node, WithDeps

LEMMA GraphDeps ==
  ASSUME NEW n \in Nat, NEW g \in [1 .. n -> Node], NEW a \in 1 .. n, NEW u \in SUBSET Nat,
         NEW f, f = Replaced(g, a, WithDeps(g[a], u))
  PROVE  OnlyDeps(n, g, a, u, f)
<1>1. PICK x : x = WithDeps(g[a], u)
  OBVIOUS
<1>2. /\ x \in Node /\ x.deps = u
      /\ x.id = g[a].id /\ x.name = g[a].name /\ x.work = g[a].work /\ x.succ = g[a].succ /\ x.numDeps = g[a].numDeps
  <2>1. g[a] \in Node
    OBVIOUS
  <2> QED BY <1>1, <2>1, NodeDeps
<1>3. f \in [1 .. n -> Node] /\ f[a] = x /\ \A p \in 1 .. n : p # a => f[p] = g[p]
  BY <1>1, <1>2 DEF Replaced
<1> QED BY <1>2, <1>3 DEF OnlyDeps

\* The same but for the count.
Recounted(x, u, y) ==
  /\ y \in Node /\ y.numDeps = u
  /\ y.id = x.id /\ y.name = x.name /\ y.work = x.work /\ y.succ = x.succ /\ y.deps = x.deps

LEMMA NodeNumDeps ==
  ASSUME NEW x \in Node, NEW u \in Nat, NEW y, y = WithNumDeps(x, u)
  PROVE  Recounted(x, u, y)
BY DEF Node, WithNumDeps, Recounted

LEMMA GraphNumDeps ==
  ASSUME NEW n \in Nat, NEW g \in [1 .. n -> Node], NEW a \in 1 .. n, NEW u \in Nat,
         NEW f, f = Replaced(g, a, WithNumDeps(g[a], u))
  PROVE  OnlyNumDeps(n, g, a, u, f)
<1>1. PICK x : x = WithNumDeps(g[a], u)
  OBVIOUS
<1>2. /\ x \in Node /\ x.numDeps = u
      /\ x.id = g[a].id /\ x.name = g[a].name /\ x.work = g[a].work /\ x.succ = g[a].succ /\ x.deps = g[a].deps
  <2>1. g[a] \in Node
    OBVIOUS
  <2>2. Recounted(g[a], u, x)
    BY <1>1, <2>1, NodeNumDeps
  <2> QED BY <2>2 DEF Recounted
<1>3. f \in [1 .. n -> Node] /\ f[a] = x /\ \A p \in 1 .. n : p # a => f[p] = g[p]
  BY <1>1, <1>2 DEF Replaced
<1> QED BY <1>2, <1>3 DEF OnlyNumDeps

\* What precede replaces.
EdgeDrawn(n, g, a, b, r) ==
  /\ r \in [1 .. n -> Node]
  /\ \A p \in 1 .. n :
       /\ r[p].id = g[p].id /\ r[p].name = g[p].name /\ r[p].work = g[p].work
       /\ r[p].succ = IF p = a THEN g[p].succ \cup {b} ELSE g[p].succ
       /\ r[p].deps = IF p = b THEN g[p].deps \cup {a} ELSE g[p].deps
       /\ r[p].numDeps = IF p = b /\ a \notin g[b].deps THEN g[p].numDeps + 1 ELSE g[p].numDeps

LEMMA PrecedingFields ==
  ASSUME NEW n \in Nat, NEW g \in [1 .. n -> Node], NEW a \in 1 .. n, NEW b \in 1 .. n,
         NEW r, r = Preceding(g, a, b)
  PROVE  EdgeDrawn(n, g, a, b, r)
<1>1. PICK succ : succ = g[a].succ \cup {b}
  OBVIOUS
<1>2. PICK deps : deps = g[b].deps \cup {a}
  OBVIOUS
<1>3. PICK count : count = IF a \in g[b].deps THEN g[b].numDeps ELSE g[b].numDeps + 1
  OBVIOUS
<1>4. succ \in SUBSET Nat /\ deps \in SUBSET Nat /\ count \in Nat
  <2>1. g[a] \in Node /\ g[b] \in Node
    OBVIOUS
  <2>2. g[a].succ \in SUBSET Nat /\ g[b].deps \in SUBSET Nat /\ g[b].numDeps \in Nat
    BY <2>1 DEF Node
  <2> QED BY <1>1, <1>2, <1>3, <2>2
<1>5. PICK f : f = Replaced(g, a, WithSucc(g[a], succ))
  OBVIOUS
<1>6. PICK d : d = Replaced(f, b, WithDeps(f[b], deps))
  OBVIOUS
<1>7. /\ f \in [1 .. n -> Node] /\ f[a].succ = succ
      /\ \A p \in 1 .. n : p # a => f[p] = g[p]
      /\ f[a].id = g[a].id /\ f[a].name = g[a].name /\ f[a].work = g[a].work
      /\ f[a].deps = g[a].deps /\ f[a].numDeps = g[a].numDeps
  <2>1. OnlySucc(n, g, a, succ, f)
    BY <1>4, <1>5, GraphSucc
  <2> QED BY <2>1 DEF OnlySucc
<1>8. /\ d \in [1 .. n -> Node] /\ d[b].deps = deps
      /\ \A p \in 1 .. n : p # b => d[p] = f[p]
      /\ d[b].id = f[b].id /\ d[b].name = f[b].name /\ d[b].work = f[b].work
      /\ d[b].succ = f[b].succ /\ d[b].numDeps = f[b].numDeps
  <2>1. OnlyDeps(n, f, b, deps, d)
    BY <1>4, <1>6, <1>7, GraphDeps
  <2> QED BY <2>1 DEF OnlyDeps
<1>9. f[b].deps = g[b].deps /\ d[b].numDeps = g[b].numDeps
  BY <1>7, <1>8
<1>10. r = Replaced(d, b, WithNumDeps(d[b], count))
  <2>1. r = [[[g EXCEPT ![a].succ = @ \cup {b}] EXCEPT ![b].deps = @ \cup {a}]
                EXCEPT ![b].numDeps = IF a \in g[b].deps THEN @ ELSE @ + 1]
    BY DEF Preceding
  <2>2. f = [g EXCEPT ![a].succ = @ \cup {b}]
    BY <1>1, <1>5 DEF Replaced, WithSucc
  <2>3. d = [f EXCEPT ![b].deps = @ \cup {a}]
    <3>1. deps = f[b].deps \cup {a}
      BY <1>2, <1>9
    <3> QED BY <1>6, <3>1 DEF Replaced, WithDeps
  <2>4. r = [d EXCEPT ![b].numDeps = IF a \in g[b].deps THEN @ ELSE @ + 1]
    BY <2>1, <2>2, <2>3
  <2>5. count = IF a \in g[b].deps THEN d[b].numDeps ELSE d[b].numDeps + 1
    BY <1>3, <1>9
  <2> QED BY <2>4, <2>5 DEF Replaced, WithNumDeps
<1>11. /\ r \in [1 .. n -> Node] /\ r[b].numDeps = count
       /\ \A p \in 1 .. n : p # b => r[p] = d[p]
       /\ r[b].id = d[b].id /\ r[b].name = d[b].name /\ r[b].work = d[b].work
       /\ r[b].succ = d[b].succ /\ r[b].deps = d[b].deps
  <2>1. OnlyNumDeps(n, d, b, count, r)
    BY <1>4, <1>8, <1>10, GraphNumDeps
  <2> QED BY <2>1 DEF OnlyNumDeps
<1>12. ASSUME NEW p \in 1 .. n
       PROVE  /\ r[p].id = g[p].id /\ r[p].name = g[p].name /\ r[p].work = g[p].work
              /\ r[p].succ = IF p = a THEN g[p].succ \cup {b} ELSE g[p].succ
              /\ r[p].deps = IF p = b THEN g[p].deps \cup {a} ELSE g[p].deps
              /\ r[p].numDeps = IF p = b /\ a \notin g[b].deps THEN g[p].numDeps + 1 ELSE g[p].numDeps
  <2>1. /\ f[p].id = g[p].id /\ f[p].name = g[p].name /\ f[p].work = g[p].work
        /\ f[p].succ = IF p = a THEN g[p].succ \cup {b} ELSE g[p].succ
        /\ f[p].deps = g[p].deps /\ f[p].numDeps = g[p].numDeps
    BY <1>1, <1>7
  <2>2. /\ d[p].id = f[p].id /\ d[p].name = f[p].name /\ d[p].work = f[p].work
        /\ d[p].deps = IF p = b THEN deps ELSE f[p].deps
        /\ d[p].succ = f[p].succ /\ d[p].numDeps = f[p].numDeps
    BY <1>8
  <2>3. /\ r[p].id = d[p].id /\ r[p].name = d[p].name /\ r[p].work = d[p].work
        /\ r[p].numDeps = IF p = b THEN count ELSE d[p].numDeps
        /\ r[p].succ = d[p].succ /\ r[p].deps = d[p].deps
    BY <1>11
  <2>4. p = b => deps = g[p].deps \cup {a}
    BY <1>2
  <2>5. p = b => count = IF a \in g[b].deps THEN g[p].numDeps ELSE g[p].numDeps + 1
    BY <1>3
  <2> QED BY <2>1, <2>2, <2>3, <2>4, <2>5
<1> QED BY <1>11, <1>12 DEF EdgeDrawn

\* precede draws one edge and counts it once.
LEMMA PrecedingDraws ==
  ASSUME NEW n \in Nat, NEW g \in [1 .. n -> Node], NEW a \in 1 .. n, NEW b \in 1 .. n
  PROVE  Drawn(n, g, {<<a, b>>}, Preceding(g, a, b))
<1>1. PICK r : r = Preceding(g, a, b)
  OBVIOUS
<1>3. /\ r \in [1 .. n -> Node]
      /\ \A p \in 1 .. n :
           /\ r[p].id = g[p].id /\ r[p].name = g[p].name /\ r[p].work = g[p].work
           /\ r[p].succ = IF p = a THEN g[p].succ \cup {b} ELSE g[p].succ
           /\ r[p].deps = IF p = b THEN g[p].deps \cup {a} ELSE g[p].deps
           /\ r[p].numDeps = IF p = b /\ a \notin g[b].deps THEN g[p].numDeps + 1 ELSE g[p].numDeps
  <2>1. EdgeDrawn(n, g, a, b, r)
    BY <1>1, PrecedingFields
  <2> QED BY <2>1 DEF EdgeDrawn
<1>6. \A p \in 1 .. n :
        /\ r[p].succ = g[p].succ \cup {s \in 1 .. n : <<p, s>> \in {<<a, b>>}}
        /\ r[p].deps = g[p].deps \cup {q \in 1 .. n : <<q, p>> \in {<<a, b>>}}
  <2> SUFFICES ASSUME NEW p \in 1 .. n
               PROVE  /\ r[p].succ = g[p].succ \cup {s \in 1 .. n : <<p, s>> \in {<<a, b>>}}
                      /\ r[p].deps = g[p].deps \cup {q \in 1 .. n : <<q, p>> \in {<<a, b>>}}
    OBVIOUS
  <2>1. {s \in 1 .. n : <<p, s>> \in {<<a, b>>}} = IF p = a THEN {b} ELSE {}
    OBVIOUS
  <2>2. {q \in 1 .. n : <<q, p>> \in {<<a, b>>}} = IF p = b THEN {a} ELSE {}
    OBVIOUS
  <2> QED BY <1>3, <2>1, <2>2
<1>7. ASSUME NEW p \in 1 .. n, Counted(g[p]) PROVE Counted(r[p])
  <2>1. CASE p = b /\ a \notin g[b].deps
    <3>1. r[p].deps = g[p].deps \cup {a} /\ r[p].numDeps = g[p].numDeps + 1
      BY <1>3, <2>1
    <3>2. /\ IsFiniteSet(g[p].deps \cup {a})
          /\ Cardinality(g[p].deps \cup {a}) = Cardinality(g[p].deps) + 1
      BY <1>7, <2>1, FS_AddElement DEF Counted
    <3> QED BY <1>7, <3>1, <3>2 DEF Counted
  <2>2. CASE ~(p = b /\ a \notin g[b].deps)
    <3>1. r[p].deps = g[p].deps /\ r[p].numDeps = g[p].numDeps
      BY <1>3, <2>2
    <3> QED BY <1>7, <3>1 DEF Counted
  <2> QED BY <2>1, <2>2
<1> QED BY <1>1, <1>3, <1>6, <1>7 DEF Drawn

\* A fold whose steps draw edges draws them all.
Joined(E, T) == UNION {E[x] : x \in T}

Draws(k, T, n, c, E) ==
  /\ \A S \in SUBSET T : S # {} => c[S] \in S
  /\ \A S \in SUBSET T : S # {} /\ k[S \ {c[S]}] \in [1 .. n -> Node]
                           => Drawn(n, k[S \ {c[S]}], E[c[S]], k[S])

LEMMA FoldDraws ==
  ASSUME NEW T, IsFiniteSet(T), NEW n \in Nat, NEW g \in [1 .. n -> Node],
         NEW c, NEW E, NEW k, k[{}] = g, Draws(k, T, n, c, E)
  PROVE  Drawn(n, g, Joined(E, T), k[T])
<1>0. /\ \A S \in SUBSET T : S # {} => c[S] \in S
      /\ \A S \in SUBSET T : S # {} /\ k[S \ {c[S]}] \in [1 .. n -> Node]
                               => Drawn(n, k[S \ {c[S]}], E[c[S]], k[S])
  BY DEF Draws
<1> DEFINE Edges(S) == UNION {E[x] : x \in S}
           N == {m \in Nat : \A S \in SUBSET T : Cardinality(S) = m => Drawn(n, g, Edges(S), k[S])}
<1>1. Edges({}) = {} /\ \A S \in SUBSET T : \A x \in S : Edges(S) = Edges(S \ {x}) \cup E[x]
  OBVIOUS
<1> HIDE DEF Edges
<1>2. 0 \in N
  <2> SUFFICES ASSUME NEW S \in SUBSET T, Cardinality(S) = 0 PROVE Drawn(n, g, Edges(S), k[S])
    OBVIOUS
  <2>1. S = {}
    BY CardinalityWithout
  <2>2. Drawn(n, g, {}, g)
    BY DrawnNothing
  <2> QED BY <1>1, <2>1, <2>2
<1>3. ASSUME NEW m \in Nat, m \in N PROVE m + 1 \in N
  <2>1. \A S \in SUBSET T : Cardinality(S) = m => Drawn(n, g, Edges(S), k[S])
    BY <1>3
  <2> HIDE DEF N
  <2> SUFFICES ASSUME NEW S \in SUBSET T, Cardinality(S) = m + 1
               PROVE  Drawn(n, g, Edges(S), k[S])
    BY DEF N
  <2>2. S # {}
    BY CardinalityWithout
  <2>3. PICK x \in S : x = c[S]
    BY <1>0, <2>2
  <2>4. PICK R \in SUBSET T : R = S \ {x}
    OBVIOUS
  <2>5. Cardinality(R) = m
    <3>1. Cardinality(S \ {x}) = Cardinality(S) - 1
      BY CardinalityWithout
    <3> QED BY <2>4, <3>1
  <2>6. Drawn(n, g, Edges(R), k[R])
    BY <2>1, <2>5
  <2>7. Drawn(n, k[R], E[x], k[S])
    <3>1. k[R] \in [1 .. n -> Node]
      BY <2>6 DEF Drawn
    <3> QED BY <1>0, <2>2, <2>3, <2>4, <3>1
  <2>8. Edges(S) = Edges(R) \cup E[x]
    BY <1>1, <2>4
  <2> QED BY <2>6, <2>7, <2>8, DrawnMore
<1> HIDE DEF N
<1>4. Nat \subseteq N
  BY <1>2, <1>3, SetInduction
<1>5. Drawn(n, g, Edges(T), k[T])
  <2>1. Cardinality(T) \in Nat
    BY CardinalityWithout
  <2> QED BY <1>4, <2>1 DEF N
<1> QED BY <1>5 DEF Edges, Joined

\* Edges that precede draws between the copies of two tasks.
EdgesCopied(base, node) == {<<base + node.id, base + s>> : s \in node.succ}

LEMMA CopiedEdgesDraws ==
  ASSUME NEW n \in Nat, NEW graph \in [1 .. n -> Node], NEW base \in Nat, NEW node \in Node,
         IsFiniteSet(node.succ), base + node.id \in 1 .. n, \A s \in node.succ : base + s \in 1 .. n
  PROVE  Drawn(n, graph, EdgesCopied(base, node), CopiedEdges(graph, base, node))
<1> DEFINE T == node.succ
           V == [1 .. n -> Node]
           a == base + node.id
           iter == CHOOSE f : f = [S \in SUBSET T |->
                     IF S = {} THEN graph
                     ELSE Preceding(f[S \ {CHOOSE x \in S : TRUE}], a, base + (CHOOSE x \in S : TRUE))]
<1>1. CopiedEdges(graph, base, node) = iter[T]
  BY DEF CopiedEdges, FoldSet, MapThenFoldSet, Mapped
<1>2. PICK c : c = [S \in SUBSET T |-> CHOOSE x \in S : TRUE]
  OBVIOUS
<1>3. \A S \in SUBSET T : c[S] = CHOOSE x \in S : TRUE
  BY <1>2
<1>4. \A S \in SUBSET T : S # {} => c[S] \in S
  BY <1>3
<1> HIDE DEF T
<1>5. PICK h \in [T \X V -> V] : \A s \in T : \A v \in V : h[<<s, v>>] = Preceding(v, a, base + s)
  <2>1. PICK h : h = [z \in T \X V |-> Preceding(z[2], a, base + z[1])]
    OBVIOUS
  <2>2. \A s \in T : \A v \in V : h[<<s, v>>] = Preceding(v, a, base + s)
    BY <2>1
  <2>3. ASSUME NEW s \in T, NEW v \in V PROVE h[<<s, v>>] \in V
    <3>1. PICK b \in 1 .. n : b = base + s
      BY DEF T
    <3>2. Drawn(n, v, {<<a, b>>}, Preceding(v, a, b))
      BY <3>1, PrecedingDraws
    <3> QED BY <2>2, <3>1, <3>2 DEF Drawn
  <2>4. DOMAIN h = T \X V /\ h = [z \in T \X V |-> h[z]]
    BY <2>1
  <2>5. \A z \in T \X V : h[z] \in V
    BY <2>3
  <2> QED BY <2>2, <2>4, <2>5
<1>6. PICK k : Folds(k, T, V, graph, c, h)
  BY <1>4, FoldExists DEF T
<1>7. \A S \in SUBSET T : k[S] = IF S = {} THEN graph ELSE Preceding(k[S \ {c[S]}], a, base + c[S])
  <2>1. k \in [SUBSET T -> V] /\ \A S \in SUBSET T : k[S] = IF S = {} THEN graph ELSE h[<<c[S], k[S \ {c[S]}]>>]
    BY <1>6 DEF Folds
  <2>2. \A S \in SUBSET T : S # {} => c[S] \in T /\ k[S \ {c[S]}] \in V
    BY <1>4, <2>1
  <2> QED BY <1>5, <2>1, <2>2
<1>8. k = [S \in SUBSET T |->
             IF S = {} THEN graph
             ELSE Preceding(k[S \ {CHOOSE x \in S : TRUE}], a, base + (CHOOSE x \in S : TRUE))]
  <2>1. DOMAIN k = SUBSET T /\ k = [S \in SUBSET T |-> k[S]]
    BY <1>6 DEF Folds
  <2>2. ASSUME NEW S \in SUBSET T
        PROVE  k[S] = IF S = {} THEN graph
                      ELSE Preceding(k[S \ {CHOOSE x \in S : TRUE}], a, base + (CHOOSE x \in S : TRUE))
    BY <1>3, <1>7
  <2> HIDE DEF V, iter
  <2> QED BY <2>1, <2>2
<1>9. iter = [S \in SUBSET T |->
             IF S = {} THEN graph
             ELSE Preceding(iter[S \ {CHOOSE x \in S : TRUE}], a, base + (CHOOSE x \in S : TRUE))]
  BY <1>8
<1> HIDE DEF iter
<1>10. PICK f : f = iter
  OBVIOUS
<1>11. \A S \in SUBSET T : f[S] = IF S = {} THEN graph ELSE Preceding(f[S \ {c[S]}], a, base + c[S])
  <2>1. \A S \in SUBSET T :
          f[S] = IF S = {} THEN graph
                 ELSE Preceding(f[S \ {CHOOSE x \in S : TRUE}], a, base + (CHOOSE x \in S : TRUE))
    BY <1>9, <1>10
  <2> QED BY <1>3, <2>1
<1>12. PICK E : E = [s \in T |-> {<<a, base + s>>}]
  OBVIOUS
<1>13. f[{}] = graph
  BY <1>11
<1>14. \A S \in SUBSET T : S # {} /\ f[S \ {c[S]}] \in V => Drawn(n, f[S \ {c[S]}], E[c[S]], f[S])
  <2> SUFFICES ASSUME NEW S \in SUBSET T, S # {}, f[S \ {c[S]}] \in V
               PROVE  Drawn(n, f[S \ {c[S]}], E[c[S]], f[S])
    OBVIOUS
  <2>1. PICK s \in T : s = c[S]
    BY <1>4
  <2>2. PICK b \in 1 .. n : b = base + s
    BY DEF T
  <2>3. PICK v \in V : v = f[S \ {c[S]}]
    OBVIOUS
  <2>4. Drawn(n, v, {<<a, b>>}, Preceding(v, a, b))
    BY PrecedingDraws
  <2>5. f[S] = Preceding(v, a, b) /\ E[c[S]] = {<<a, b>>}
    BY <1>11, <1>12, <2>1, <2>2, <2>3
  <2> QED BY <2>3, <2>4, <2>5
<1>15. Drawn(n, graph, Joined(E, T), f[T])
  <2>1. IsFiniteSet(T)
    BY DEF T
  <2>2. Draws(f, T, n, c, E)
    BY <1>4, <1>14 DEF Draws
  <2> QED BY <1>13, <2>1, <2>2, FoldDraws
<1>16. Joined(E, T) = EdgesCopied(base, node)
  BY <1>12 DEF EdgesCopied, T, Joined
<1> QED BY <1>1, <1>10, <1>15, <1>16

\* precede draws an edge to every handle of a list.
LEMMA PrecedingAllDraws ==
  ASSUME NEW n \in Nat, NEW graph \in [1 .. n -> Node], NEW a \in 1 .. n, NEW to \in Seq(1 .. n)
  PROVE  Drawn(n, graph, {a} \X ToSet(to), PrecedingAll(graph, a, to))
<1> DEFINE T == 1 .. Len(to)
           V == [1 .. n -> Node]
           iter == CHOOSE f : f = [S \in SUBSET T |->
                     IF S = {} THEN graph ELSE Preceding(f[S \ {Max(S)}], a, to[Max(S)])]
<1>1. Len(to) \in Nat /\ DOMAIN to = T /\ IsFiniteSet(T)
  <2>1. Len(to) \in Nat /\ DOMAIN to = T
    BY LenProperties
  <2> QED BY <2>1, IntervalSize
<1>2. PrecedingAll(graph, a, to) = iter[T]
  BY <1>1 DEF PrecedingAll, FoldLeft, MapThenFoldSet
<1>3. PICK c : c = [S \in SUBSET T |-> Max(S)]
  OBVIOUS
<1>4. \A S \in SUBSET T : c[S] = Max(S)
  BY <1>3
<1>5. \A S \in SUBSET T : S # {} => c[S] \in S
  BY <1>1, <1>4, GreatestIn
<1>6. PICK E : E = [i \in T |-> {<<a, to[i]>>}]
  OBVIOUS
<1>7. ASSUME NEW i \in T, NEW v \in V
      PROVE  Drawn(n, v, E[i], Preceding(v, a, to[i]))
  <2>1. PICK b \in 1 .. n : b = to[i]
    BY <1>1
  <2>2. Drawn(n, v, {<<a, b>>}, Preceding(v, a, b))
    BY PrecedingDraws
  <2> QED BY <1>6, <2>1, <2>2
<1> HIDE DEF T
<1>8. PICK h \in [T \X V -> V] : \A i \in T : \A v \in V : h[<<i, v>>] = Preceding(v, a, to[i])
  <2>1. PICK h : h = [z \in T \X V |-> Preceding(z[2], a, to[z[1]])]
    OBVIOUS
  <2>2. \A i \in T : \A v \in V : h[<<i, v>>] = Preceding(v, a, to[i])
    BY <2>1
  <2>3. ASSUME NEW i \in T, NEW v \in V PROVE h[<<i, v>>] \in V
    <3>1. Drawn(n, v, E[i], h[<<i, v>>])
      BY <1>7, <2>2
    <3> QED BY <3>1 DEF Drawn
  <2>4. DOMAIN h = T \X V /\ h = [z \in T \X V |-> h[z]]
    BY <2>1
  <2>5. ASSUME NEW z \in T \X V PROVE h[z] \in V
    <3>1. PICK i \in T, v \in V : z = <<i, v>>
      OBVIOUS
    <3> QED BY <2>3, <3>1
  <2> QED BY <2>2, <2>4, <2>5
<1>9. PICK k : Folds(k, T, V, graph, c, h)
  BY <1>1, <1>5, FoldExists
<1>10. \A S \in SUBSET T : k[S] = IF S = {} THEN graph ELSE Preceding(k[S \ {c[S]}], a, to[c[S]])
  <2>1. k \in [SUBSET T -> V] /\ \A S \in SUBSET T : k[S] = IF S = {} THEN graph ELSE h[<<c[S], k[S \ {c[S]}]>>]
    BY <1>9 DEF Folds
  <2>2. \A S \in SUBSET T : S # {} => c[S] \in T /\ k[S \ {c[S]}] \in V
    BY <1>5, <2>1
  <2> QED BY <1>8, <2>1, <2>2
<1>11. k = [S \in SUBSET T |-> IF S = {} THEN graph ELSE Preceding(k[S \ {Max(S)}], a, to[Max(S)])]
  <2>1. DOMAIN k = SUBSET T /\ k = [S \in SUBSET T |-> k[S]]
    BY <1>9 DEF Folds
  <2> QED BY <1>4, <1>10, <2>1
<1>12. iter = [S \in SUBSET T |-> IF S = {} THEN graph ELSE Preceding(iter[S \ {Max(S)}], a, to[Max(S)])]
  BY <1>11
<1> HIDE DEF iter
<1>13. PICK f : f = iter
  OBVIOUS
<1>14. \A S \in SUBSET T : f[S] = IF S = {} THEN graph ELSE Preceding(f[S \ {c[S]}], a, to[c[S]])
  <2>1. \A S \in SUBSET T : f[S] = IF S = {} THEN graph ELSE Preceding(f[S \ {Max(S)}], a, to[Max(S)])
    BY <1>12, <1>13
  <2> QED BY <1>4, <2>1
<1>15. Draws(f, T, n, c, E)
  <2>1. ASSUME NEW S \in SUBSET T, S # {}, f[S \ {c[S]}] \in V
        PROVE  Drawn(n, f[S \ {c[S]}], E[c[S]], f[S])
    <3>1. PICK i \in T : i = c[S]
      BY <1>5, <2>1
    <3>2. PICK v \in V : v = f[S \ {c[S]}]
      BY <2>1
    <3>3. f[S] = Preceding(v, a, to[i])
      BY <1>14, <2>1, <3>1, <3>2
    <3>4. Drawn(n, v, E[i], Preceding(v, a, to[i]))
      BY <1>7
    <3> QED BY <3>1, <3>2, <3>3, <3>4
  <2> QED BY <1>5, <2>1 DEF Draws
<1>16. Drawn(n, graph, Joined(E, T), f[T])
  <2>1. f[{}] = graph
    BY <1>14
  <2> QED BY <1>1, <1>15, <2>1, FoldDraws
<1>17. Joined(E, T) = {a} \X ToSet(to)
  BY <1>1, <1>6 DEF Joined, ToSet, T
<1> QED BY <1>2, <1>13, <1>16, <1>17

\* Every task of one list precedes every task of another.
LEMMA ConnectedDraws ==
  ASSUME NEW n \in Nat, NEW graph \in [1 .. n -> Node], NEW from \in Seq(1 .. n), NEW to \in Seq(1 .. n)
  PROVE  Drawn(n, graph, ToSet(from) \X ToSet(to), Connected(graph, from, to))
<1> DEFINE T == 1 .. Len(from)
           V == [1 .. n -> Node]
           iter == CHOOSE f : f = [S \in SUBSET T |->
                     IF S = {} THEN graph ELSE PrecedingAll(f[S \ {Max(S)}], from[Max(S)], to)]
<1>1. Len(from) \in Nat /\ DOMAIN from = T /\ IsFiniteSet(T)
  <2>1. Len(from) \in Nat /\ DOMAIN from = T
    BY LenProperties
  <2> QED BY <2>1, IntervalSize
<1>2. Connected(graph, from, to) = iter[T]
  BY <1>1 DEF Connected, FoldLeft, MapThenFoldSet
<1>3. PICK c : c = [S \in SUBSET T |-> Max(S)]
  OBVIOUS
<1>4. \A S \in SUBSET T : c[S] = Max(S)
  BY <1>3
<1>5. \A S \in SUBSET T : S # {} => c[S] \in S
  BY <1>1, <1>4, GreatestIn
<1>6. PICK E : E = [i \in T |-> {from[i]} \X ToSet(to)]
  OBVIOUS
<1>7. ASSUME NEW i \in T, NEW v \in V
      PROVE  Drawn(n, v, E[i], PrecedingAll(v, from[i], to))
  <2>1. PICK a \in 1 .. n : a = from[i]
    BY <1>1
  <2>2. Drawn(n, v, {a} \X ToSet(to), PrecedingAll(v, a, to))
    BY PrecedingAllDraws
  <2> QED BY <1>6, <2>1, <2>2
<1> HIDE DEF T
<1>8. PICK h \in [T \X V -> V] : \A i \in T : \A v \in V : h[<<i, v>>] = PrecedingAll(v, from[i], to)
  <2>1. PICK h : h = [z \in T \X V |-> PrecedingAll(z[2], from[z[1]], to)]
    OBVIOUS
  <2>2. \A i \in T : \A v \in V : h[<<i, v>>] = PrecedingAll(v, from[i], to)
    BY <2>1
  <2>3. ASSUME NEW i \in T, NEW v \in V PROVE h[<<i, v>>] \in V
    <3>1. Drawn(n, v, E[i], h[<<i, v>>])
      BY <1>7, <2>2
    <3> QED BY <3>1 DEF Drawn
  <2>4. DOMAIN h = T \X V /\ h = [z \in T \X V |-> h[z]]
    BY <2>1
  <2>5. ASSUME NEW z \in T \X V PROVE h[z] \in V
    <3>1. PICK i \in T, v \in V : z = <<i, v>>
      OBVIOUS
    <3> QED BY <2>3, <3>1
  <2> QED BY <2>2, <2>4, <2>5
<1>9. PICK k : Folds(k, T, V, graph, c, h)
  BY <1>1, <1>5, FoldExists
<1>10. \A S \in SUBSET T : k[S] = IF S = {} THEN graph ELSE PrecedingAll(k[S \ {c[S]}], from[c[S]], to)
  <2>1. k \in [SUBSET T -> V] /\ \A S \in SUBSET T : k[S] = IF S = {} THEN graph ELSE h[<<c[S], k[S \ {c[S]}]>>]
    BY <1>9 DEF Folds
  <2>2. \A S \in SUBSET T : S # {} => c[S] \in T /\ k[S \ {c[S]}] \in V
    BY <1>5, <2>1
  <2> QED BY <1>8, <2>1, <2>2
<1>11. k = [S \in SUBSET T |-> IF S = {} THEN graph ELSE PrecedingAll(k[S \ {Max(S)}], from[Max(S)], to)]
  <2>1. DOMAIN k = SUBSET T /\ k = [S \in SUBSET T |-> k[S]]
    BY <1>9 DEF Folds
  <2> QED BY <1>4, <1>10, <2>1
<1>12. iter = [S \in SUBSET T |-> IF S = {} THEN graph ELSE PrecedingAll(iter[S \ {Max(S)}], from[Max(S)], to)]
  BY <1>11
<1> HIDE DEF iter
<1>13. PICK f : f = iter
  OBVIOUS
<1>14. \A S \in SUBSET T : f[S] = IF S = {} THEN graph ELSE PrecedingAll(f[S \ {c[S]}], from[c[S]], to)
  <2>1. \A S \in SUBSET T : f[S] = IF S = {} THEN graph ELSE PrecedingAll(f[S \ {Max(S)}], from[Max(S)], to)
    BY <1>12, <1>13
  <2> QED BY <1>4, <2>1
<1>15. Draws(f, T, n, c, E)
  <2>1. ASSUME NEW S \in SUBSET T, S # {}, f[S \ {c[S]}] \in V
        PROVE  Drawn(n, f[S \ {c[S]}], E[c[S]], f[S])
    <3>1. PICK i \in T : i = c[S]
      BY <1>5, <2>1
    <3>2. PICK v \in V : v = f[S \ {c[S]}]
      BY <2>1
    <3>3. f[S] = PrecedingAll(v, from[i], to)
      BY <1>14, <2>1, <3>1, <3>2
    <3>4. Drawn(n, v, E[i], PrecedingAll(v, from[i], to))
      BY <1>7
    <3> QED BY <3>1, <3>2, <3>3, <3>4
  <2> QED BY <1>5, <2>1 DEF Draws
<1>16. Drawn(n, graph, Joined(E, T), f[T])
  <2>1. f[{}] = graph
    BY <1>14
  <2> QED BY <1>1, <1>15, <2>1, FoldDraws
<1>17. Joined(E, T) = ToSet(from) \X ToSet(to)
  <2>1. Joined(E, T) = UNION {{from[i]} \X ToSet(to) : i \in T}
    BY <1>6 DEF Joined
  <2>2. ToSet(from) = {from[i] : i \in T}
    BY <1>1 DEF ToSet
  <2> QED BY <2>1, <2>2
<1> QED BY <1>2, <1>13, <1>16, <1>17

\* The source, as its builder leaves it: numbered from one, its edges inside.
SourceShape ==
  /\ source \in Seq(Node)
  /\ \A i \in 1 .. Len(source) :
       source[i].id = i /\ IsFiniteSet(source[i].succ) /\ source[i].succ \subseteq 1 .. Len(source)

\* The edges of a copy that begins after base tasks.
SourceEdges(base) == UNION {EdgesCopied(base, source[i]) : i \in 1 .. Len(source)}

\* The second pass draws the edges of the source between the copies.
LEMMA SecondPassDraws ==
  ASSUME NEW n \in Nat, NEW t, Len(t) \in Nat, SourceShape, n = Len(t) + Len(source),
         NEW graph \in [1 .. n -> Node], graph = CopiedTasks(t)
  PROVE  Drawn(n, graph, SourceEdges(Len(t)), CloneGraphInto(t))
<1> DEFINE T == 1 .. Len(source)
           V == [1 .. n -> Node]
           iter == CHOOSE f : f = [S \in SUBSET T |->
                     IF S = {} THEN graph ELSE CopiedEdges(f[S \ {Max(S)}], Len(t), source[Max(S)])]
<1>1. Len(source) \in Nat /\ DOMAIN source = T /\ IsFiniteSet(T)
  <2>1. Len(source) \in Nat /\ DOMAIN source = T
    BY LenProperties DEF SourceShape
  <2> QED BY <2>1, IntervalSize
<1>2. CloneGraphInto(t) = iter[T]
  BY <1>1 DEF CloneGraphInto, FoldLeft, MapThenFoldSet
<1>3. PICK c : c = [S \in SUBSET T |-> Max(S)]
  OBVIOUS
<1>4. \A S \in SUBSET T : c[S] = Max(S)
  BY <1>3
<1>5. \A S \in SUBSET T : S # {} => c[S] \in S
  BY <1>1, <1>4, GreatestIn
<1>6. PICK E : E = [i \in T |-> EdgesCopied(Len(t), source[i])]
  OBVIOUS
<1>7. ASSUME NEW i \in T, NEW v \in V
      PROVE  Drawn(n, v, E[i], CopiedEdges(v, Len(t), source[i]))
  <2>1. PICK node \in Node : node = source[i]
    BY <1>1 DEF SourceShape
  <2>2. IsFiniteSet(node.succ) /\ Len(t) + node.id \in 1 .. n /\ \A s \in node.succ : Len(t) + s \in 1 .. n
    BY <1>1, <2>1 DEF SourceShape
  <2>3. Drawn(n, v, EdgesCopied(Len(t), node), CopiedEdges(v, Len(t), node))
    BY <2>2, CopiedEdgesDraws
  <2> QED BY <1>6, <2>1, <2>3
<1> HIDE DEF T
<1>8. PICK h \in [T \X V -> V] : \A i \in T : \A v \in V : h[<<i, v>>] = CopiedEdges(v, Len(t), source[i])
  <2>1. PICK h : h = [z \in T \X V |-> CopiedEdges(z[2], Len(t), source[z[1]])]
    OBVIOUS
  <2>2. \A i \in T : \A v \in V : h[<<i, v>>] = CopiedEdges(v, Len(t), source[i])
    BY <2>1
  <2>3. ASSUME NEW i \in T, NEW v \in V PROVE h[<<i, v>>] \in V
    <3>1. Drawn(n, v, E[i], h[<<i, v>>])
      BY <1>7, <2>2
    <3> QED BY <3>1 DEF Drawn
  <2>4. DOMAIN h = T \X V /\ h = [z \in T \X V |-> h[z]]
    BY <2>1
  <2>5. ASSUME NEW z \in T \X V PROVE h[z] \in V
    <3>1. PICK i \in T, v \in V : z = <<i, v>>
      OBVIOUS
    <3> QED BY <2>3, <3>1
  <2> QED BY <2>2, <2>4, <2>5
<1>9. PICK k : Folds(k, T, V, graph, c, h)
  BY <1>1, <1>5, FoldExists
<1>10. \A S \in SUBSET T : k[S] = IF S = {} THEN graph ELSE CopiedEdges(k[S \ {c[S]}], Len(t), source[c[S]])
  <2>1. k \in [SUBSET T -> V] /\ \A S \in SUBSET T : k[S] = IF S = {} THEN graph ELSE h[<<c[S], k[S \ {c[S]}]>>]
    BY <1>9 DEF Folds
  <2>2. \A S \in SUBSET T : S # {} => c[S] \in T /\ k[S \ {c[S]}] \in V
    BY <1>5, <2>1
  <2> QED BY <1>8, <2>1, <2>2
<1>11. k = [S \in SUBSET T |-> IF S = {} THEN graph ELSE CopiedEdges(k[S \ {Max(S)}], Len(t), source[Max(S)])]
  <2>1. DOMAIN k = SUBSET T /\ k = [S \in SUBSET T |-> k[S]]
    BY <1>9 DEF Folds
  <2> QED BY <1>4, <1>10, <2>1
<1>12. iter = [S \in SUBSET T |-> IF S = {} THEN graph ELSE CopiedEdges(iter[S \ {Max(S)}], Len(t), source[Max(S)])]
  BY <1>11
<1> HIDE DEF iter
<1>13. PICK f : f = iter
  OBVIOUS
<1>14. \A S \in SUBSET T : f[S] = IF S = {} THEN graph ELSE CopiedEdges(f[S \ {c[S]}], Len(t), source[c[S]])
  <2>1. \A S \in SUBSET T : f[S] = IF S = {} THEN graph ELSE CopiedEdges(f[S \ {Max(S)}], Len(t), source[Max(S)])
    BY <1>12, <1>13
  <2> QED BY <1>4, <2>1
<1>15. Draws(f, T, n, c, E)
  <2>1. ASSUME NEW S \in SUBSET T, S # {}, f[S \ {c[S]}] \in V
        PROVE  Drawn(n, f[S \ {c[S]}], E[c[S]], f[S])
    <3>1. PICK i \in T : i = c[S]
      BY <1>5, <2>1
    <3>2. PICK v \in V : v = f[S \ {c[S]}]
      BY <2>1
    <3>3. f[S] = CopiedEdges(v, Len(t), source[i])
      BY <1>14, <2>1, <3>1, <3>2
    <3>4. Drawn(n, v, E[i], CopiedEdges(v, Len(t), source[i]))
      BY <1>7
    <3> QED BY <3>1, <3>2, <3>3, <3>4
  <2> QED BY <1>5, <2>1 DEF Draws
<1>16. Drawn(n, graph, Joined(E, T), f[T])
  <2>1. f[{}] = graph
    BY <1>14
  <2> QED BY <1>1, <1>15, <2>1, FoldDraws
<1>17. Joined(E, T) = SourceEdges(Len(t))
  BY <1>6 DEF Joined, SourceEdges, T
<1> QED BY <1>2, <1>13, <1>16, <1>17

\* A function on the first n positions is a sequence of length n.
LEMMA GraphLen ==
  ASSUME NEW n \in Nat, NEW g \in [1 .. n -> Node]
  PROVE  g \in Seq(Node) /\ Len(g) = n
<1>1. g \in Seq(Node)
  BY SeqDef
<1>2. Len(g) \in Nat /\ DOMAIN g = 1 .. Len(g)
  BY <1>1, LenProperties
<1>3. 1 .. Len(g) = 1 .. n
  BY <1>2
<1>4. Cardinality(1 .. n) = n /\ Cardinality(1 .. Len(g)) = Len(g)
  BY <1>2, IntervalSize
<1> QED BY <1>1, <1>3, <1>4

\* emplace adds a task without edges after the others.
Fresh(x, id, name, work) ==
  /\ x \in Node /\ x.id = id /\ x.name = name /\ x.work = work
  /\ x.succ = {} /\ x.deps = {} /\ x.numDeps = 0

Extended(n, g, name, work, r) ==
  /\ r \in [1 .. n + 1 -> Node]
  /\ \A p \in 1 .. n : r[p] = g[p]
  /\ Fresh(r[n + 1], n + 1, name, work)

LEMMA EmplacedExtends ==
  ASSUME NEW n \in Nat, NEW g \in [1 .. n -> Node], NEW work \in Works
  PROVE  Extended(n, g, <<"task", n + 1>>, work, Emplaced(g, work))
<1>1. PICK x : x = [id |-> n + 1, name |-> <<"task", n + 1>>, work |-> work,
                    succ |-> {}, deps |-> {}, numDeps |-> 0]
  OBVIOUS
<1>2. <<"task", n + 1>> \in Names
  BY DEF Names
<1>3. Fresh(x, n + 1, <<"task", n + 1>>, work)
  BY <1>1, <1>2 DEF Fresh, Node
<1>4. g \in Seq(Node) /\ Len(g) = n /\ x \in Node
  BY <1>3, GraphLen DEF Fresh
<1>5. PICK r : r = Append(g, x)
  OBVIOUS
<1>6. r = Emplaced(g, work)
  BY <1>1, <1>4, <1>5 DEF Emplaced
<1>7. /\ r \in Seq(Node) /\ Len(r) = n + 1
      /\ \A p \in 1 .. n : r[p] = g[p]
      /\ r[n + 1] = x
  BY <1>4, <1>5, AppendProperties
<1>8. r \in [1 .. n + 1 -> Node]
  BY <1>7, LenProperties
<1> QED BY <1>3, <1>6, <1>7, <1>8 DEF Extended

LEMMA NamedExtends ==
  ASSUME NEW n \in Nat, NEW g, NEW name, NEW work, NEW r, Extended(n, g, name, work, r),
         NEW other \in Names
  PROVE  Extended(n, g, other, work, Named(r, n + 1, other))
<1>1. PICK x : x = [r[n + 1] EXCEPT !.name = other]
  OBVIOUS
<1>2. r \in [1 .. n + 1 -> Node] /\ Fresh(r[n + 1], n + 1, name, work) /\ n + 1 \in 1 .. n + 1
  BY DEF Extended
<1>3. Fresh(x, n + 1, other, work)
  BY <1>1, <1>2 DEF Fresh, Node
<1>4. x \in Node
  BY <1>3 DEF Fresh
<1>5. PICK f : f = [r EXCEPT ![n + 1] = x]
  OBVIOUS
<1>6. f = Named(r, n + 1, other)
  BY <1>1, <1>5 DEF Named
<1>7. f \in [1 .. n + 1 -> Node] /\ f[n + 1] = x
  BY <1>2, <1>4, <1>5
<1>8. \A p \in 1 .. n : f[p] = r[p]
  <2>1. \A p \in 1 .. n : p \in 1 .. n + 1 /\ p # n + 1
    OBVIOUS
  <2> QED BY <1>2, <1>5, <2>1
<1>9. \A p \in 1 .. n : r[p] = g[p]
  BY DEF Extended
<1> QED BY <1>3, <1>6, <1>7, <1>8, <1>9 DEF Extended

\* What becomes of a closure that is copied.
WorkOf(node) == IF node.id \in cloneable THEN Shared(node.id) ELSE Placeholder(node.name)

LEMMA CopiedTaskExtends ==
  ASSUME NEW n \in Nat, NEW g \in [1 .. n -> Node], NEW node \in Node
  PROVE  Extended(n, g, node.name, WorkOf(node), CopiedTask(g, node))
<1>1. node.id \in Nat /\ node.name \in Names /\ WorkOf(node) \in Works
  BY DEF Node, WorkOf, Works
<1>2. PICK w \in Works : w = WorkOf(node)
  BY <1>1
<1>3. PICK r : r = Emplaced(g, w)
  OBVIOUS
<1>4. Extended(n, g, <<"task", n + 1>>, w, r)
  BY <1>3, EmplacedExtends
<1>5. Extended(n, g, node.name, w, Named(r, n + 1, node.name))
  BY <1>1, <1>4, NamedExtends
<1>6. Len(g) = n
  BY GraphLen
<1> QED BY <1>2, <1>3, <1>5, <1>6 DEF CopiedTask, WorkOf

\* The first pass: a task without edges for each of the source's first i.
Grown(n, g, i, r) ==
  /\ r \in [1 .. n + i -> Node]
  /\ \A p \in 1 .. n : r[p] = g[p]
  /\ \A j \in 1 .. i : Fresh(r[n + j], n + j, source[j].name, WorkOf(source[j]))

LEMMA GrownMore ==
  ASSUME NEW n \in Nat, NEW g, NEW i \in Nat, NEW r, Grown(n, g, i, r), NEW s,
         Extended(n + i, r, source[i + 1].name, WorkOf(source[i + 1]), s)
  PROVE  Grown(n, g, i + 1, s)
<1>1. /\ s \in [1 .. (n + i) + 1 -> Node]
      /\ \A p \in 1 .. n + i : s[p] = r[p]
      /\ Fresh(s[(n + i) + 1], (n + i) + 1, source[i + 1].name, WorkOf(source[i + 1]))
  BY DEF Extended
<1>2. (n + i) + 1 = n + (i + 1) /\ 1 .. n \subseteq 1 .. n + i
  OBVIOUS
<1>3. \A p \in 1 .. n : s[p] = g[p]
  BY <1>1, <1>2 DEF Grown
<1>4. ASSUME NEW j \in 1 .. i + 1
      PROVE  Fresh(s[n + j], n + j, source[j].name, WorkOf(source[j]))
  <2>1. CASE j = i + 1
    BY <1>1, <1>2, <2>1
  <2>2. CASE j # i + 1
    <3>1. j \in 1 .. i /\ n + j \in 1 .. n + i
      BY <2>2
    <3>2. s[n + j] = r[n + j]
      BY <1>1, <3>1
    <3> QED BY <3>1, <3>2 DEF Grown
  <2> QED BY <2>1, <2>2
<1> QED BY <1>1, <1>2, <1>3, <1>4 DEF Grown

LEMMA CopiedTasksGrow ==
  ASSUME NEW n \in Nat, NEW graph \in [1 .. n -> Node], SourceShape
  PROVE  Grown(n, graph, Len(source), CopiedTasks(graph))
<1> DEFINE T == 1 .. Len(source)
           V == Seq(Node)
           iter == CHOOSE f : f = [S \in SUBSET T |->
                     IF S = {} THEN graph ELSE CopiedTask(f[S \ {Max(S)}], source[Max(S)])]
<1>1. Len(source) \in Nat /\ DOMAIN source = T /\ IsFiniteSet(T)
  <2>1. Len(source) \in Nat /\ DOMAIN source = T
    BY LenProperties DEF SourceShape
  <2> QED BY <2>1, IntervalSize
<1>2. CopiedTasks(graph) = iter[T]
  BY <1>1 DEF CopiedTasks, FoldLeft, MapThenFoldSet
<1>3. PICK c : c = [S \in SUBSET T |-> Max(S)]
  OBVIOUS
<1>4. \A S \in SUBSET T : c[S] = Max(S)
  BY <1>3
<1>5. \A S \in SUBSET T : S # {} => c[S] \in S
  BY <1>1, <1>4, GreatestIn
<1>6. \A i \in T : source[i] \in Node
  BY <1>1 DEF SourceShape
<1>7. PICK h \in [T \X V -> V] : \A i \in T : \A v \in V : h[<<i, v>>] = CopiedTask(v, source[i])
  <2> HIDE DEF T
  <2>1. PICK h : h = [z \in T \X V |-> CopiedTask(z[2], source[z[1]])]
    OBVIOUS
  <2>2. \A i \in T : \A v \in V : h[<<i, v>>] = CopiedTask(v, source[i])
    BY <2>1
  <2>3. ASSUME NEW i \in T, NEW v \in V PROVE h[<<i, v>>] \in V
    <3>1. PICK m \in Nat : m = Len(v) /\ v \in [1 .. m -> Node]
      BY LenProperties
    <3>2. PICK node \in Node : node = source[i]
      BY <1>6
    <3>3. Extended(m, v, node.name, WorkOf(node), CopiedTask(v, node))
      BY <3>1, CopiedTaskExtends
    <3>4. CopiedTask(v, node) \in [1 .. m + 1 -> Node] /\ m + 1 \in Nat
      BY <3>3 DEF Extended
    <3>5. CopiedTask(v, node) \in Seq(Node)
      BY <3>4, GraphLen
    <3> QED BY <2>2, <3>2, <3>5
  <2>4. DOMAIN h = T \X V /\ h = [z \in T \X V |-> h[z]]
    BY <2>1
  <2>5. ASSUME NEW z \in T \X V PROVE h[z] \in V
    <3>1. PICK i \in T, v \in V : z = <<i, v>>
      OBVIOUS
    <3> QED BY <2>3, <3>1
  <2> QED BY <2>2, <2>4, <2>5
<1>8. graph \in V
  BY GraphLen
<1>9. PICK k : Folds(k, T, V, graph, c, h)
  <2> HIDE DEF T, V
  <2> QED BY <1>1, <1>5, <1>8, FoldExists
<1>10. \A S \in SUBSET T : k[S] = IF S = {} THEN graph ELSE CopiedTask(k[S \ {c[S]}], source[c[S]])
  <2>1. k \in [SUBSET T -> V] /\ \A S \in SUBSET T : k[S] = IF S = {} THEN graph ELSE h[<<c[S], k[S \ {c[S]}]>>]
    BY <1>9 DEF Folds
  <2>2. \A S \in SUBSET T : S # {} => c[S] \in T /\ k[S \ {c[S]}] \in V
    BY <1>5, <2>1
  <2> HIDE DEF T, V
  <2> QED BY <1>7, <2>1, <2>2
<1>11. k = [S \in SUBSET T |-> IF S = {} THEN graph ELSE CopiedTask(k[S \ {Max(S)}], source[Max(S)])]
  <2> HIDE DEF T, V
  <2>1. DOMAIN k = SUBSET T /\ k = [S \in SUBSET T |-> k[S]]
    BY <1>9 DEF Folds
  <2> QED BY <1>4, <1>10, <2>1
<1>12. iter = [S \in SUBSET T |-> IF S = {} THEN graph ELSE CopiedTask(iter[S \ {Max(S)}], source[Max(S)])]
  <2> HIDE DEF T, V
  <2> QED BY <1>11
<1> HIDE DEF iter
<1>13. PICK f : f = iter
  OBVIOUS
<1>14. \A S \in SUBSET T : f[S] = IF S = {} THEN graph ELSE CopiedTask(f[S \ {Max(S)}], source[Max(S)])
  <2> HIDE DEF T, V
  <2> QED BY <1>12, <1>13
<1> HIDE DEF V
<1>15. f[1 .. 0] = graph
  <2>1. 1 .. 0 = {} /\ {} \in SUBSET T
    OBVIOUS
  <2> HIDE DEF T
  <2> QED BY <1>14, <2>1
<1>16. ASSUME NEW i \in Nat, i + 1 <= Len(source)
       PROVE  f[1 .. i + 1] = CopiedTask(f[1 .. i], source[i + 1])
  <2>1. PICK S \in SUBSET T : S = 1 .. i + 1
    BY <1>1, <1>16
  <2>2. i + 1 \in S /\ S # {}
    <3>1. i + 1 \in 1 .. i + 1
      OBVIOUS
    <3>2. i + 1 \in S
      BY <2>1, <3>1
    <3> QED BY <3>2
  <2>3. Max(S) \in S /\ \A y \in S : Max(S) >= y
    BY <1>1, <2>2, GreatestIn
  <2>4. Max(S) = i + 1
    BY <2>1, <2>2, <2>3
  <2>5. S \ {i + 1} = 1 .. i
    <3>1. (1 .. i + 1) \ {i + 1} = 1 .. i
      OBVIOUS
    <3> QED BY <2>1, <3>1
  <2>6. f[S] = CopiedTask(f[S \ {Max(S)}], source[Max(S)])
    BY <1>14, <2>2
  <2> QED BY <2>1, <2>4, <2>5, <2>6
<1> DEFINE N == {i \in Nat : i <= Len(source) => Grown(n, graph, i, f[1 .. i])}
<1>17. 0 \in N
  <2>1. n + 0 = n /\ 1 .. 0 = {}
    OBVIOUS
  <2>2. Grown(n, graph, 0, graph)
    BY <2>1 DEF Grown
  <2> QED BY <1>15, <2>2
<1>18. ASSUME NEW i \in N \cap Nat PROVE i + 1 \in N
  <2>1. i <= Len(source) => Grown(n, graph, i, f[1 .. i])
    BY <1>18
  <2> HIDE DEF N
  <2> SUFFICES ASSUME i + 1 <= Len(source) PROVE Grown(n, graph, i + 1, f[1 .. i + 1])
    BY DEF N
  <2>2. PICK v : v = f[1 .. i]
    OBVIOUS
  <2>3. Grown(n, graph, i, v)
    BY <1>1, <2>1, <2>2
  <2>4. PICK node \in Node : node = source[i + 1]
    BY <1>1, <1>6
  <2>5. PICK m \in Nat : m = n + i
    OBVIOUS
  <2>6. v \in [1 .. m -> Node]
    BY <2>3, <2>5 DEF Grown
  <2>7. Extended(m, v, node.name, WorkOf(node), CopiedTask(v, node))
    BY <2>6, CopiedTaskExtends
  <2>8. Grown(n, graph, i + 1, CopiedTask(v, node))
    BY <2>3, <2>4, <2>5, <2>7, GrownMore
  <2> QED BY <1>16, <2>2, <2>4, <2>8
<1> HIDE DEF N
<1>19. Nat \subseteq N
  BY <1>17, <1>18, SetInduction
<1>20. Len(source) \in N
  BY <1>1, <1>19
<1>21. Grown(n, graph, Len(source), f[T])
  BY <1>1, <1>20 DEF N
<1> QED BY <1>2, <1>13, <1>21

\* A graph of m tasks, numbered from one, whose edges are known at both of their
\* ends and counted once.
GraphIs(m, t) ==
  /\ t \in [1 .. m -> Node]
  /\ \A p \in 1 .. m :
       /\ t[p].id = p
       /\ t[p].succ \subseteq 1 .. m
       /\ t[p].deps = {q \in 1 .. m : p \in t[q].succ}
       /\ Counted(t[p])

LEMMA DrawnGraph ==
  ASSUME NEW m \in Nat, NEW g, GraphIs(m, g), NEW E, NEW r, Drawn(m, g, E, r)
  PROVE  GraphIs(m, r)
<1>1. r \in [1 .. m -> Node]
  BY DEF Drawn
<1>2. ASSUME NEW p \in 1 .. m
      PROVE  r[p].id = p /\ r[p].succ \subseteq 1 .. m /\ Counted(r[p])
  <2>1. g[p].id = p /\ g[p].succ \subseteq 1 .. m /\ Counted(g[p])
    BY DEF GraphIs
  <2>2. /\ r[p].id = g[p].id /\ (Counted(g[p]) => Counted(r[p]))
        /\ r[p].succ = g[p].succ \cup {s \in 1 .. m : <<p, s>> \in E}
    BY DEF Drawn
  <2> QED BY <2>1, <2>2
<1>3. ASSUME NEW p \in 1 .. m
      PROVE  r[p].deps = {q \in 1 .. m : p \in r[q].succ}
  <2>1. r[p].deps = g[p].deps \cup {q \in 1 .. m : <<q, p>> \in E}
    BY DEF Drawn
  <2>2. g[p].deps = {q \in 1 .. m : p \in g[q].succ}
    BY DEF GraphIs
  <2>3. \A q \in 1 .. m : r[q].succ = g[q].succ \cup {s \in 1 .. m : <<q, s>> \in E}
    BY DEF Drawn
  <2>4. \A q \in 1 .. m : p \in r[q].succ <=> p \in g[q].succ \/ <<q, p>> \in E
    BY <2>3
  <2> QED BY <2>1, <2>2, <2>4
<1> QED BY <1>1, <1>2, <1>3 DEF GraphIs

\* g is t with tasks that have no edges after its n.
Longer(n, t, m, g) ==
  /\ g \in [1 .. m -> Node]
  /\ \A p \in 1 .. n : g[p] = t[p]
  /\ \A p \in (1 .. m) \ (1 .. n) : g[p].id = p /\ g[p].succ = {} /\ g[p].deps = {} /\ g[p].numDeps = 0

LEMMA LongerGraph ==
  ASSUME NEW n \in Nat, NEW m \in Nat, n <= m, NEW t, GraphIs(n, t), NEW g, Longer(n, t, m, g)
  PROVE  GraphIs(m, g)
<1>1. /\ g \in [1 .. m -> Node]
      /\ \A p \in 1 .. n : g[p] = t[p]
      /\ \A p \in (1 .. m) \ (1 .. n) : g[p].id = p /\ g[p].succ = {} /\ g[p].deps = {} /\ g[p].numDeps = 0
  BY DEF Longer
<1>2. 1 .. n \subseteq 1 .. m
  OBVIOUS
<1>3. ASSUME NEW p \in 1 .. n
      PROVE  /\ g[p].id = p /\ g[p].succ \subseteq 1 .. m /\ Counted(g[p])
             /\ g[p].deps = {q \in 1 .. m : p \in g[q].succ}
  <2>1. /\ t[p].id = p /\ t[p].succ \subseteq 1 .. n /\ Counted(t[p])
        /\ t[p].deps = {q \in 1 .. n : p \in t[q].succ}
    BY DEF GraphIs
  <2>2. \A q \in 1 .. m : p \in g[q].succ <=> q \in 1 .. n /\ p \in t[q].succ
    BY <1>1, <1>2
  <2>3. g[p].deps = {q \in 1 .. m : p \in g[q].succ}
    BY <1>1, <1>2, <2>1, <2>2
  <2> QED BY <1>1, <1>2, <2>1, <2>3
<1>4. ASSUME NEW p \in (1 .. m) \ (1 .. n)
      PROVE  /\ g[p].id = p /\ g[p].succ \subseteq 1 .. m /\ Counted(g[p])
             /\ g[p].deps = {q \in 1 .. m : p \in g[q].succ}
  <2>1. \A q \in 1 .. n : t[q].succ \subseteq 1 .. n
    BY DEF GraphIs
  <2>2. \A q \in 1 .. m : p \notin g[q].succ
    BY <1>1, <2>1
  <2>3. Counted(g[p])
    BY <1>1, FS_EmptySet DEF Counted
  <2> QED BY <1>1, <2>2, <2>3
<1> QED BY <1>1, <1>3, <1>4 DEF GraphIs

LEMMA GrownGraph ==
  ASSUME NEW n \in Nat, NEW t, GraphIs(n, t), NEW l \in Nat, NEW g, Grown(n, t, l, g)
  PROVE  GraphIs(n + l, g)
<1>1. /\ g \in [1 .. n + l -> Node]
      /\ \A p \in 1 .. n : g[p] = t[p]
      /\ \A j \in 1 .. l : /\ g[n + j].id = n + j /\ g[n + j].succ = {}
                           /\ g[n + j].deps = {} /\ g[n + j].numDeps = 0
  BY DEF Grown, Fresh
<1>2. \A p \in (1 .. n + l) \ (1 .. n) : p - n \in 1 .. l /\ n + (p - n) = p
  OBVIOUS
<1>3. ASSUME NEW p \in (1 .. n + l) \ (1 .. n)
      PROVE  g[p].id = p /\ g[p].succ = {} /\ g[p].deps = {} /\ g[p].numDeps = 0
  <2>1. PICK j \in 1 .. l : n + j = p
    BY <1>2
  <2>2. /\ g[n + j].id = n + j /\ g[n + j].succ = {} /\ g[n + j].deps = {} /\ g[n + j].numDeps = 0
    BY <1>1
  <2> QED BY <2>1, <2>2
<1>4. PICK m \in Nat : m = n + l /\ n <= m
  OBVIOUS
<1>5. Longer(n, t, m, g)
  BY <1>1, <1>3, <1>4 DEF Longer
<1> QED BY <1>4, <1>5, LongerGraph

LEMMA ExtendedGraph ==
  ASSUME NEW n \in Nat, NEW t, GraphIs(n, t), NEW name, NEW work, NEW g, Extended(n, t, name, work, g)
  PROVE  GraphIs(n + 1, g)
<1>1. PICK m \in Nat : m = n + 1 /\ n <= m
  OBVIOUS
<1>2. \A p \in (1 .. m) \ (1 .. n) : p = m
  BY <1>1
<1>3. Longer(n, t, m, g)
  BY <1>1, <1>2 DEF Extended, Fresh, Longer
<1> QED BY <1>1, <1>3, LongerGraph

\* The tasks of a copy that begins after base tasks of l.
Inside(l, base) == base + 1 .. base + l

\* The edges that a call asks for.
Links(c) == ToSet(c.before) \X ToSet(c.entries) \cup ToSet(c.exits) \X ToSet(c.after)

\* A copy of l tasks at the end of n: its edges lead from them or to them.
CopyIs(l, n, c) ==
  /\ c.base = n
  /\ ToSet(c.entries) \subseteq Inside(l, n) /\ ToSet(c.exits) \subseteq Inside(l, n)
  /\ ToSet(c.before) \subseteq 1 .. n /\ ToSet(c.after) \subseteq 1 .. n
  /\ ToSet(c.before) = {} \/ ToSet(c.after) = {}

\* The graph r is t of n tasks and the copy c.
Composed(n, t, c, r) ==
  /\ r \in [1 .. n + Len(source) -> Node]
  /\ \A p \in 1 .. n :
       /\ r[p].work = t[p].work /\ r[p].name = t[p].name
       /\ r[p].succ = t[p].succ \cup {s \in 1 .. n + Len(source) : <<p, s>> \in Links(c)}
  /\ \A j \in 1 .. Len(source) :
       /\ r[n + j].work = WorkOf(source[j]) /\ r[n + j].name = source[j].name
       /\ r[n + j].succ = {n + s : s \in source[j].succ}
                            \cup {s \in 1 .. n + Len(source) : <<n + j, s>> \in Links(c)}

LEMMA ComposedIs ==
  ASSUME NEW n \in Nat, NEW t, SourceShape, NEW g, Grown(n, t, Len(source), g), NEW c, NEW r,
         Drawn(n + Len(source), g, SourceEdges(n) \cup Links(c), r)
  PROVE  Composed(n, t, c, r)
<1>1. PICK l \in Nat : l = Len(source) /\ \A i \in 1 .. l : source[i].id = i /\ source[i].succ \subseteq 1 .. l
  BY LenProperties DEF SourceShape
<1>2. /\ r \in [1 .. n + l -> Node]
      /\ \A p \in 1 .. n + l :
           /\ r[p].name = g[p].name /\ r[p].work = g[p].work
           /\ r[p].succ = g[p].succ \cup {s \in 1 .. n + l : <<p, s>> \in SourceEdges(n) \cup Links(c)}
  BY <1>1 DEF Drawn
<1>3. /\ \A e \in SourceEdges(n) : \E i \in 1 .. l : \E u \in source[i].succ : e = <<n + i, n + u>>
      /\ \A i \in 1 .. l : \A u \in source[i].succ : <<n + i, n + u>> \in SourceEdges(n)
  <2>1. SourceEdges(n) = UNION {{<<n + i, n + u>> : u \in source[i].succ} : i \in 1 .. l}
    BY <1>1 DEF SourceEdges, EdgesCopied
  <2> QED BY <2>1
<1>4. ASSUME NEW p \in 1 .. n
      PROVE  /\ r[p].work = t[p].work /\ r[p].name = t[p].name
             /\ r[p].succ = t[p].succ \cup {s \in 1 .. n + l : <<p, s>> \in Links(c)}
  <2>1. p \in 1 .. n + l /\ g[p] = t[p]
    BY <1>1 DEF Grown
  <2>2. ASSUME NEW s, <<p, s>> \in SourceEdges(n) PROVE FALSE
    <3>1. PICK i \in 1 .. l : \E u \in source[i].succ : <<p, s>> = <<n + i, n + u>>
      BY <1>3, <2>2
    <3>2. p = n + i
      BY <3>1
    <3> QED BY <3>2
  <2> QED BY <1>2, <2>1, <2>2
<1>5. ASSUME NEW j \in 1 .. l
      PROVE  /\ r[n + j].work = WorkOf(source[j]) /\ r[n + j].name = source[j].name
             /\ r[n + j].succ = {n + s : s \in source[j].succ}
                                  \cup {s \in 1 .. n + l : <<n + j, s>> \in Links(c)}
  <2>1. /\ n + j \in 1 .. n + l
        /\ g[n + j].work = WorkOf(source[j]) /\ g[n + j].name = source[j].name /\ g[n + j].succ = {}
    BY <1>1 DEF Grown, Fresh
  <2>2. \A s \in 1 .. n + l : <<n + j, s>> \in SourceEdges(n) <=> \E u \in source[j].succ : s = n + u
    <3> SUFFICES ASSUME NEW s \in 1 .. n + l
                 PROVE  <<n + j, s>> \in SourceEdges(n) <=> \E u \in source[j].succ : s = n + u
      OBVIOUS
    <3>1. ASSUME <<n + j, s>> \in SourceEdges(n) PROVE \E u \in source[j].succ : s = n + u
      <4>1. PICK i \in 1 .. l : \E u \in source[i].succ : <<n + j, s>> = <<n + i, n + u>>
        BY <1>3, <3>1
      <4>2. n + j = n + i /\ \E u \in source[i].succ : s = n + u
        BY <4>1
      <4>3. j = i
        BY <4>2
      <4> QED BY <4>2, <4>3
    <3>2. ASSUME NEW u \in source[j].succ, s = n + u PROVE <<n + j, s>> \in SourceEdges(n)
      BY <1>3, <3>2
    <3> QED BY <3>1, <3>2
  <2>3. \A u \in source[j].succ : n + u \in 1 .. n + l
    BY <1>1
  <2>4. {s \in 1 .. n + l : <<n + j, s>> \in SourceEdges(n) \cup Links(c)}
          = {n + s : s \in source[j].succ} \cup {s \in 1 .. n + l : <<n + j, s>> \in Links(c)}
    BY <2>2, <2>3
  <2> QED BY <1>2, <2>1, <2>4
<1> QED BY <1>1, <1>2, <1>4, <1>5 DEF Composed

\* The builder's state: the source is numbered from one, its edges lead to later
\* tasks, and what is cloneable, an entry or an exit is one of its tasks.
SourceIs(src, clo, ent, exi) ==
  /\ src \in Seq(Node)
  /\ \A i \in 1 .. Len(src) :
       /\ src[i].id = i /\ src[i].succ \subseteq i + 1 .. Len(src)
       /\ i \in clo => src[i].work = Shared(i)
  /\ clo \subseteq 1 .. Len(src)
  /\ ent \in Seq(1 .. Len(src)) /\ exi \in Seq(1 .. Len(src))
SourceInv == SourceIs(source, cloneable, entries, exits)

LEMMA SourceFacts ==
  ASSUME SourceInv
  PROVE  /\ SourceShape
         /\ Len(source) \in Nat
         /\ \A i \in 1 .. Len(source) :
              /\ source[i].id = i /\ source[i].succ \subseteq i + 1 .. Len(source)
              /\ WorkOf(source[i]) = IF i \in cloneable THEN source[i].work ELSE Placeholder(source[i].name)
<1>1. /\ source \in Seq(Node)
      /\ \A i \in 1 .. Len(source) :
           /\ source[i].id = i /\ source[i].succ \subseteq i + 1 .. Len(source)
           /\ i \in cloneable => source[i].work = Shared(i)
  BY DEF SourceInv, SourceIs
<1>2. Len(source) \in Nat
  BY <1>1, LenProperties
<1>3. IsFiniteSet(1 .. Len(source))
  BY <1>2, IntervalSize
<1>4. \A i \in 1 .. Len(source) : source[i].succ \subseteq 1 .. Len(source)
  BY <1>1, <1>2
<1>5. \A i \in 1 .. Len(source) : IsFiniteSet(source[i].succ)
  BY <1>3, <1>4, FS_Subset
<1>6. \A i \in 1 .. Len(source) :
        WorkOf(source[i]) = IF i \in cloneable THEN source[i].work ELSE Placeholder(source[i].name)
  BY <1>1 DEF WorkOf
<1> QED BY <1>1, <1>2, <1>4, <1>5, <1>6 DEF SourceShape

\* Every set of tasks has one without an edge to the others.
Acyclic(m, t) == \A S \in SUBSET (1 .. m) : S # {} => \E p \in S : t[p].succ \cap S = {}

\* What an edge of a copy's call joins: a task of the target and one of the copy.
LEMMA LinkEnds ==
  ASSUME NEW l \in Nat, NEW n \in Nat, NEW c, CopyIs(l, n, c), NEW p, NEW s, <<p, s>> \in Links(c)
  PROVE  \/ p \in 1 .. n /\ s \in Inside(l, n) /\ ToSet(c.after) = {}
         \/ p \in Inside(l, n) /\ s \in 1 .. n /\ ToSet(c.before) = {}
<1>1. \/ p \in ToSet(c.before) /\ s \in ToSet(c.entries)
      \/ p \in ToSet(c.exits) /\ s \in ToSet(c.after)
  BY DEF Links
<1> QED BY <1>1 DEF CopyIs

LEMMA AcyclicComposed ==
  ASSUME NEW n \in Nat, NEW t, GraphIs(n, t), Acyclic(n, t), SourceInv,
         NEW c, CopyIs(Len(source), n, c), NEW r, Composed(n, t, c, r)
  PROVE  Acyclic(n + Len(source), r)
<1>1. PICK l \in Nat : l = Len(source)
  BY SourceFacts
<1>2. SUFFICES ASSUME NEW S \in SUBSET (1 .. n + l), S # {}
               PROVE  \E p \in S : r[p].succ \cap S = {}
  BY <1>1 DEF Acyclic
<1> DEFINE old == S \cap (1 .. n)
           new == S \cap Inside(l, n)
<1>3. S = old \cup new
  <2>1. \A p \in 1 .. n + l : p \in 1 .. n \/ p \in n + 1 .. n + l
    OBVIOUS
  <2> QED BY <2>1 DEF Inside
<1>4. \A p \in 1 .. n : r[p].succ = t[p].succ \cup {s \in 1 .. n + l : <<p, s>> \in Links(c)}
  BY <1>1 DEF Composed
<1>5. \A j \in 1 .. l : r[n + j].succ = {n + s : s \in source[j].succ}
                                       \cup {s \in 1 .. n + l : <<n + j, s>> \in Links(c)}
  BY <1>1 DEF Composed
<1>7. (1 .. n) \cap Inside(l, n) = {}
  BY DEF Inside
<1>8. ASSUME old # {} PROVE \E p \in old : t[p].succ \cap S = {}
  <2>1. PICK p \in old : t[p].succ \cap old = {}
    BY <1>8 DEF Acyclic
  <2>2. t[p].succ \subseteq 1 .. n
    BY DEF GraphIs
  <2> QED BY <2>1, <2>2
<1>9. ASSUME new # {} PROVE \E j \in 1 .. l : n + j \in new /\ {n + s : s \in source[j].succ} \cap S = {}
  <2>1. PICK R : R = {j \in 1 .. l : n + j \in new}
    OBVIOUS
  <2>2. R \in SUBSET (1 .. l) /\ R # {}
    <3>1. PICK p \in new : TRUE
      BY <1>9
    <3>2. p - n \in 1 .. l /\ n + (p - n) = p
      BY DEF Inside
    <3> QED BY <2>1, <3>1, <3>2
  <2>3. PICK j \in R : \A i \in R : j >= i
    BY <2>2, GreatestIn
  <2>4. source[j].succ \subseteq j + 1 .. l
    BY <1>1, <2>2, SourceFacts
  <2>5. ASSUME NEW s \in source[j].succ PROVE n + s \notin S
    <3>1. s \in 1 .. l /\ s > j /\ j \in 1 .. l
      BY <2>2, <2>4
    <3>2. n + s \in Inside(l, n)
      BY <3>1 DEF Inside
    <3>3. s \notin R
      BY <2>2, <2>3, <3>1
    <3> QED BY <2>1, <3>1, <3>2, <3>3
  <2> QED BY <2>1, <2>2, <2>5
<1>10. \A j \in 1 .. l : n + j \in Inside(l, n)
  BY DEF Inside
<1>11. ToSet(c.before) = {} \/ ToSet(c.after) = {}
  BY DEF CopyIs
<1> HIDE DEF old, new
<1>12. old \subseteq 1 .. n /\ new \subseteq Inside(l, n) /\ old \subseteq S /\ new \subseteq S
  BY DEF old, new
<1>13. CASE ToSet(c.before) = {}
  <2>1. \A p, s : <<p, s>> \in Links(c) => p \in Inside(l, n) /\ s \in 1 .. n
    <3>2. \A x, s : <<x, s>> \in Links(c) => x \in ToSet(c.exits) /\ s \in ToSet(c.after)
      BY <1>13 DEF Links
    <3> QED BY <1>1, <3>2 DEF CopyIs
  <2>2. CASE old # {}
    <3>1. PICK p \in old : t[p].succ \cap S = {}
      BY <1>8, <2>2
    <3>2. \A s : <<p, s>> \notin Links(c)
      BY <1>7, <1>12, <2>1
    <3>3. r[p].succ = t[p].succ
      BY <1>4, <1>12, <3>2
    <3> QED BY <1>12, <3>1, <3>3
  <2>3. CASE old = {}
    <3>1. PICK j \in 1 .. l : n + j \in new /\ {n + s : s \in source[j].succ} \cap S = {}
      BY <1>2, <1>3, <1>9, <2>3
    <3>2. \A s : <<n + j, s>> \in Links(c) => s \notin S
      BY <2>1, <2>3 DEF old
    <3>3. r[n + j].succ \cap S = {}
      BY <1>5, <3>1, <3>2
    <3> QED BY <1>12, <3>1, <3>3
  <2> QED BY <2>2, <2>3
<1>14. CASE ToSet(c.after) = {}
  <2>1. \A p, s : <<p, s>> \in Links(c) => p \in 1 .. n /\ s \in Inside(l, n)
    <3>2. \A x, s : <<x, s>> \in Links(c) => x \in ToSet(c.before) /\ s \in ToSet(c.entries)
      BY <1>14 DEF Links
    <3> QED BY <1>1, <3>2 DEF CopyIs
  <2>2. CASE new # {}
    <3>1. PICK j \in 1 .. l : n + j \in new /\ {n + s : s \in source[j].succ} \cap S = {}
      BY <1>9, <2>2
    <3>2. \A s : <<n + j, s>> \notin Links(c)
      BY <1>7, <1>10, <2>1
    <3>3. r[n + j].succ \cap S = {}
      BY <1>5, <3>1, <3>2
    <3> QED BY <1>12, <3>1, <3>3
  <2>3. CASE new = {}
    <3>1. PICK p \in old : t[p].succ \cap S = {}
      BY <1>2, <1>3, <1>8, <2>3
    <3>2. \A s : <<p, s>> \in Links(c) => s \notin S
      BY <2>1, <2>3 DEF new
    <3>3. r[p].succ \cap S = {}
      BY <1>4, <1>12, <3>1, <3>2
    <3> QED BY <1>12, <3>1, <3>3
  <2> QED BY <2>2, <2>3
<1> QED BY <1>11, <1>13, <1>14

\* The copy that begins after b is the source over again.
SameFrom(src, clo, t, b) ==
  \A j \in 1 .. Len(src) :
    /\ t[b + j].succ \cap Inside(Len(src), b) = {b + s : s \in src[j].succ}
    /\ t[b + j].name = src[j].name
    /\ t[b + j].work = IF j \in clo THEN src[j].work ELSE Placeholder(src[j].name)

LEMMA SameNew ==
  ASSUME NEW n \in Nat, NEW t, SourceInv, NEW c, CopyIs(Len(source), n, c), NEW r, Composed(n, t, c, r)
  PROVE  SameFrom(source, cloneable, r, n)
<1>1. PICK l \in Nat : l = Len(source)
  BY SourceFacts
<1> SUFFICES ASSUME NEW j \in 1 .. l
             PROVE  /\ r[n + j].succ \cap Inside(l, n) = {n + s : s \in source[j].succ}
                    /\ r[n + j].name = source[j].name
                    /\ r[n + j].work = IF j \in cloneable THEN source[j].work ELSE Placeholder(source[j].name)
  BY <1>1 DEF SameFrom
<1>2. /\ r[n + j].work = WorkOf(source[j]) /\ r[n + j].name = source[j].name
      /\ r[n + j].succ = {n + s : s \in source[j].succ} \cup {s \in 1 .. n + l : <<n + j, s>> \in Links(c)}
  BY <1>1 DEF Composed
<1>3. /\ source[j].succ \subseteq j + 1 .. l
      /\ WorkOf(source[j]) = IF j \in cloneable THEN source[j].work ELSE Placeholder(source[j].name)
  BY <1>1, SourceFacts
<1>4. (1 .. n) \cap Inside(l, n) = {} /\ n + j \in Inside(l, n)
  BY DEF Inside
<1>5. \A s : <<n + j, s>> \in Links(c) => s \notin Inside(l, n)
  BY <1>1, <1>4, LinkEnds
<1>6. \A s \in source[j].succ : n + s \in Inside(l, n)
  BY <1>3 DEF Inside
<1> QED BY <1>2, <1>3, <1>5, <1>6

LEMMA SameOld ==
  ASSUME NEW n \in Nat, NEW t, SourceInv, NEW c, CopyIs(Len(source), n, c), NEW r, Composed(n, t, c, r),
         NEW b \in Nat, b + Len(source) <= n, SameFrom(source, cloneable, t, b)
  PROVE  SameFrom(source, cloneable, r, b)
<1>1. PICK l \in Nat : l = Len(source)
  BY SourceFacts
<1> SUFFICES ASSUME NEW j \in 1 .. l
             PROVE  /\ r[b + j].succ \cap Inside(l, b) = {b + s : s \in source[j].succ}
                    /\ r[b + j].name = source[j].name
                    /\ r[b + j].work = IF j \in cloneable THEN source[j].work ELSE Placeholder(source[j].name)
  BY <1>1 DEF SameFrom
<1>2. /\ t[b + j].succ \cap Inside(l, b) = {b + s : s \in source[j].succ}
      /\ t[b + j].name = source[j].name
      /\ t[b + j].work = IF j \in cloneable THEN source[j].work ELSE Placeholder(source[j].name)
  BY <1>1 DEF SameFrom
<1>3. PICK p \in 1 .. n : p = b + j
  BY <1>1
<1>4. /\ r[p].work = t[p].work /\ r[p].name = t[p].name
      /\ r[p].succ = t[p].succ \cup {s \in 1 .. n + l : <<p, s>> \in Links(c)}
  BY <1>1 DEF Composed
<1>5. (1 .. n) \cap Inside(l, n) = {} /\ Inside(l, b) \cap Inside(l, n) = {}
  BY <1>1 DEF Inside
<1>6. \A s : <<p, s>> \in Links(c) => s \notin Inside(l, b)
  BY <1>1, <1>5, LinkEnds
<1> QED BY <1>2, <1>3, <1>4, <1>6

\* The copies that the target of n tasks holds, in the order of the calls.
Instances == [base : Nat, entries : Seq(Nat), exits : Seq(Nat), before : Seq(Nat), after : Seq(Nat)]

Placed(l, n, cs) ==
  /\ cs \in Seq(Instances)
  /\ \A i \in 1 .. Len(cs) : CopyIs(l, cs[i].base, cs[i]) /\ cs[i].base + l <= n
  /\ \A i, j \in 1 .. Len(cs) : i < j => cs[i].base + l <= cs[j].base

LEMMA PlacedMore ==
  ASSUME NEW l \in Nat, NEW n \in Nat, NEW cs, Placed(l, n, cs), NEW c \in Instances, CopyIs(l, n, c)
  PROVE  Placed(l, n + l, Append(cs, c))
<1>1. cs \in Seq(Instances)
  BY DEF Placed
<1>2. PICK ds : ds = Append(cs, c)
  OBVIOUS
<1>3. PICK k \in Nat : k = Len(cs)
  BY <1>1, LenProperties
<1>4. /\ ds \in Seq(Instances) /\ Len(ds) = k + 1
      /\ \A i \in 1 .. k : ds[i] = cs[i]
      /\ ds[k + 1] = c
  BY <1>1, <1>2, <1>3, AppendProperties
<1>5. c.base = n
  BY DEF CopyIs
<1>6. \A i \in 1 .. k : cs[i].base \in Nat
  <2>1. \A i \in 1 .. k : cs[i] \in Instances
    BY <1>1, <1>3
  <2> QED BY <2>1 DEF Instances
<1>7. \A i \in 1 .. k : CopyIs(l, cs[i].base, cs[i]) /\ cs[i].base + l <= n
  BY <1>3 DEF Placed
<1>8. \A i, j \in 1 .. k : i < j => cs[i].base + l <= cs[j].base
  BY <1>3 DEF Placed
<1>9. \A i \in 1 .. k + 1 : i \in 1 .. k \/ i = k + 1
  OBVIOUS
<1>10. ASSUME NEW i \in 1 .. k + 1
       PROVE  CopyIs(l, ds[i].base, ds[i]) /\ ds[i].base + l <= n + l
  <2>1. CASE i = k + 1
    BY <1>4, <1>5, <2>1
  <2>2. CASE i \in 1 .. k
    <3>1. cs[i].base + l <= n + l
      BY <1>6, <1>7, <2>2
    <3> QED BY <1>4, <1>7, <2>2, <3>1
  <2> QED BY <1>9, <2>1, <2>2
<1>11. ASSUME NEW i \in 1 .. k + 1, NEW j \in 1 .. k + 1, i < j
       PROVE  ds[i].base + l <= ds[j].base
  <2>1. i \in 1 .. k /\ (j \in 1 .. k \/ j = k + 1)
    BY <1>11
  <2>2. CASE j \in 1 .. k
    BY <1>4, <1>8, <1>11, <2>1, <2>2
  <2>3. CASE j = k + 1
    BY <1>4, <1>5, <1>7, <2>1, <2>3
  <2> QED BY <2>1, <2>2, <2>3
<1>12. Placed(l, n + l, ds)
  BY <1>4, <1>10, <1>11 DEF Placed
<1> QED BY <1>2, <1>12

\* The copies that hold the task p.
Holding(l, cs, p) == {i \in DOMAIN cs : p \in Inside(l, cs[i].base)}

Crossings(cs) == UNION {Links(c) : c \in ToSet(cs)}

LEMMA HoldingMore ==
  ASSUME NEW l \in Nat, NEW n \in Nat, NEW cs, Placed(l, n, cs), NEW c \in Instances, CopyIs(l, n, c)
  PROVE  /\ \A p \in 1 .. n : /\ Holding(l, Append(cs, c), p) = Holding(l, cs, p)
                              /\ Len(cs) + 1 \notin Holding(l, cs, p)
         /\ \A p \in Inside(l, n) : Holding(l, Append(cs, c), p) = {Len(cs) + 1}
<1>1. cs \in Seq(Instances)
  BY DEF Placed
<1>2. PICK ds : ds = Append(cs, c)
  OBVIOUS
<1>3. PICK k \in Nat : k = Len(cs) /\ DOMAIN cs = 1 .. k
  BY <1>1, LenProperties
<1>4. /\ DOMAIN ds = 1 .. k + 1
      /\ \A i \in 1 .. k : ds[i] = cs[i]
      /\ ds[k + 1] = c /\ c.base = n
  <2>1. /\ ds \in Seq(Instances) /\ Len(ds) = k + 1
        /\ \A i \in 1 .. k : ds[i] = cs[i]
        /\ ds[k + 1] = c
    BY <1>1, <1>2, <1>3, AppendProperties
  <2> QED BY <2>1, LenProperties DEF CopyIs
<1>5. \A i \in 1 .. k : cs[i].base \in Nat /\ cs[i].base + l <= n
  <2>1. \A i \in 1 .. k : cs[i] \in Instances
    BY <1>1, <1>3
  <2>2. \A i \in 1 .. k : cs[i].base + l <= n
    BY <1>3 DEF Placed
  <2> QED BY <2>1, <2>2 DEF Instances
<1>6. \A i \in 1 .. k + 1 : i \in 1 .. k \/ i = k + 1
  OBVIOUS
<1>7. \A p \in 1 .. n : p \notin Inside(l, n)
  BY DEF Inside
<1>8. ASSUME NEW p \in Inside(l, n), NEW i \in 1 .. k PROVE p \notin Inside(l, cs[i].base)
  BY <1>5 DEF Inside
<1>9. k + 1 \in 1 .. k + 1 /\ 1 .. k \subseteq 1 .. k + 1 /\ k + 1 \notin 1 .. k
  OBVIOUS
<1>10. ASSUME NEW p \in 1 .. n
       PROVE  Holding(l, ds, p) = Holding(l, cs, p) /\ k + 1 \notin Holding(l, cs, p)
  BY <1>3, <1>4, <1>6, <1>7, <1>9 DEF Holding
<1>11. ASSUME NEW p \in Inside(l, n) PROVE Holding(l, ds, p) = {k + 1}
  BY <1>4, <1>6, <1>8, <1>9 DEF Holding
<1> QED BY <1>2, <1>3, <1>10, <1>11

LEMMA CrossingsMore ==
  ASSUME NEW l \in Nat, NEW n \in Nat, NEW cs, Placed(l, n, cs), NEW c \in Instances
  PROVE  /\ Crossings(Append(cs, c)) = Crossings(cs) \cup Links(c)
         /\ \A p, s : <<p, s>> \in Crossings(cs) => p \in 1 .. n /\ s \in 1 .. n
<1>1. cs \in Seq(Instances) /\ Len(cs) \in Nat /\ DOMAIN cs = 1 .. Len(cs)
  BY LenProperties DEF Placed
<1>2. ToSet(Append(cs, c)) = ToSet(cs) \cup {c}
  BY <1>1, AppendFacts
<1>3. ASSUME NEW p, NEW s, <<p, s>> \in Crossings(cs)
      PROVE  p \in 1 .. n /\ s \in 1 .. n
  <2>1. PICK d \in ToSet(cs) : <<p, s>> \in Links(d)
    BY <1>3 DEF Crossings
  <2>2. PICK i \in 1 .. Len(cs) : d = cs[i]
    BY <1>1, <2>1 DEF ToSet
  <2>3. CopyIs(l, d.base, d) /\ d.base + l <= n /\ d.base \in Nat
    <3>1. cs[i] \in Instances
      BY <1>1
    <3>2. CopyIs(l, cs[i].base, cs[i]) /\ cs[i].base + l <= n
      BY DEF Placed
    <3> QED BY <2>2, <3>1, <3>2 DEF Instances
  <2>4. \/ p \in 1 .. d.base /\ s \in Inside(l, d.base)
        \/ p \in Inside(l, d.base) /\ s \in 1 .. d.base
    <3>1. PICK b \in Nat : b = d.base
      BY <2>3
    <3>2. CopyIs(l, b, d)
      BY <2>3, <3>1
    <3>3. \/ p \in 1 .. b /\ s \in Inside(l, b)
          \/ p \in Inside(l, b) /\ s \in 1 .. b
      BY <2>1, <3>2, LinkEnds
    <3> QED BY <3>1, <3>3
  <2>5. 1 .. d.base \subseteq 1 .. n /\ Inside(l, d.base) \subseteq 1 .. n
    BY <2>3 DEF Inside
  <2> QED BY <2>4, <2>5
<1> QED BY <1>2, <1>3 DEF Crossings

\* The edges that cross the border of a copy are those that calls asked for, and
\* what no copy holds is the target's own.
CrossingAt(l, cs, p, s) ==
  Holding(l, cs, p) = {} \/ Holding(l, cs, p) # Holding(l, cs, s) <=> <<p, s>> \in Crossings(cs)
Crossed(l, n, t, cs) ==
  \A p \in 1 .. n : /\ Holding(l, cs, p) = {} => t[p].work = Own(p)
                    /\ \A s \in t[p].succ : CrossingAt(l, cs, p, s)

LEMMA CrossedComposed ==
  ASSUME NEW n \in Nat, NEW t, GraphIs(n, t), SourceInv, NEW cs, Placed(Len(source), n, cs),
         Crossed(Len(source), n, t, cs), NEW c \in Instances, CopyIs(Len(source), n, c),
         NEW r, Composed(n, t, c, r)
  PROVE  Crossed(Len(source), n + Len(source), r, Append(cs, c))
<1>1. PICK l \in Nat : l = Len(source)
  BY SourceFacts
<1>2. PICK ds : ds = Append(cs, c)
  OBVIOUS
<1>3. /\ \A p \in 1 .. n : Holding(l, ds, p) = Holding(l, cs, p) /\ Len(cs) + 1 \notin Holding(l, cs, p)
      /\ \A p \in Inside(l, n) : Holding(l, ds, p) = {Len(cs) + 1}
  BY <1>1, <1>2, HoldingMore
<1>4. /\ Crossings(ds) = Crossings(cs) \cup Links(c)
      /\ \A p, s : <<p, s>> \in Crossings(cs) => p \in 1 .. n /\ s \in 1 .. n
  BY <1>1, <1>2, CrossingsMore
<1>5. (1 .. n) \cap Inside(l, n) = {}
  BY DEF Inside
<1>6. ASSUME NEW p \in 1 .. n PROVE Holding(l, ds, p) = {} => r[p].work = Own(p)
  <2>1. Holding(l, cs, p) = {} => t[p].work = Own(p)
    BY <1>1 DEF Crossed
  <2>2. r[p].work = t[p].work
    BY DEF Composed
  <2> QED BY <1>3, <2>1, <2>2
<1>7. ASSUME NEW p, NEW s, <<p, s>> \in Links(c) PROVE CrossingAt(l, ds, p, s)
  <2>1. \/ p \in 1 .. n /\ s \in Inside(l, n)
        \/ p \in Inside(l, n) /\ s \in 1 .. n
    <3>1. CopyIs(l, n, c)
      BY <1>1
    <3> QED BY <1>7, <3>1, LinkEnds
  <2>2. Holding(l, ds, p) # Holding(l, ds, s)
    BY <1>3, <2>1
  <2> QED BY <1>4, <1>7, <2>2 DEF CrossingAt
<1>8. ASSUME NEW p \in 1 .. n, NEW s \in t[p].succ PROVE CrossingAt(l, ds, p, s)
  <2>1. s \in 1 .. n
    BY DEF GraphIs
  <2>2. CrossingAt(l, cs, p, s)
    BY <1>1 DEF Crossed
  <2>3. <<p, s>> \notin Links(c)
    <3>1. ASSUME <<p, s>> \in Links(c) PROVE p \in Inside(l, n) \/ s \in Inside(l, n)
      BY <1>1, <3>1, LinkEnds
    <3> QED BY <1>5, <2>1, <3>1
  <2>4. <<p, s>> \in Crossings(ds) <=> <<p, s>> \in Crossings(cs)
    BY <1>4, <2>3
  <2>5. Holding(l, ds, p) = Holding(l, cs, p) /\ Holding(l, ds, s) = Holding(l, cs, s)
    BY <1>3, <2>1
  <2> QED BY <2>2, <2>4, <2>5 DEF CrossingAt
<1>9. ASSUME NEW j \in 1 .. l, NEW u \in source[j].succ PROVE CrossingAt(l, ds, n + j, n + u)
  <2>1. n + j \in Inside(l, n) /\ n + u \in Inside(l, n)
    <3>1. source[j].succ \subseteq j + 1 .. l
      BY <1>1, SourceFacts
    <3> QED BY <3>1 DEF Inside
  <2>2. PICK p, s : p = n + j /\ s = n + u
    OBVIOUS
  <2>3. p \in Inside(l, n) /\ s \in Inside(l, n)
    BY <2>1, <2>2
  <2>4. <<p, s>> \notin Links(c)
    <3>1. ASSUME <<p, s>> \in Links(c) PROVE p \in 1 .. n \/ s \in 1 .. n
      BY <1>1, <3>1, LinkEnds
    <3> QED BY <1>5, <2>3, <3>1
  <2>5. <<p, s>> \notin Crossings(ds)
    BY <1>4, <1>5, <2>3, <2>4
  <2>6. Holding(l, ds, p) = Holding(l, ds, s) /\ Holding(l, ds, p) # {}
    BY <1>3, <2>3
  <2>7. CrossingAt(l, ds, p, s)
    BY <2>5, <2>6 DEF CrossingAt
  <2> QED BY <2>2, <2>7
<1>10. ASSUME NEW p \in 1 .. n, NEW s \in r[p].succ PROVE CrossingAt(l, ds, p, s)
  <2>1. s \in t[p].succ \/ <<p, s>> \in Links(c)
    <3>1. r[p].succ = t[p].succ \cup {x \in 1 .. n + Len(source) : <<p, x>> \in Links(c)}
      BY DEF Composed
    <3> QED BY <3>1
  <2> QED BY <1>7, <1>8, <2>1
<1>11. ASSUME NEW j \in 1 .. l, NEW s \in r[n + j].succ PROVE CrossingAt(l, ds, n + j, s)
  <2>1. (\E u \in source[j].succ : s = n + u) \/ <<n + j, s>> \in Links(c)
    <3>1. r[n + j].succ = {n + u : u \in source[j].succ}
                            \cup {x \in 1 .. n + l : <<n + j, x>> \in Links(c)}
      BY <1>1 DEF Composed
    <3> QED BY <3>1
  <2> QED BY <1>7, <1>9, <2>1
<1>12. ASSUME NEW p \in 1 .. n + l
       PROVE  /\ Holding(l, ds, p) = {} => r[p].work = Own(p)
              /\ \A s \in r[p].succ : CrossingAt(l, ds, p, s)
  <2>1. CASE p \in 1 .. n
    BY <1>6, <1>10, <2>1
  <2>2. CASE p \notin 1 .. n
    <3>1. PICK j \in 1 .. l : p = n + j
      <4>1. p - n \in 1 .. l /\ p = n + (p - n)
        BY <2>2
      <4> QED BY <4>1
    <3>2. p \in Inside(l, n)
      BY <3>1 DEF Inside
    <3>3. Holding(l, ds, p) # {}
      BY <1>3, <3>2
    <3> QED BY <1>11, <3>1, <3>3
  <2> QED BY <2>1, <2>2
<1>13. Crossed(l, n + l, r, ds)
  BY <1>12 DEF Crossed
<1> QED BY <1>1, <1>2, <1>13

\* The target and its copies.
TargetIs(src, clo, t, cs) ==
  \E n \in Nat :
    /\ GraphIs(n, t) /\ Acyclic(n, t)
    /\ Placed(Len(src), n, cs)
    /\ Crossed(Len(src), n, t, cs)
    /\ \A i \in 1 .. Len(cs) : SameFrom(src, clo, t, cs[i].base)

CopyInv ==
  /\ SourceInv
  /\ TargetIs(source, cloneable, target, copies)
  /\ ~built => target = <<>> /\ copies = <<>>

\* A call that composes keeps them.
LEMMA ComposeKeeps ==
  ASSUME CopyInv, NEW n \in Nat, n = Len(target),
         NEW c \in Instances, CopyIs(Len(source), n, c),
         NEW E, NEW r, Drawn(n + Len(source), CloneGraphInto(target), E, r), E = Links(c)
  PROVE  TargetIs(source, cloneable, r, Append(copies, c))
<1>1. PICK l \in Nat : l = Len(source)
  BY SourceFacts DEF CopyInv
<1>2. SourceInv /\ SourceShape
  BY SourceFacts DEF CopyInv
<1>3. /\ GraphIs(n, target) /\ Acyclic(n, target) /\ Placed(l, n, copies) /\ Crossed(l, n, target, copies)
      /\ \A i \in 1 .. Len(copies) : SameFrom(source, cloneable, target, copies[i].base)
  <2>1. PICK m \in Nat : /\ GraphIs(m, target) /\ Acyclic(m, target)
                         /\ Placed(l, m, copies) /\ Crossed(l, m, target, copies)
                         /\ \A i \in 1 .. Len(copies) : SameFrom(source, cloneable, target, copies[i].base)
    BY <1>1 DEF CopyInv, TargetIs
  <2>2. m = n
    BY <2>1, GraphLen DEF GraphIs
  <2> QED BY <2>1, <2>2
<1>4. PICK g : g = CopiedTasks(target)
  OBVIOUS
<1>5. target \in [1 .. n -> Node]
  BY <1>3 DEF GraphIs
<1>6. Grown(n, target, l, g)
  BY <1>1, <1>2, <1>4, <1>5, CopiedTasksGrow
<1>7. PICK m \in Nat : m = n + l
  OBVIOUS
<1>8. g \in [1 .. m -> Node]
  BY <1>6, <1>7 DEF Grown
<1>9. Drawn(m, g, SourceEdges(n), CloneGraphInto(target))
  <2>1. Len(target) = n /\ Len(target) \in Nat /\ m = Len(target) + Len(source)
    BY <1>1, <1>7
  <2> QED BY <1>2, <1>4, <1>8, <2>1, SecondPassDraws
<1>10. Drawn(m, g, SourceEdges(n) \cup Links(c), r)
  <2>1. Drawn(m, CloneGraphInto(target), Links(c), r)
    BY <1>1, <1>7
  <2> QED BY <1>9, <2>1, DrawnMore
<1>11. Composed(n, target, c, r)
  BY <1>1, <1>2, <1>6, <1>7, <1>10, ComposedIs
<1>12. GraphIs(m, r)
  <2>1. GraphIs(m, g)
    BY <1>3, <1>6, <1>7, GrownGraph
  <2> QED BY <1>10, <2>1, DrawnGraph
<1>13. Acyclic(m, r)
  BY <1>1, <1>2, <1>3, <1>7, <1>11, AcyclicComposed
<1>14. Placed(l, m, Append(copies, c))
  BY <1>1, <1>3, <1>7, PlacedMore
<1>15. Crossed(l, m, r, Append(copies, c))
  BY <1>1, <1>2, <1>3, <1>7, <1>11, CrossedComposed
<1>16. ASSUME NEW i \in 1 .. Len(Append(copies, c))
       PROVE  SameFrom(source, cloneable, r, Append(copies, c)[i].base)
  <2>1. copies \in Seq(Instances)
    BY <1>3 DEF Placed
  <2>2. PICK k \in Nat : k = Len(copies)
    BY <2>1, LenProperties
  <2>3. PICK ds : ds = Append(copies, c)
    OBVIOUS
  <2>4. /\ Len(ds) = k + 1 /\ ds[k + 1] = c
        /\ \A x \in 1 .. k : ds[x] = copies[x]
    BY <2>1, <2>2, <2>3, AppendProperties
  <2>5. CASE i = k + 1
    <3>1. c.base = n
      BY DEF CopyIs
    <3>2. SameFrom(source, cloneable, r, n)
      BY <1>2, <1>11, SameNew
    <3> QED BY <2>3, <2>4, <2>5, <3>1, <3>2
  <2>6. CASE i # k + 1
    <3>1. i \in 1 .. k
      BY <2>2, <2>3, <2>4, <2>6
    <3>2. PICK b \in Nat : b = copies[i].base /\ b + l <= n
      <4>1. copies[i] \in Instances
        BY <2>1, <2>2, <3>1
      <4>2. copies[i].base + l <= n
        BY <1>3, <2>2, <3>1 DEF Placed
      <4> QED BY <4>1, <4>2 DEF Instances
    <3>3. SameFrom(source, cloneable, target, b)
      BY <1>3, <2>2, <3>1, <3>2
    <3>4. SameFrom(source, cloneable, r, b)
      BY <1>1, <1>2, <1>11, <3>2, <3>3, SameOld
    <3> QED BY <2>3, <2>4, <3>1, <3>2, <3>4
  <2> QED BY <2>5, <2>6
<1> QED BY <1>1, <1>7, <1>12, <1>13, <1>14, <1>15, <1>16 DEF TargetIs

\* A task of the target's own keeps them too.
LEMMA EmplaceKeeps ==
  ASSUME CopyInv, NEW n \in Nat, n = Len(target), NEW name, NEW r,
         Extended(n, target, name, Own(n + 1), r)
  PROVE  TargetIs(source, cloneable, r, copies)
<1>1. PICK l \in Nat : l = Len(source)
  BY SourceFacts DEF CopyInv
<1>2. /\ GraphIs(n, target) /\ Acyclic(n, target) /\ Placed(l, n, copies) /\ Crossed(l, n, target, copies)
      /\ \A i \in 1 .. Len(copies) : SameFrom(source, cloneable, target, copies[i].base)
  <2>1. PICK m \in Nat : /\ GraphIs(m, target) /\ Acyclic(m, target)
                         /\ Placed(l, m, copies) /\ Crossed(l, m, target, copies)
                         /\ \A i \in 1 .. Len(copies) : SameFrom(source, cloneable, target, copies[i].base)
    BY <1>1 DEF CopyInv, TargetIs
  <2>2. m = n
    BY <2>1, GraphLen DEF GraphIs
  <2> QED BY <2>1, <2>2
<1>3. PICK m \in Nat : m = n + 1
  OBVIOUS
<1>4. /\ \A p \in 1 .. n : r[p] = target[p]
      /\ r[m].work = Own(m) /\ r[m].succ = {}
  BY <1>3 DEF Extended, Fresh
<1>5. GraphIs(m, r)
  BY <1>2, <1>3, ExtendedGraph
<1>6. 1 .. m = (1 .. n) \cup {m} /\ m \notin 1 .. n
  BY <1>3
<1>7. Acyclic(m, r)
  <2> SUFFICES ASSUME NEW S \in SUBSET (1 .. m), S # {} PROVE \E p \in S : r[p].succ \cap S = {}
    BY DEF Acyclic
  <2>1. CASE m \in S
    BY <1>4, <2>1
  <2>2. CASE m \notin S
    <3>1. S \in SUBSET (1 .. n)
      BY <1>6, <2>2
    <3>2. PICK p \in S : target[p].succ \cap S = {}
      BY <1>2, <3>1 DEF Acyclic
    <3> QED BY <1>4, <3>1, <3>2
  <2> QED BY <2>1, <2>2
<1>8. /\ copies \in Seq(Instances)
      /\ \A i \in 1 .. Len(copies) : /\ CopyIs(l, copies[i].base, copies[i])
                                     /\ copies[i].base \in Nat /\ copies[i].base + l <= n
  <2>1. \A i \in 1 .. Len(copies) : copies[i] \in Instances
    BY <1>2 DEF Placed
  <2>2. \A i \in 1 .. Len(copies) : copies[i].base \in Nat
    BY <2>1 DEF Instances
  <2> QED BY <1>2, <2>2 DEF Placed
<1>9. Placed(l, m, copies)
  <2>1. \A i \in 1 .. Len(copies) : copies[i].base + l <= m
    BY <1>3, <1>8
  <2> QED BY <1>2, <2>1 DEF Placed
<1>10. DOMAIN copies = 1 .. Len(copies)
  BY <1>8, LenProperties
<1>11. Holding(l, copies, m) = {}
  <2>1. ASSUME NEW i \in 1 .. Len(copies) PROVE m \notin Inside(l, copies[i].base)
    <3>1. PICK b \in Nat : b = copies[i].base /\ b + l <= n
      BY <1>8
    <3>2. m \notin Inside(l, b)
      BY <1>3, <3>1 DEF Inside
    <3> QED BY <3>1, <3>2
  <2> QED BY <1>10, <2>1 DEF Holding
<1>12. Crossed(l, m, r, copies)
  <2> SUFFICES ASSUME NEW p \in 1 .. m
               PROVE  /\ Holding(l, copies, p) = {} => r[p].work = Own(p)
                      /\ \A s \in r[p].succ : CrossingAt(l, copies, p, s)
    BY DEF Crossed
  <2>1. CASE p = m
    BY <1>4, <2>1
  <2>2. CASE p \in 1 .. n
    <3>1. r[p] = target[p]
      BY <1>4, <2>2
    <3>2. /\ Holding(l, copies, p) = {} => target[p].work = Own(p)
          /\ \A s \in target[p].succ : CrossingAt(l, copies, p, s)
      BY <1>2, <2>2 DEF Crossed
    <3> QED BY <3>1, <3>2
  <2> QED BY <1>6, <2>1, <2>2
<1>13. ASSUME NEW i \in 1 .. Len(copies) PROVE SameFrom(source, cloneable, r, copies[i].base)
  <2>1. PICK b \in Nat : b = copies[i].base /\ b + l <= n
    BY <1>8
  <2>2. SameFrom(source, cloneable, target, b)
    BY <1>2, <2>1
  <2>3. \A j \in 1 .. l : b + j \in 1 .. n
    <3> SUFFICES ASSUME NEW j \in 1 .. l PROVE b + j >= 1 /\ b + j <= n
      OBVIOUS
    <3>1. b + j <= b + l
      OBVIOUS
    <3> QED BY <2>1, <3>1
  <2>4. \A j \in 1 .. l : r[b + j] = target[b + j]
    BY <1>4, <2>3
  <2>5. SameFrom(source, cloneable, r, b)
    BY <1>1, <2>2, <2>4 DEF SameFrom
  <2> QED BY <2>1, <2>5
<1> QED BY <1>1, <1>3, <1>5, <1>7, <1>9, <1>12, <1>13 DEF TargetIs

\* What the steps need of the state.
LEMMA CopyFacts ==
  ASSUME CopyInv
  PROVE  /\ SourceInv /\ SourceShape /\ Len(source) \in Nat /\ Len(target) \in Nat
         /\ target \in [1 .. Len(target) -> Node] /\ DOMAIN target = 1 .. Len(target)
         /\ CloneGraphInto(target) \in [1 .. Len(target) + Len(source) -> Node]
<1>1. SourceInv /\ SourceShape /\ Len(source) \in Nat
  BY SourceFacts DEF CopyInv
<1>2. PICK n \in Nat : GraphIs(n, target)
  BY DEF CopyInv, TargetIs
<1>3. target \in [1 .. n -> Node] /\ Len(target) = n
  BY <1>2, GraphLen DEF GraphIs
<1>4. PICK m \in Nat : m = n + Len(source)
  BY <1>1
<1>5. PICK g : g = CopiedTasks(target)
  OBVIOUS
<1>6. g \in [1 .. m -> Node]
  <2>1. Grown(n, target, Len(source), g)
    BY <1>1, <1>3, <1>5, CopiedTasksGrow
  <2> QED BY <1>4, <2>1 DEF Grown
<1>7. Drawn(m, g, SourceEdges(n), CloneGraphInto(target))
  <2>1. Len(target) = n /\ Len(target) \in Nat /\ m = Len(target) + Len(source)
    BY <1>3, <1>4
  <2> QED BY <1>1, <1>5, <1>6, <2>1, SecondPassDraws
<1> QED BY <1>1, <1>3, <1>4, <1>7 DEF Drawn

\* The handles of a copy are its tasks.
LEMMA MappedFacts ==
  ASSUME NEW n \in Nat, NEW l \in Nat, NEW ids \in Seq(1 .. l)
  PROVE  /\ MappedSeq(n, ids) \in Seq(1 .. n + l)
         /\ MappedSeq(n, ids) \in Seq(Nat)
         /\ ToSet(MappedSeq(n, ids)) \subseteq Inside(l, n)
<1>1. PICK k \in Nat : k = Len(ids) /\ DOMAIN ids = 1 .. k
  BY LenProperties
<1>2. \A i \in 1 .. k : ids[i] \in 1 .. l
  BY <1>1
<1>3. PICK m : m = MappedSeq(n, ids)
  OBVIOUS
<1>4. m = [i \in 1 .. k |-> n + ids[i]]
  BY <1>1, <1>3 DEF MappedSeq, Mapped
<1>5. \A i \in 1 .. k : m[i] \in 1 .. n + l /\ m[i] \in Nat /\ m[i] \in Inside(l, n)
  <2>1. \A x \in 1 .. l : n + x \in 1 .. n + l /\ n + x \in Nat /\ n + x \in Inside(l, n)
    BY DEF Inside
  <2> QED BY <1>2, <1>4, <2>1
<1>6. m \in [1 .. k -> 1 .. n + l] /\ m \in [1 .. k -> Nat]
  BY <1>4, <1>5
<1>7. m \in Seq(1 .. n + l) /\ m \in Seq(Nat)
  BY <1>6, SeqDef
<1>8. ToSet(m) \subseteq Inside(l, n)
  BY <1>4, <1>5 DEF ToSet
<1> QED BY <1>3, <1>7, <1>8

\* The lists of handles that a call is given.
LEMMA HandlesFacts ==
  ASSUME NEW n \in Nat, NEW graph, DOMAIN graph = 1 .. n, NEW handles \in Handles(graph)
  PROVE  handles \in Seq(1 .. n) /\ handles \in Seq(Nat) /\ ToSet(handles) \subseteq 1 .. n
<1>1. PICK k \in 0 .. MaxHandles : handles \in [1 .. k -> 1 .. n]
  BY DEF Handles, BoundedSeq, SeqOf
<1>2. k \in Nat
  OBVIOUS
<1>3. handles \in Seq(1 .. n)
  BY <1>1, <1>2, SeqDef
<1>4. handles \in [1 .. k -> Nat]
  BY <1>1
<1>5. handles \in Seq(Nat)
  BY <1>2, <1>4, SeqDef
<1>6. ToSet(handles) \subseteq 1 .. n
  BY <1>1 DEF ToSet
<1> QED BY <1>3, <1>5, <1>6

\* compose, compose_after and compose_before.
LEMMA ComposeStep ==
  ASSUME CopyInv, Compose
  PROVE  TargetIs(source, cloneable, target', copies')
<1>1. PICK n \in Nat, l \in Nat : n = Len(target) /\ l = Len(source)
  BY CopyFacts
<1>2. PICK c : c = Instance(<<>>, <<>>)
  OBVIOUS
<1>3. target' = CloneGraphInto(target) /\ copies' = Append(copies, c)
  BY <1>2 DEF Compose
<1>4. PICK ent, exi : ent = MappedSeq(n, entries) /\ exi = MappedSeq(n, exits)
  OBVIOUS
<1>5. /\ ent \in Seq(Nat) /\ ToSet(ent) \subseteq Inside(l, n)
      /\ exi \in Seq(Nat) /\ ToSet(exi) \subseteq Inside(l, n)
  <2>1. entries \in Seq(1 .. l) /\ exits \in Seq(1 .. l)
    BY <1>1 DEF CopyInv, SourceInv, SourceIs
  <2> QED BY <1>4, <2>1, MappedFacts
<1>6. c = [base |-> n, entries |-> ent, exits |-> exi, before |-> <<>>, after |-> <<>>]
  BY <1>1, <1>2, <1>4 DEF Instance
<1>7. <<>> \in Seq(Nat) /\ ToSet(<<>>) = {}
  BY DEF ToSet
<1>8. c \in Instances /\ CopyIs(l, n, c)
  BY <1>5, <1>6, <1>7 DEF Instances, CopyIs
<1>9. Links(c) = {}
  BY <1>6, <1>7 DEF Links
<1>10. PICK m \in Nat : m = n + l
  OBVIOUS
<1>11. Drawn(m, CloneGraphInto(target), {}, CloneGraphInto(target))
  <2>1. CloneGraphInto(target) \in [1 .. m -> Node]
    BY <1>1, <1>10, CopyFacts
  <2> QED BY <2>1, DrawnNothing
<1> QED BY <1>1, <1>3, <1>8, <1>9, <1>10, <1>11, ComposeKeeps

LEMMA ComposeAfterStep ==
  ASSUME CopyInv, NEW predecessors \in Handles(target), ComposeAfter(predecessors)
  PROVE  TargetIs(source, cloneable, target', copies')
<1>1. PICK n \in Nat, l \in Nat : n = Len(target) /\ l = Len(source)
  BY CopyFacts
<1>2. PICK c : c = Instance(predecessors, <<>>)
  OBVIOUS
<1>4. PICK ent, exi : ent = MappedSeq(n, entries) /\ exi = MappedSeq(n, exits)
  OBVIOUS
<1>3. target' = Connected(CloneGraphInto(target), predecessors, ent) /\ copies' = Append(copies, c)
  BY <1>1, <1>2, <1>4 DEF ComposeAfter
<1>5. /\ ent \in Seq(Nat) /\ ToSet(ent) \subseteq Inside(l, n) /\ ent \in Seq(1 .. n + l)
      /\ exi \in Seq(Nat) /\ ToSet(exi) \subseteq Inside(l, n)
  <2>1. entries \in Seq(1 .. l) /\ exits \in Seq(1 .. l)
    BY <1>1 DEF CopyInv, SourceInv, SourceIs
  <2> QED BY <1>4, <2>1, MappedFacts
<1>6. c = [base |-> n, entries |-> ent, exits |-> exi, before |-> predecessors, after |-> <<>>]
  BY <1>1, <1>2, <1>4 DEF Instance
<1>7. <<>> \in Seq(Nat) /\ ToSet(<<>>) = {}
  BY DEF ToSet
<1>8. predecessors \in Seq(1 .. n) /\ predecessors \in Seq(Nat) /\ ToSet(predecessors) \subseteq 1 .. n
  <2>1. DOMAIN target = 1 .. n
    BY <1>1, CopyFacts
  <2> QED BY <2>1, HandlesFacts
<1>9. c \in Instances /\ CopyIs(l, n, c)
  BY <1>5, <1>6, <1>7, <1>8 DEF Instances, CopyIs
<1>10. Links(c) = ToSet(predecessors) \X ToSet(ent)
  BY <1>6, <1>7 DEF Links
<1>11. PICK m \in Nat : m = n + l
  OBVIOUS
<1>12. Drawn(m, CloneGraphInto(target), ToSet(predecessors) \X ToSet(ent), target')
  <2>1. PICK g \in [1 .. m -> Node] : g = CloneGraphInto(target)
    BY <1>1, <1>11, CopyFacts
  <2>2. predecessors \in Seq(1 .. m)
    <3>1. PICK k \in Nat : k = Len(predecessors) /\ predecessors \in [1 .. k -> 1 .. n]
      BY <1>8, LenProperties
    <3>2. 1 .. n \subseteq 1 .. m
      BY <1>11
    <3>3. predecessors \in [1 .. k -> 1 .. m]
      BY <3>1, <3>2
    <3> QED BY <3>3, SeqDef
  <2>3. ent \in Seq(1 .. m)
    BY <1>5, <1>11
  <2>4. Drawn(m, g, ToSet(predecessors) \X ToSet(ent), Connected(g, predecessors, ent))
    BY <2>2, <2>3, ConnectedDraws
  <2> QED BY <1>3, <2>1, <2>4
<1> QED BY <1>1, <1>3, <1>9, <1>10, <1>11, <1>12, ComposeKeeps

LEMMA ComposeBeforeStep ==
  ASSUME CopyInv, NEW successors \in Handles(target), ComposeBefore(successors)
  PROVE  TargetIs(source, cloneable, target', copies')
<1>1. PICK n \in Nat, l \in Nat : n = Len(target) /\ l = Len(source)
  BY CopyFacts
<1>2. PICK c : c = Instance(<<>>, successors)
  OBVIOUS
<1>4. PICK ent, exi : ent = MappedSeq(n, entries) /\ exi = MappedSeq(n, exits)
  OBVIOUS
<1>3. target' = Connected(CloneGraphInto(target), exi, successors) /\ copies' = Append(copies, c)
  BY <1>1, <1>2, <1>4 DEF ComposeBefore
<1>5. /\ ent \in Seq(Nat) /\ ToSet(ent) \subseteq Inside(l, n)
      /\ exi \in Seq(Nat) /\ ToSet(exi) \subseteq Inside(l, n) /\ exi \in Seq(1 .. n + l)
  <2>1. entries \in Seq(1 .. l) /\ exits \in Seq(1 .. l)
    BY <1>1 DEF CopyInv, SourceInv, SourceIs
  <2> QED BY <1>4, <2>1, MappedFacts
<1>6. c = [base |-> n, entries |-> ent, exits |-> exi, before |-> <<>>, after |-> successors]
  BY <1>1, <1>2, <1>4 DEF Instance
<1>7. <<>> \in Seq(Nat) /\ ToSet(<<>>) = {}
  BY DEF ToSet
<1>8. successors \in Seq(1 .. n) /\ successors \in Seq(Nat) /\ ToSet(successors) \subseteq 1 .. n
  <2>1. DOMAIN target = 1 .. n
    BY <1>1, CopyFacts
  <2> QED BY <2>1, HandlesFacts
<1>9. c \in Instances /\ CopyIs(l, n, c)
  BY <1>5, <1>6, <1>7, <1>8 DEF Instances, CopyIs
<1>10. Links(c) = ToSet(exi) \X ToSet(successors)
  BY <1>6, <1>7 DEF Links
<1>11. PICK m \in Nat : m = n + l
  OBVIOUS
<1>12. Drawn(m, CloneGraphInto(target), ToSet(exi) \X ToSet(successors), target')
  <2>1. PICK g \in [1 .. m -> Node] : g = CloneGraphInto(target)
    BY <1>1, <1>11, CopyFacts
  <2>2. successors \in Seq(1 .. m)
    <3>1. PICK k \in Nat : k = Len(successors) /\ successors \in [1 .. k -> 1 .. n]
      BY <1>8, LenProperties
    <3>2. 1 .. n \subseteq 1 .. m
      BY <1>11
    <3>3. successors \in [1 .. k -> 1 .. m]
      BY <3>1, <3>2
    <3> QED BY <3>3, SeqDef
  <2>3. exi \in Seq(1 .. m)
    BY <1>5, <1>11
  <2>4. Drawn(m, g, ToSet(exi) \X ToSet(successors), Connected(g, exi, successors))
    BY <2>2, <2>3, ConnectedDraws
  <2> QED BY <1>3, <2>1, <2>4
<1> QED BY <1>1, <1>3, <1>9, <1>10, <1>11, <1>12, ComposeKeeps

LEMMA EmplaceInTargetStep ==
  ASSUME CopyInv, EmplaceInTarget
  PROVE  TargetIs(source, cloneable, target', copies)
<1>1. PICK n \in Nat : n = Len(target) /\ target \in [1 .. n -> Node]
  BY CopyFacts
<1>2. PICK name : name = <<"task", n + 1>>
  OBVIOUS
<1>3. PICK work \in Works : work = Own(n + 1)
  BY DEF Works
<1>4. Extended(n, target, name, work, target')
  <2>1. target' = Emplaced(target, work)
    BY <1>1, <1>3 DEF EmplaceInTarget
  <2> QED BY <1>1, <1>2, <2>1, EmplacedExtends
<1> QED BY <1>1, <1>3, <1>4, EmplaceKeeps

\* A builder's operations keep its shape.
LEMMA SourceMore ==
  ASSUME NEW src, NEW clo, NEW ent, NEW exi, SourceIs(src, clo, ent, exi), NEW n \in Nat, n = Len(src),
         NEW name, NEW work, NEW r, Extended(n, src, name, work, r),
         NEW also, also \subseteq {n + 1}, also # {} => work = Shared(n + 1)
  PROVE  SourceIs(r, clo \cup also, ent, exi)
<1>1. /\ src \in Seq(Node)
      /\ \A i \in 1 .. n : /\ src[i].id = i /\ src[i].succ \subseteq i + 1 .. n
                           /\ i \in clo => src[i].work = Shared(i)
      /\ clo \subseteq 1 .. n
      /\ ent \in Seq(1 .. n) /\ exi \in Seq(1 .. n)
  BY DEF SourceIs
<1>2. PICK m \in Nat : m = n + 1
  OBVIOUS
<1>3. /\ r \in [1 .. m -> Node]
      /\ \A p \in 1 .. n : r[p] = src[p]
      /\ r[m].id = m /\ r[m].succ = {} /\ r[m].work = work
  BY <1>2 DEF Extended, Fresh
<1>4. r \in Seq(Node) /\ Len(r) = m
  BY <1>3, GraphLen
<1>5. 1 .. m = (1 .. n) \cup {m} /\ m \notin 1 .. n
  BY <1>2
<1>6. ASSUME NEW i \in 1 .. m
      PROVE  /\ r[i].id = i /\ r[i].succ \subseteq i + 1 .. m
             /\ i \in clo \cup also => r[i].work = Shared(i)
  <2>1. CASE i = m
    <3>1. m \notin clo
      BY <1>1, <1>5
    <3> QED BY <1>2, <1>3, <2>1, <3>1
  <2>2. CASE i \in 1 .. n
    <3>1. src[i].succ \subseteq i + 1 .. m
      <4>1. \A x \in i + 1 .. n : x \in i + 1 .. m
        BY <1>2
      <4> QED BY <1>1, <2>2, <4>1
    <3>2. i \notin also
      BY <1>2, <1>5, <2>2
    <3> QED BY <1>1, <1>3, <2>2, <3>1, <3>2
  <2> QED BY <1>5, <2>1, <2>2
<1>7. \A s \in Seq(1 .. n) : s \in Seq(1 .. m)
  <2> SUFFICES ASSUME NEW s \in Seq(1 .. n) PROVE s \in Seq(1 .. m)
    OBVIOUS
  <2>1. PICK k \in Nat : k = Len(s) /\ s \in [1 .. k -> 1 .. n]
    BY LenProperties
  <2>2. s \in [1 .. k -> 1 .. m]
    BY <1>5, <2>1
  <2> QED BY <2>2, SeqDef
<1>8. clo \cup also \subseteq 1 .. m
  BY <1>1, <1>2, <1>5
<1> QED BY <1>1, <1>4, <1>6, <1>7, <1>8 DEF SourceIs

LEMMA PrecedeStep ==
  ASSUME CopyInv, NEW a \in DOMAIN source, NEW b \in DOMAIN source, Precede(a, b)
  PROVE  SourceIs(source', cloneable, entries, exits)
<1>1. /\ source \in Seq(Node)
      /\ \A i \in 1 .. Len(source) : /\ source[i].id = i /\ source[i].succ \subseteq i + 1 .. Len(source)
                                     /\ i \in cloneable => source[i].work = Shared(i)
      /\ cloneable \subseteq 1 .. Len(source)
      /\ entries \in Seq(1 .. Len(source)) /\ exits \in Seq(1 .. Len(source))
  BY DEF CopyInv, SourceInv, SourceIs
<1>2. PICK n \in Nat : n = Len(source) /\ DOMAIN source = 1 .. n /\ source \in [1 .. n -> Node]
  BY <1>1, LenProperties
<1>3. PICK r : r = source'
  OBVIOUS
<1>4. r = Preceding(source, a, b) /\ a < b /\ a \in 1 .. n /\ b \in 1 .. n
  BY <1>2, <1>3 DEF Precede
<1>5. EdgeDrawn(n, source, a, b, r)
  BY <1>2, <1>4, PrecedingFields
<1>6. r \in [1 .. n -> Node]
  BY <1>5 DEF EdgeDrawn
<1>7. r \in Seq(Node) /\ Len(r) = n
  BY <1>6, GraphLen
<1>8. ASSUME NEW i \in 1 .. n
      PROVE  /\ r[i].id = i /\ r[i].succ \subseteq i + 1 .. n
             /\ i \in cloneable => r[i].work = Shared(i)
  <2>1. /\ r[i].id = source[i].id /\ r[i].work = source[i].work
        /\ r[i].succ = IF i = a THEN source[i].succ \cup {b} ELSE source[i].succ
    BY <1>5 DEF EdgeDrawn
  <2>2. i = a => b \in i + 1 .. n
    BY <1>4
  <2> QED BY <1>1, <1>2, <2>1, <2>2
<1> QED BY <1>1, <1>2, <1>3, <1>7, <1>8 DEF SourceIs

\* Before it is built, a composition has no copies.
LEMMA NoCopies ==
  ASSUME NEW src, Len(src) \in Nat, NEW clo
  PROVE  TargetIs(src, clo, <<>>, <<>>)
<1>1. 1 .. 0 = {} /\ <<>> \in [1 .. 0 -> Node]
  OBVIOUS
<1>2. <<>> \in Seq(Instances) /\ Len(<<>>) = 0
  OBVIOUS
<1>3. GraphIs(0, <<>>) /\ Acyclic(0, <<>>)
  BY <1>1 DEF GraphIs, Acyclic
<1>4. Placed(Len(src), 0, <<>>) /\ Crossed(Len(src), 0, <<>>, <<>>)
  BY <1>1, <1>2 DEF Placed, Crossed
<1>5. \A i \in 1 .. Len(<<>>) : SameFrom(src, clo, <<>>, <<>>[i].base)
  BY <1>1, <1>2
<1> QED BY <1>3, <1>4, <1>5 DEF TargetIs

\* Every operation keeps the invariant.
LEMMA BuilderStep ==
  ASSUME CopyInv, EmplaceCloneable \/ EmplacePlain
  PROVE  SourceIs(source', cloneable', entries', exits')
<1>1. PICK n \in Nat : n = Len(source) /\ source \in [1 .. n -> Node] /\ cloneable \subseteq 1 .. n
  <2>1. source \in Seq(Node) /\ cloneable \subseteq 1 .. Len(source)
    BY DEF CopyInv, SourceInv, SourceIs
  <2> QED BY <2>1, LenProperties
<1>2. SourceIs(source, cloneable, entries, exits)
  BY DEF CopyInv, SourceInv
<1>3. PICK m \in Nat : m = n + 1
  OBVIOUS
<1>4. CASE EmplaceCloneable
  <2>1. /\ source' = Emplaced(source, Shared(m)) /\ cloneable' = cloneable \cup {m}
        /\ entries' = entries /\ exits' = exits
    BY <1>1, <1>3, <1>4 DEF EmplaceCloneable
  <2>2. PICK work \in Works : work = Shared(m)
    BY DEF Works
  <2>3. PICK name, r : name = <<"task", n + 1>> /\ r = source'
    OBVIOUS
  <2>4. Extended(n, source, name, work, r)
    BY <1>1, <2>1, <2>2, <2>3, EmplacedExtends
  <2>5. PICK also : also = {m}
    OBVIOUS
  <2>6. SourceIs(r, cloneable \cup also, entries, exits)
    <3>1. also \subseteq {n + 1} /\ (also # {} => work = Shared(n + 1))
      BY <1>3, <2>2, <2>5
    <3> QED BY <1>1, <1>2, <2>4, <3>1, SourceMore
  <2> QED BY <2>1, <2>3, <2>5, <2>6
<1>5. CASE EmplacePlain
  <2>1. /\ source' = Named(Emplaced(source, Own(m)), m, <<"named", m>>) /\ cloneable' = cloneable
        /\ entries' = entries /\ exits' = exits
    BY <1>1, <1>3, <1>5 DEF EmplacePlain
  <2>2. PICK work \in Works : work = Own(m)
    BY DEF Works
  <2>3. PICK name, r, g : name = <<"task", n + 1>> /\ r = source' /\ g = Emplaced(source, work)
    OBVIOUS
  <2>9. PICK other \in Names : other = <<"named", m>>
    BY DEF Names
  <2>4. Extended(n, source, name, work, g)
    BY <1>1, <2>2, <2>3, EmplacedExtends
  <2>5. Extended(n, source, other, work, Named(g, n + 1, other))
    BY <2>4, NamedExtends
  <2>6. Extended(n, source, other, work, r)
    BY <1>3, <2>1, <2>2, <2>3, <2>5, <2>9
  <2>7. PICK also : also = {}
    OBVIOUS
  <2>8. SourceIs(r, cloneable \cup also, entries, exits)
    <3>1. also \subseteq {n + 1} /\ (also # {} => work = Shared(n + 1))
      BY <2>7
    <3> QED BY <1>1, <1>2, <2>6, <3>1, SourceMore
  <2> QED BY <2>1, <2>3, <2>7, <2>8
<1> QED BY <1>4, <1>5

LEMMA MarkStep ==
  ASSUME CopyInv, NEW marked \in Handles(source), MarkEntries(marked) \/ MarkExits(marked)
  PROVE  SourceIs(source', cloneable', entries', exits')
<1>1. SourceIs(source, cloneable, entries, exits)
  BY DEF CopyInv, SourceInv
<1>2. PICK n \in Nat : n = Len(source) /\ DOMAIN source = 1 .. n
  BY <1>1, LenProperties DEF SourceIs
<1>3. marked \in Seq(1 .. n)
  BY <1>2, HandlesFacts
<1>4. <<>> \o marked = marked
  BY <1>3, ConcatEmptySeq
<1>5. source' = source /\ cloneable' = cloneable
  BY DEF MarkEntries, MarkExits
<1>6. \/ entries' = marked /\ exits' = exits
      \/ exits' = marked /\ entries' = entries
  BY <1>4 DEF MarkEntries, MarkExits
<1> QED BY <1>1, <1>2, <1>3, <1>5, <1>6 DEF SourceIs

LEMMA BuildingKeeps ==
  ASSUME CopyInv, Building, SourceIs(source', cloneable', entries', exits')
  PROVE  CopyInv'
<1>1. target = <<>> /\ copies = <<>> /\ target' = target /\ copies' = copies
  BY DEF CopyInv, Building
<1>2. Len(source') \in Nat
  BY LenProperties DEF SourceIs
<1>3. TargetIs(source', cloneable', <<>>, <<>>)
  BY <1>2, NoCopies
<1>4. TargetIs(source, cloneable, target, copies)'
  BY <1>1, <1>3
<1> QED BY <1>1, <1>4 DEF CopyInv, SourceInv

LEMMA ComposingKeeps ==
  ASSUME CopyInv, built, UNCHANGED <<source, entries, exits, cloneable, built>>,
         TargetIs(source, cloneable, target', copies')
  PROVE  CopyInv'
<1>1. SourceIs(source, cloneable, entries, exits)
  BY DEF CopyInv, SourceInv
<1>2. /\ source' = source /\ cloneable' = cloneable /\ entries' = entries /\ exits' = exits /\ built'
  OBVIOUS
<1>3. SourceInv'
  BY <1>1, <1>2 DEF SourceInv
<1>4. TargetIs(source, cloneable, target, copies)'
  BY <1>2
<1> QED BY <1>2, <1>3, <1>4 DEF CopyInv

LEMMA CopyStart ==
  ASSUME ComposeInit
  PROVE  CopyInv
<1>1. /\ source = <<>> /\ entries = <<>> /\ exits = <<>> /\ cloneable = {}
      /\ target = <<>> /\ copies = <<>>
  BY DEF ComposeInit
<1>2. Len(<<>>) = 0 /\ 1 .. 0 = {} /\ <<>> \in Seq(Node) /\ <<>> \in Seq(1 .. 0)
  OBVIOUS
<1>3. SourceInv
  BY <1>1, <1>2 DEF SourceInv, SourceIs
<1>4. TargetIs(source, cloneable, target, copies)
  BY <1>1, <1>2, NoCopies
<1> QED BY <1>1, <1>3, <1>4 DEF CopyInv

LEMMA CopyStep ==
  ASSUME CopyInv, [ComposeNext]_composeVars
  PROVE  CopyInv'
<1>1. CASE EmplaceCloneable \/ EmplacePlain
  <2>1. Building
    BY <1>1 DEF EmplaceCloneable, EmplacePlain
  <2> QED BY <1>1, <2>1, BuilderStep, BuildingKeeps
<1>2. CASE Build
  <2>1. Building /\ UNCHANGED <<source, entries, exits, cloneable>>
    BY <1>2 DEF Build
  <2>2. SourceIs(source, cloneable, entries, exits)
    BY DEF CopyInv, SourceInv
  <2>3. SourceIs(source', cloneable', entries', exits')
    BY <2>1, <2>2
  <2> QED BY <2>1, <2>3, BuildingKeeps
<1>3. ASSUME NEW a \in DOMAIN source, NEW b \in DOMAIN source, Precede(a, b) PROVE CopyInv'
  <2>1. Building /\ UNCHANGED <<entries, exits, cloneable>>
    BY <1>3 DEF Precede
  <2>2. SourceIs(source', cloneable, entries, exits)
    BY <1>3, PrecedeStep
  <2>3. SourceIs(source', cloneable', entries', exits')
    BY <2>1, <2>2
  <2> QED BY <2>1, <2>3, BuildingKeeps
<1>4. ASSUME NEW marked \in Handles(source), MarkEntries(marked) \/ MarkExits(marked) PROVE CopyInv'
  <2>1. Building
    BY <1>4 DEF MarkEntries, MarkExits
  <2>2. SourceIs(source', cloneable', entries', exits')
    BY <1>4, MarkStep
  <2> QED BY <2>1, <2>2, BuildingKeeps
<1>5. CASE Compose
  <2>1. built /\ UNCHANGED <<source, entries, exits, cloneable, built>>
    BY <1>5 DEF Compose, Composing
  <2> QED BY <1>5, <2>1, ComposeStep, ComposingKeeps
<1>6. CASE EmplaceInTarget
  <2>1. built /\ UNCHANGED <<source, entries, exits, cloneable, built>> /\ copies' = copies
    BY <1>6 DEF EmplaceInTarget
  <2>2. TargetIs(source, cloneable, target', copies')
    BY <1>6, <2>1, EmplaceInTargetStep
  <2> QED BY <2>1, <2>2, ComposingKeeps
<1>7. ASSUME NEW handles \in Handles(target), ComposeAfter(handles) PROVE CopyInv'
  <2>1. built /\ UNCHANGED <<source, entries, exits, cloneable, built>>
    BY <1>7 DEF ComposeAfter, Composing
  <2> QED BY <1>7, <2>1, ComposeAfterStep, ComposingKeeps
<1>8. ASSUME NEW handles \in Handles(target), ComposeBefore(handles) PROVE CopyInv'
  <2>1. built /\ UNCHANGED <<source, entries, exits, cloneable, built>>
    BY <1>8 DEF ComposeBefore, Composing
  <2> QED BY <1>8, <2>1, ComposeBeforeStep, ComposingKeeps
<1>9. CASE UNCHANGED composeVars
  <2>1. /\ source' = source /\ cloneable' = cloneable /\ entries' = entries /\ exits' = exits
        /\ built' = built /\ target' = target /\ copies' = copies
    BY <1>9 DEF composeVars
  <2>2. SourceInv /\ TargetIs(source, cloneable, target, copies)
        /\ (~built => target = <<>> /\ copies = <<>>)
    BY DEF CopyInv
  <2>3. SourceInv'
    BY <2>1, <2>2 DEF SourceInv
  <2>4. TargetIs(source, cloneable, target, copies)'
    BY <2>1, <2>2
  <2> QED BY <2>1, <2>2, <2>3, <2>4 DEF CopyInv
<1> QED BY <1>1, <1>2, <1>3, <1>4, <1>5, <1>6, <1>7, <1>8, <1>9 DEF ComposeNext

LEMMA CopyInvFaithful ==
  ASSUME CopyInv
  PROVE  CopyFaithful
<1>1. PICK l \in Nat : l = Len(source) /\ DOMAIN source = 1 .. l
  <2>1. source \in Seq(Node)
    BY DEF CopyInv, SourceInv, SourceIs
  <2> QED BY <2>1, LenProperties
<1>2. PICK n \in Nat : /\ GraphIs(n, target) /\ Acyclic(n, target)
                       /\ Placed(l, n, copies) /\ Crossed(l, n, target, copies)
                       /\ \A i \in 1 .. Len(copies) : SameFrom(source, cloneable, target, copies[i].base)
  BY <1>1 DEF CopyInv, TargetIs
<1>3. target \in [1 .. n -> Node] /\ DOMAIN target = 1 .. n
  BY <1>2 DEF GraphIs
<1>4. /\ copies \in Seq(Instances) /\ DOMAIN copies = 1 .. Len(copies) /\ Len(copies) \in Nat
      /\ ToSet(copies) = {copies[i] : i \in 1 .. Len(copies)}
  <2>1. copies \in Seq(Instances)
    BY <1>2 DEF Placed
  <2> QED BY <2>1, LenProperties DEF ToSet
<1>5. \A S \in (SUBSET DOMAIN target) \ {{}} : \E p \in S : target[p].succ \cap S = {}
  <2> SUFFICES ASSUME NEW S \in (SUBSET DOMAIN target) \ {{}}
               PROVE  \E p \in S : target[p].succ \cap S = {}
    OBVIOUS
  <2>1. S \in SUBSET (1 .. n) /\ S # {}
    BY <1>3
  <2> QED BY <1>2, <2>1 DEF Acyclic
<1>6. ASSUME NEW copy \in ToSet(copies) PROVE SameAs(copy)
  <2>1. PICK i \in 1 .. Len(copies) : copy = copies[i]
    BY <1>4
  <2>2. SameFrom(source, cloneable, target, copy.base)
    BY <1>2, <2>1
  <2> QED BY <1>1, <2>2 DEF SameAs, SameFrom, Inside
<1>7. CrossingEdges = Crossings(copies)
  BY DEF CrossingEdges, Crossings, Links
<1>8. \A p : CopyOf(p) = Holding(l, copies, p)
  BY <1>1 DEF CopyOf, Holding, Inside
<1>9. ASSUME NEW p \in 1 .. n
      PROVE  /\ target[p].id = p
             /\ target[p].deps = {q \in 1 .. n : p \in target[q].succ}
             /\ target[p].numDeps = Cardinality(target[p].deps)
  BY <1>2 DEF GraphIs, Counted
<1>10. ASSUME NEW p \in 1 .. n PROVE Cardinality(CopyOf(p)) <= 1
  <2>1. PICK H : H = Holding(l, copies, p)
    OBVIOUS
  <2>2. \A i \in H : i \in 1 .. Len(copies) /\ p \in Inside(l, copies[i].base) /\ copies[i].base \in Nat
    <3>1. \A i \in H : i \in 1 .. Len(copies) /\ p \in Inside(l, copies[i].base)
      BY <1>4, <2>1 DEF Holding
    <3>2. \A i \in 1 .. Len(copies) : copies[i] \in Instances
      BY <1>4
    <3>3. \A i \in 1 .. Len(copies) : copies[i].base \in Nat
      BY <3>2 DEF Instances
    <3> QED BY <3>1, <3>3
  <2>3. \A i, j \in 1 .. Len(copies) : i < j => copies[i].base + l <= copies[j].base
    BY <1>2 DEF Placed
  <2>4. ASSUME NEW i \in H, NEW j \in H, i < j PROVE FALSE
    <3>1. PICK a \in Nat, b \in Nat : a = copies[i].base /\ b = copies[j].base
      BY <2>2
    <3>2. a + l <= b
      BY <2>2, <2>3, <2>4, <3>1
    <3>3. p \in Inside(l, a) /\ p \in Inside(l, b)
      BY <2>2, <3>1
    <3> QED BY <3>2, <3>3 DEF Inside
  <2>5. \A i, j \in H : i = j
    <3>1. \A i, j \in H : i \in Nat /\ j \in Nat /\ ~(i < j) /\ ~(j < i)
      BY <1>4, <2>2, <2>4
    <3> QED BY <3>1
  <2>6. CASE H = {}
    <3>1. Cardinality(H) = 0
      BY <2>6, FS_EmptySet
    <3> QED BY <1>8, <2>1, <3>1
  <2>7. CASE H # {}
    <3>1. PICK i \in H : TRUE
      BY <2>7
    <3>2. H = {i}
      BY <2>5
    <3>3. Cardinality(H) = 1
      BY <3>2, FS_Singleton
    <3> QED BY <1>8, <2>1, <3>3
  <2> QED BY <2>6, <2>7
<1>11. ASSUME NEW p \in 1 .. n
       PROVE  /\ CopyOf(p) = {} => target[p].work = Own(p)
              /\ \A s \in target[p].succ :
                   (CopyOf(p) = {} \/ CopyOf(p) # CopyOf(s)) <=> <<p, s>> \in CrossingEdges
  <2>1. /\ Holding(l, copies, p) = {} => target[p].work = Own(p)
        /\ \A s \in target[p].succ : CrossingAt(l, copies, p, s)
    BY <1>2 DEF Crossed
  <2> QED BY <1>7, <1>8, <2>1 DEF CrossingAt
<1> QED BY <1>3, <1>5, <1>6, <1>9, <1>10, <1>11 DEF CopyFaithful

\* However a composition is built and however often it is composed, every copy is
\* the source over again and the target keeps what it had.
THEOREM CopiesFaithful == ComposeSpec => []CopyFaithful
<1>1. ComposeInit => CopyInv
  BY CopyStart
<1>2. CopyInv /\ [ComposeNext]_composeVars => CopyInv'
  BY CopyStep
<1>3. CopyInv => CopyFaithful
  BY CopyInvFaithful
<1> QED BY <1>1, <1>2, <1>3, PTL DEF ComposeSpec

-----------------------------------------------------------------------------
(* Placement: the nodes of a machine.                                      *)

\* N nodes on which each of c processors has its place.
Listed(c, N, t) ==
  /\ t \in [0 .. N - 1 -> Seq(0 .. c - 1)]
  /\ \A cpu \in 0 .. c - 1 : \E n \in 0 .. N - 1 : \E i \in DOMAIN t[n] : t[n][i] = cpu
  /\ \A n, k \in 0 .. N - 1 : \A i \in DOMAIN t[n], j \in DOMAIN t[k] :
       t[n][i] = t[k][j] => n = k /\ i = j

\* t lists the processors from a before b, all of them below c.
BlockIs(c, a, b, t) ==
  /\ t \in Seq(0 .. c - 1) /\ DOMAIN t = 1 .. b - a
  /\ \A i \in 1 .. b - a : t[i] = a + i - 1

LEMMA BlockFacts ==
  ASSUME NEW c \in Nat, NEW a \in Nat, NEW b \in Nat, b <= c
  PROVE  BlockIs(c, a, b, Block(a, b))
<1>1. PICK n \in Nat : 1 .. b - a = 1 .. n /\ (n = 0 \/ n = b - a)
  <2>1. CASE a <= b
    BY <2>1
  <2>2. CASE b < a
    <3>1. 1 .. b - a = {} /\ 1 .. 0 = {}
      BY <2>2
    <3> QED BY <3>1
  <2> QED BY <2>1, <2>2
<1>2. Block(a, b) = [i \in 1 .. n |-> a + i - 1]
  BY <1>1 DEF Block
<1>3. \A i \in 1 .. n : a + i - 1 \in 0 .. c - 1
  BY <1>1
<1>4. Block(a, b) \in [1 .. n -> 0 .. c - 1]
  BY <1>2, <1>3
<1>5. Block(a, b) \in Seq(0 .. c - 1)
  BY <1>4, SeqDef
<1> QED BY <1>1, <1>2, <1>5 DEF BlockIs

LEMMA UniformListed ==
  ASSUME NEW m, m.cpus \in Nat \ {0}
  PROVE  Listed(m.cpus, 1, Uniform(m))
<1>1. PICK c \in Nat \ {0} : c = m.cpus
  OBVIOUS
<1>2. PICK b : b = Block(0, c)
  OBVIOUS
<1>3. b \in Seq(0 .. c - 1) /\ DOMAIN b = 1 .. c /\ \A i \in 1 .. c : b[i] = i - 1
  <2>1. PICK a \in Nat : a = 0
    OBVIOUS
  <2>2. b = Block(a, c)
    BY <1>2, <2>1
  <2>3. BlockIs(c, a, c, b)
    BY <2>2, BlockFacts
  <2>4. c - a = c /\ \A i \in Int : a + i - 1 = i - 1
    BY <2>1
  <2> QED BY <2>3, <2>4 DEF BlockIs
<1>4. PICK t : t = Uniform(m)
  OBVIOUS
<1>5. t = [n \in 0 .. 0 |-> b]
  BY <1>1, <1>2, <1>4 DEF Uniform
<1>6. \A cpu \in 0 .. c - 1 : cpu + 1 \in 1 .. c /\ b[cpu + 1] = cpu
  BY <1>3
<1>7. Listed(c, 1, t)
  <2>1. t \in [0 .. 0 -> Seq(0 .. c - 1)] /\ t[0] = b
    BY <1>3, <1>5
  <2>2. 0 .. 1 - 1 = {0}
    OBVIOUS
  <2>3. \A cpu \in 0 .. c - 1 : \E n \in {0} : \E i \in DOMAIN t[n] : t[n][i] = cpu
    <3>1. \A cpu \in 0 .. c - 1 : \E i \in DOMAIN b : b[i] = cpu
      BY <1>3, <1>6
    <3> QED BY <2>1, <3>1
  <2>4. \A i, j \in DOMAIN b : b[i] = b[j] => i = j
    BY <1>3
  <2>5. \A n, k \in {0} : \A i \in DOMAIN t[n], j \in DOMAIN t[k] : t[n][i] = t[k][j] => n = k /\ i = j
    BY <2>1, <2>4
  <2>6. t \in [0 .. 1 - 1 -> Seq(0 .. c - 1)]
    BY <2>1
  <2> QED BY <2>2, <2>3, <2>5, <2>6 DEF Listed
<1> QED BY <1>1, <1>4, <1>7

\* The node n holds the processors from n p to the next multiple.
LEMMA DetectedListed ==
  ASSUME NEW m, m.cpus \in Nat \ {0}, m.nodeDirs \in Nat
  PROVE  \E N \in Nat \ {0} : Listed(m.cpus, N, DetectNuma(m))
<1>1. PICK c \in Nat \ {0}, N \in Nat : c = m.cpus /\ N = m.nodeDirs
  OBVIOUS
<1>2. CASE N <= 1
  <2>1. DetectNuma(m) = Uniform(m)
    BY <1>1, <1>2 DEF DetectNuma
  <2> QED BY <2>1, UniformListed
<1>3. CASE N > 1
  <2>1. PICK p \in Int : p = (c + N - 1) \div N
    <3>1. c + N - 1 \in Nat /\ N \in Nat \ {0}
      BY <1>3
    <3> QED BY <3>1, DivisionFacts
  <2>2. p * N <= c + N - 1 /\ c + N - 1 < p * N + N
    BY <2>1, DivisionFacts, <1>3
  <2>3. p >= 1 /\ c <= p * N
    <3>1. ASSUME p <= 0 PROVE p * N <= 0
      BY <3>1
    <3>2. p * N \in Int
      OBVIOUS
    <3> QED BY <2>2, <3>1, <3>2
  <2>4. PICK t : t = DetectNuma(m)
    OBVIOUS
  <2>5. PICK e : e = [n \in 0 .. N - 1 |-> Min({(n + 1) * p, c})]
    OBVIOUS
  <2>6. t = [n \in 0 .. N - 1 |-> Block(n * p, e[n])]
    <3>1. t = [n \in 0 .. N - 1 |-> Block(n * p, Min({(n + 1) * p, c}))]
      BY <1>1, <1>3, <2>1, <2>4 DEF DetectNuma
    <3> QED BY <2>5, <3>1
  <2>7. ASSUME NEW n \in 0 .. N - 1
        PROVE  /\ n * p \in Nat /\ (n + 1) * p = n * p + p
               /\ e[n] \in Nat /\ e[n] <= c /\ e[n] <= n * p + p
               /\ \A x \in Nat : x < c /\ x < n * p + p => x < e[n]
    <3>1. n * p \in Int /\ n * p >= 0
      BY <2>3
    <3>2. (n + 1) * p = n * p + p /\ (n + 1) * p \in Int
      BY <2>3
    <3>3. e[n] = IF (n + 1) * p <= c THEN (n + 1) * p ELSE c
      BY <2>5, <3>2, LeastOfTwo
    <3>4. PICK u \in Nat : u = n * p
      BY <3>1
    <3>5. e[n] = IF u + p <= c THEN u + p ELSE c
      BY <3>2, <3>3, <3>4
    <3> QED BY <2>3, <3>2, <3>4, <3>5
  <2>8. ASSUME NEW n \in 0 .. N - 1
        PROVE  /\ t[n] \in Seq(0 .. c - 1) /\ DOMAIN t[n] = 1 .. e[n] - n * p
               /\ \A i \in DOMAIN t[n] : /\ t[n][i] = n * p + i - 1
                                         /\ n * p <= t[n][i] /\ t[n][i] < n * p + p
    <3>1. PICK u \in Nat, b \in Nat : u = n * p /\ b = e[n] /\ b <= c /\ b <= u + p
      BY <2>7
    <3>2. t[n] = Block(u, b)
      BY <2>6, <3>1
    <3>3. /\ t[n] \in Seq(0 .. c - 1) /\ DOMAIN t[n] = 1 .. b - u
          /\ \A i \in 1 .. b - u : t[n][i] = u + i - 1
      <4>1. BlockIs(c, u, b, Block(u, b))
        <5>1. c \in Nat /\ u \in Nat /\ b \in Nat /\ b <= c
          BY <3>1
        <5> QED BY <5>1, BlockFacts
      <4> QED BY <3>2, <4>1 DEF BlockIs
    <3>4. DOMAIN t[n] = 1 .. e[n] - n * p
      BY <3>1, <3>3
    <3>5. ASSUME NEW i \in DOMAIN t[n]
          PROVE  t[n][i] = n * p + i - 1 /\ n * p <= t[n][i] /\ t[n][i] < n * p + p
      <4>1. i \in 1 .. b - u /\ t[n][i] = u + i - 1
        BY <3>3
      <4>2. u <= t[n][i] /\ t[n][i] < u + p
        BY <3>1, <4>1
      <4> QED BY <3>1, <4>1, <4>2
    <3> QED BY <3>3, <3>4, <3>5
  <2>9. ASSUME NEW cpu \in 0 .. c - 1
        PROVE  \E n \in 0 .. N - 1 : \E i \in DOMAIN t[n] : t[n][i] = cpu
    <3>1. PICK n \in Int : n = cpu \div p /\ n * p <= cpu /\ cpu < n * p + p
      BY <2>3, DivisionFacts
    <3>2. n >= 0
      <4>1. ASSUME n <= -1 PROVE n * p <= -p
        BY <4>1, <2>3
      <4> QED BY <3>1, <4>1, <2>3
    <3>3. n <= N - 1
      <4>1. ASSUME n >= N PROVE n * p >= N * p
        BY <4>1, <2>3
      <4>2. N * p = p * N /\ p * N \in Int /\ n * p \in Int
        OBVIOUS
      <4> QED BY <2>3, <3>1, <4>1, <4>2
    <3>4. PICK k \in 0 .. N - 1 : k = n
      BY <3>2, <3>3
    <3>5. PICK u \in Nat : u = k * p /\ u <= cpu /\ cpu < u + p
      BY <2>7, <3>1, <3>4
    <3>6. cpu < e[k]
      BY <2>7, <3>5
    <3>7. PICK i \in 1 .. e[k] - u : i = cpu - u + 1
      BY <2>7, <3>5, <3>6
    <3>8. i \in DOMAIN t[k] /\ t[k][i] = u + i - 1
      BY <2>8, <3>5, <3>7
    <3> QED BY <3>5, <3>7, <3>8
  <2>10. ASSUME NEW n \in 0 .. N - 1, NEW k \in 0 .. N - 1, n < k PROVE n * p + p <= k * p
    <3>1. PICK d \in Nat : k = n + 1 + d
      <4>1. k - n - 1 \in Nat /\ k = n + 1 + (k - n - 1)
        BY <2>10
      <4> QED BY <4>1
    <3>2. k * p = n * p + p + d * p
      BY <3>1
    <3>3. d * p >= 0
      BY <2>3
    <3>4. d * p \in Int /\ n * p \in Int
      OBVIOUS
    <3> QED BY <3>2, <3>3, <3>4
  <2>11. ASSUME NEW n \in 0 .. N - 1, NEW k \in 0 .. N - 1,
                NEW i \in DOMAIN t[n], NEW j \in DOMAIN t[k], t[n][i] = t[k][j]
         PROVE  n = k /\ i = j
    <3>1. PICK u \in Nat, v \in Nat : u = n * p /\ v = k * p
      BY <2>7
    <3>2. /\ t[n][i] = u + i - 1 /\ u <= t[n][i] /\ t[n][i] < u + p /\ i \in Int
          /\ t[k][j] = v + j - 1 /\ v <= t[k][j] /\ t[k][j] < v + p /\ j \in Int
      <4>1. DOMAIN t[n] = 1 .. e[n] - u /\ DOMAIN t[k] = 1 .. e[k] - v
        BY <2>8, <3>1
      <4>2. i \in Int /\ j \in Int
        BY <4>1, <2>7
      <4>3. t[n][i] = u + i - 1 /\ u <= t[n][i] /\ t[n][i] < u + p
        BY <2>8, <3>1
      <4>4. t[k][j] = v + j - 1 /\ v <= t[k][j] /\ t[k][j] < v + p
        BY <2>8, <3>1
      <4> QED BY <4>2, <4>3, <4>4
    <3>3. t[n][i] \in Int
      BY <3>2
    <3>4. n < k => u + p <= v
      BY <2>10, <3>1
    <3>5. k < n => v + p <= u
      BY <2>10, <3>1
    <3>6. n = k
      BY <2>11, <3>2, <3>3, <3>4, <3>5
    <3>7. u = v
      BY <3>1, <3>6
    <3>8. u + i - 1 = u + j - 1 /\ i \in Int /\ j \in Int
      BY <2>11, <3>2, <3>7
    <3>9. i = j
      BY <3>8
    <3> QED BY <3>6, <3>9
  <2>12. t \in [0 .. N - 1 -> Seq(0 .. c - 1)]
    BY <2>6, <2>8
  <2>13. Listed(c, N, t)
    BY <2>9, <2>11, <2>12 DEF Listed
  <2> QED BY <1>1, <1>3, <2>4, <2>13
<1> QED BY <1>1, <1>2, <1>3

LEMMA ExtractedListed ==
  ASSUME NEW m, MachineIs(m)
  PROVE  \E N \in Nat \ {0} : Listed(m.cpus, N, ExtractNuma(m))
<1>1. PICK c \in Nat \ {0} : c = m.cpus
  BY DEF MachineIs
<1>2. CASE m.hwlocNodes = <<>>
  <2>1. ExtractNuma(m) = Uniform(m)
    BY <1>2 DEF ExtractNuma
  <2> QED BY <1>1, <2>1, UniformListed
<1>3. CASE m.hwlocNodes # <<>>
  <2>1. PICK h : h = m.hwlocNodes
    OBVIOUS
  <2>2. /\ h \in Seq(Seq(0 .. c - 1)) /\ h # <<>>
        /\ \A cpu \in 0 .. c - 1 : \E n \in DOMAIN h : Contains(h[n], cpu)
        /\ \A n, k \in DOMAIN h : \A i \in DOMAIN h[n], j \in DOMAIN h[k] :
              h[n][i] = h[k][j] => n = k /\ i = j
    BY <1>1, <1>3, <2>1 DEF MachineIs
  <2>3. PICK N \in Nat \ {0} : N = Len(h) /\ DOMAIN h = 1 .. N
    <3>1. Len(h) \in Nat /\ DOMAIN h = 1 .. Len(h)
      BY <2>2
    <3>2. Len(h) # 0
      BY <2>2, EmptySeq
    <3> QED BY <3>1, <3>2
  <2>4. PICK t : t = ExtractNuma(m)
    OBVIOUS
  <2>5. t = [n \in 0 .. N - 1 |-> h[n + 1]]
    BY <1>3, <2>1, <2>3, <2>4 DEF ExtractNuma
  <2>6. \A n \in 0 .. N - 1 : n + 1 \in DOMAIN h /\ t[n] = h[n + 1] /\ h[n + 1] \in Seq(0 .. c - 1)
    BY <2>2, <2>3, <2>5
  <2>7. ASSUME NEW cpu \in 0 .. c - 1
        PROVE  \E n \in 0 .. N - 1 : \E i \in DOMAIN t[n] : t[n][i] = cpu
    <3>1. PICK k \in DOMAIN h : Contains(h[k], cpu)
      BY <2>2
    <3>2. PICK n \in 0 .. N - 1 : k = n + 1
      <4>1. k - 1 \in 0 .. N - 1 /\ k = (k - 1) + 1
        BY <2>3
      <4> QED BY <4>1
    <3>3. PICK i \in 1 .. Len(t[n]) : t[n][i] = cpu
      BY <2>6, <3>1, <3>2 DEF Contains
    <3>4. i \in DOMAIN t[n]
      BY <2>6, <3>3
    <3> QED BY <3>3, <3>4
  <2>8. ASSUME NEW n \in 0 .. N - 1, NEW k \in 0 .. N - 1,
               NEW i \in DOMAIN t[n], NEW j \in DOMAIN t[k], t[n][i] = t[k][j]
        PROVE  n = k /\ i = j
    <3>1. n + 1 = k + 1 /\ i = j
      <4>1. PICK a, b : a = n + 1 /\ b = k + 1
        OBVIOUS
      <4>2. a \in DOMAIN h /\ b \in DOMAIN h /\ t[n] = h[a] /\ t[k] = h[b]
        BY <2>6, <4>1
      <4>3. i \in DOMAIN h[a] /\ j \in DOMAIN h[b] /\ h[a][i] = h[b][j]
        BY <2>8, <4>2
      <4>4. a = b /\ i = j
        BY <2>2, <4>2, <4>3
      <4> QED BY <4>1, <4>4
    <3> QED BY <3>1
  <2>9. t \in [0 .. N - 1 -> Seq(0 .. c - 1)]
    BY <2>5, <2>6
  <2>10. Listed(c, N, t)
    BY <2>7, <2>8, <2>9 DEF Listed
  <2> QED BY <1>1, <2>4, <2>10
<1> QED BY <1>2, <1>3

-----------------------------------------------------------------------------
(* Its caches.                                                             *)

\* Caches of the processors 0 to c - 1, each under one that shares it, and no two
\* of one level for the same processor.
CachesIs(c, C) ==
  /\ \A x \in C : x[1] \in x[3] /\ x[3] \subseteq 0 .. c - 1
  /\ \A x, y \in C : x[2] = y[2] /\ x[3] \cap y[3] # {} => x = y

\* A cache as it was reported for one of its processors.
Reported(m, x) ==
  \E cpu \in DOMAIN m.caches : \E d \in m.caches[cpu] :
    x[1] = Min(d.shared) /\ x[2] = d.level /\ x[3] = d.shared /\ x = <<x[1], x[2], x[3]>>

LEMMA ReportedSound ==
  ASSUME NEW m, MachineIs(m), NEW C, \A x \in C : Reported(m, x)
  PROVE  CachesIs(m.cpus, C)
<1>1. PICK c \in Nat \ {0} : c = m.cpus
  BY DEF MachineIs
<1>2. /\ DOMAIN m.caches \subseteq 0 .. c - 1
      /\ \A cpu \in DOMAIN m.caches : \A a, b \in m.caches[cpu] :
            /\ cpu \in a.shared
            /\ \A k \in a.shared : k \in DOMAIN m.caches /\ a \in m.caches[k]
            /\ a.level = b.level => a = b
  BY <1>1 DEF MachineIs
<1>3. ASSUME NEW x \in C PROVE x[1] \in x[3] /\ x[3] \subseteq 0 .. c - 1
  <2>1p. PICK p \in DOMAIN m.caches : \E d \in m.caches[p] :
          x[1] = Min(d.shared) /\ x[2] = d.level /\ x[3] = d.shared /\ x = <<x[1], x[2], x[3]>>
    BY DEF Reported
  <2>1. PICK d \in m.caches[p] :
          x[1] = Min(d.shared) /\ x[2] = d.level /\ x[3] = d.shared /\ x = <<x[1], x[2], x[3]>>
    BY <2>1p
  <2>2. p \in d.shared /\ \A k \in d.shared : k \in DOMAIN m.caches
    BY <1>2
  <2>3. d.shared \subseteq 0 .. c - 1
    BY <1>2, <2>2
  <2>4. PICK S \in SUBSET Nat : S = d.shared /\ S # {}
    BY <2>2, <2>3
  <2>5. PICK l \in S : \A y \in S : l <= y
    BY <2>4, LeastNatural
  <2>6. Min(S) \in S
    BY <2>5 DEF Min
  <2> QED BY <2>1, <2>3, <2>4, <2>6
<1>4. ASSUME NEW x \in C, NEW y \in C, x[2] = y[2], x[3] \cap y[3] # {} PROVE x = y
  <2>1p. PICK p \in DOMAIN m.caches : \E d \in m.caches[p] :
          x[1] = Min(d.shared) /\ x[2] = d.level /\ x[3] = d.shared /\ x = <<x[1], x[2], x[3]>>
    BY DEF Reported
  <2>1. PICK d \in m.caches[p] :
          x[1] = Min(d.shared) /\ x[2] = d.level /\ x[3] = d.shared /\ x = <<x[1], x[2], x[3]>>
    BY <2>1p
  <2>2p. PICK q \in DOMAIN m.caches : \E e \in m.caches[q] :
          y[1] = Min(e.shared) /\ y[2] = e.level /\ y[3] = e.shared /\ y = <<y[1], y[2], y[3]>>
    BY DEF Reported
  <2>2. PICK e \in m.caches[q] :
          y[1] = Min(e.shared) /\ y[2] = e.level /\ y[3] = e.shared /\ y = <<y[1], y[2], y[3]>>
    BY <2>2p
  <2>3. PICK k : k \in d.shared /\ k \in e.shared
    BY <1>4, <2>1, <2>2
  <2>4. k \in DOMAIN m.caches /\ d \in m.caches[k] /\ e \in m.caches[k]
    BY <1>2, <2>3
  <2>5. d.level = e.level
    BY <1>4, <2>1, <2>2
  <2>6. d = e
    BY <1>2, <2>4, <2>5
  <2>7. x[1] = y[1] /\ x[2] = y[2] /\ x[3] = y[3]
    BY <2>1, <2>2, <2>6
  <2> QED BY <2>1, <2>2, <2>7
<1> QED BY <1>1, <1>3, <1>4 DEF CachesIs

LEMMA ExtractedCaches ==
  ASSUME NEW m, MachineIs(m)
  PROVE  CachesIs(m.cpus, ExtractCaches(m))
<1> SUFFICES ASSUME NEW x \in ExtractCaches(m) PROVE Reported(m, x)
  BY ReportedSound
<1>1. PICK d \in UNION {m.caches[cpu] : cpu \in DOMAIN m.caches} : x = <<Min(d.shared), d.level, d.shared>>
  BY DEF ExtractCaches
<1>2. PICK cpu \in DOMAIN m.caches : d \in m.caches[cpu]
  BY <1>1
<1>3. x[1] = Min(d.shared) /\ x[2] = d.level /\ x[3] = d.shared /\ x = <<x[1], x[2], x[3]>>
  BY <1>1
<1> QED BY <1>2, <1>3 DEF Reported

LEMMA ProbedCaches ==
  ASSUME NEW m, MachineIs(m)
  PROVE  CachesIs(m.cpus, ProbeCaches(m))
<1>1. PICK c \in Nat \ {0} : c = m.cpus
  BY DEF MachineIs
<1>2. PICK F : F = UNION {{<<cpu, x.level, x.shared>> : x \in {d \in m.caches[cpu] : Min(d.shared) = cpu}} :
                          cpu \in DOMAIN m.caches}
  OBVIOUS
<1>3. ProbeCaches(m) = IF F = {} THEN {<<0, 3, 0 .. c - 1>>} ELSE F
  BY <1>1, <1>2 DEF ProbeCaches
<1>4. CASE F = {}
  <2>1. PICK t : t = <<0, 3, 0 .. c - 1>>
    OBVIOUS
  <2>2. t[1] = 0 /\ t[3] = 0 .. c - 1 /\ 0 \in 0 .. c - 1
    BY <2>1
  <2>3. ProbeCaches(m) = {t}
    BY <1>3, <1>4, <2>1
  <2>4. CachesIs(c, {t})
    BY <2>2 DEF CachesIs
  <2> QED BY <1>1, <2>3, <2>4
<1>5. CASE F # {}
  <2>1. ASSUME NEW x \in F PROVE Reported(m, x)
    <3>1. PICK cpu \in DOMAIN m.caches :
            x \in {<<cpu, y.level, y.shared>> : y \in {d \in m.caches[cpu] : Min(d.shared) = cpu}}
      BY <1>2
    <3>2. PICK d \in m.caches[cpu] : Min(d.shared) = cpu /\ x = <<cpu, d.level, d.shared>>
      BY <3>1
    <3>3. x[1] = Min(d.shared) /\ x[2] = d.level /\ x[3] = d.shared /\ x = <<x[1], x[2], x[3]>>
      BY <3>2
    <3> QED BY <3>3 DEF Reported
  <2>2. ProbeCaches(m) = F
    BY <1>3, <1>5
  <2> QED BY <2>1, <2>2, ReportedSound
<1> QED BY <1>4, <1>5

\* The domains are counted by the first processor.
LEMMA IndexFacts ==
  ASSUME NEW c \in Nat, CachesIs(c, caches)
  PROVE  /\ IsFiniteSet(L3Domains) /\ Cardinality(L3Domains) \in Nat
         /\ \A x \in L3Domains : Index(x) \in 0 .. Cardinality(L3Domains) - 1
         /\ \A x, y \in L3Domains : Index(x) = Index(y) => x = y
<1>1. PICK L : L = L3Domains
  OBVIOUS
<1>2. \A x \in L : x[1] \in x[3] /\ x[1] \in 0 .. c - 1
  BY <1>1 DEF L3Domains, CachesIs
<1>3. ASSUME NEW x \in L, NEW y \in L, x[1] = y[1] PROVE x = y
  <2>1. x \in caches /\ y \in caches /\ x[2] = y[2]
    BY <1>1 DEF L3Domains
  <2>2. x[1] \in x[3] \cap y[3]
    BY <1>2, <1>3
  <2> QED BY <2>1, <2>2 DEF CachesIs
<1>4. IsFiniteSet(L) /\ Cardinality(L) \in Nat
  <2>1. PICK f : f = [x \in L |-> x[1]]
    OBVIOUS
  <2>2. f \in Injection(L, 0 .. c - 1)
    BY <1>2, <1>3, <2>1 DEF Injection, IsInjective
  <2>3. IsFiniteSet(0 .. c - 1)
    BY FS_Interval
  <2> QED BY <2>2, <2>3, FS_Injection, FS_CardinalityType
<1>5. PICK B : B = [x \in L |-> {d \in L : d[1] < x[1]}]
  OBVIOUS
<1>6. \A x \in L : Index(x) = Cardinality(B[x])
  BY <1>1, <1>5 DEF Index
<1>7. ASSUME NEW x \in L
      PROVE  /\ B[x] \subseteq L /\ x \notin B[x] /\ IsFiniteSet(B[x])
             /\ Cardinality(B[x]) \in 0 .. Cardinality(L) - 1
  <2>1. B[x] \subseteq L /\ x \notin B[x]
    BY <1>2, <1>5
  <2>2. IsFiniteSet(L \ {x}) /\ Cardinality(L \ {x}) = Cardinality(L) - 1
    BY <1>4, CardinalityWithout, FS_RemoveElement
  <2>3. B[x] \subseteq L \ {x}
    BY <2>1
  <2>4. IsFiniteSet(B[x]) /\ Cardinality(B[x]) <= Cardinality(L \ {x}) /\ Cardinality(B[x]) \in Nat
    BY <2>2, <2>3, FS_Subset, FS_CardinalityType
  <2> QED BY <1>4, <2>1, <2>2, <2>4
<1>8. ASSUME NEW x \in L, NEW y \in L, x[1] < y[1] PROVE Cardinality(B[x]) # Cardinality(B[y])
  <2>1. B[x] \subseteq B[y]
    BY <1>2, <1>5, <1>8
  <2>2. x \in B[y] /\ x \notin B[x]
    BY <1>5, <1>7, <1>8
  <2> QED BY <1>7, <2>1, <2>2, FS_Subset
<1>9. ASSUME NEW x \in L, NEW y \in L, Index(x) = Index(y) PROVE x = y
  <2>1. ~(x[1] < y[1]) /\ ~(y[1] < x[1])
    BY <1>6, <1>8, <1>9
  <2>2. x[1] = y[1]
    BY <1>2, <2>1
  <2> QED BY <1>3, <2>2
<1> QED BY <1>1, <1>4, <1>6, <1>7, <1>9

-----------------------------------------------------------------------------
(* Workers and their processors.                                           *)

\* Each worker so far is bound to the processors it was assigned.
Bindings ==
  /\ affinity \in Seq(SUBSET Cpus) /\ Len(affinity) <= MaxWorkers
  /\ \A i \in 1 .. Len(affinity) : affinity[i] = CpusForWorker(i - 1, MaxWorkers)

\* What the backends report of a machine, and what was made of it.
PlaceInv ==
  /\ machine.cpus \in Nat \ {0} /\ machine.packages \subseteq SUBSET Cpus
  /\ \E N \in Nat \ {0} : Listed(machine.cpus, N, nodes)
  /\ CachesIs(machine.cpus, caches)
  /\ strategy \in HwlocStrategies \cup NumaPinnings
  /\ strategy \in NumaPinnings => backend = "sysfs"
  /\ panicked => strategy \in {"RoundRobin", "Sparse"} /\ \E n \in DOMAIN nodes : nodes[n] = <<>>
  /\ Bindings

\* A worker is bound to p of P when its turn in a rotation over m is f[p].
InTurns(P, m, f) ==
  \A p \in P : \A j \in 1 .. Len(affinity) : affinity[j] = p <=> (j - 1) % m = f[p]

\* Places that are taken in turn are taken evenly.
LEMMA EvenTurns ==
  ASSUME Bindings, NEW P, NEW m \in Nat \ {0}, NEW f \in [P -> 0 .. m - 1], InTurns(P, m, f)
  PROVE  Even(P)
<1>1. PICK k \in Nat : k = Len(affinity) /\ DOMAIN affinity = 1 .. k
  BY DEF Bindings
<1>2. ASSUME NEW p \in P PROVE Load(p) = Cardinality(Turn(k, m, f[p]))
  <2>1. {j \in DOMAIN affinity : affinity[j] = p} = Turn(k, m, f[p])
    BY <1>1 DEF Turn, InTurns
  <2> QED BY <2>1 DEF Load
<1>3. ASSUME NEW p \in P, NEW q \in P PROVE Load(p) <= Load(q) + 1
  <2>1. f[p] \in 0 .. m - 1 /\ f[q] \in 0 .. m - 1
    OBVIOUS
  <2>2. PICK a \in 0 .. m - 1, b \in 0 .. m - 1 : a = f[p] /\ b = f[q]
    BY <2>1
  <2>3. Cardinality(Turn(k, m, a)) <= Cardinality(Turn(k, m, b)) + 1
    BY TurnsEven
  <2> QED BY <1>2, <2>2, <2>3
<1> QED BY <1>3 DEF Even

LEMMA NodesAre ==
  ASSUME NEW c \in Nat, NEW N \in Nat \ {0}, Listed(c, N, nodes)
  PROVE  /\ DOMAIN nodes = 0 .. N - 1 /\ NumNodes = N
         /\ \A n \in 0 .. N - 1 :
              /\ nodes[n] \in Seq(0 .. c - 1) /\ Len(nodes[n]) \in Nat
              /\ DOMAIN nodes[n] = 1 .. Len(nodes[n])
              /\ \A i \in DOMAIN nodes[n] : nodes[n][i] \in 0 .. c - 1
              /\ (nodes[n] # <<>> => Len(nodes[n]) \in Nat \ {0})
<1>1. DOMAIN nodes = 0 .. N - 1 /\ \A n \in 0 .. N - 1 : nodes[n] \in Seq(0 .. c - 1)
  BY DEF Listed
<1>2. Cardinality(0 .. N - 1) = N
  <2>1. Cardinality(0 .. N - 1) = IF 0 > N - 1 THEN 0 ELSE N - 1 - 0 + 1
    BY FS_Interval
  <2> QED BY <2>1
<1>3. NumNodes = N
  BY <1>1, <1>2 DEF NumNodes
<1>4. ASSUME NEW n \in 0 .. N - 1
      PROVE  /\ Len(nodes[n]) \in Nat /\ DOMAIN nodes[n] = 1 .. Len(nodes[n])
             /\ \A i \in DOMAIN nodes[n] : nodes[n][i] \in 0 .. c - 1
             /\ (nodes[n] # <<>> => Len(nodes[n]) \in Nat \ {0})
  <2>1. PICK t \in Seq(0 .. c - 1) : t = nodes[n]
    BY <1>1
  <2>2. t # <<>> => Len(t) \in Nat \ {0}
    BY EmptySeq
  <2> QED BY <2>1, <2>2
<1> QED BY <1>1, <1>3, <1>4

LEMMA RoundRobinIs ==
  ASSUME NEW c \in Nat, NEW N \in Nat \ {0}, Listed(c, N, nodes), NEW w \in Nat
  PROVE  /\ RoundRobin(w) \in SUBSET (0 .. c - 1)
         /\ \A n \in 0 .. N - 1 : \A i \in DOMAIN nodes[n] :
              RoundRobin(w) = {nodes[n][i]} <=> OnPlace(w, N, Len(nodes[n]), n, i - 1)
<1>1. PICK k \in 0 .. N - 1, a \in Nat : k = w % N /\ a = w \div N
  <2>1. w % N \in 0 .. N - 1
    BY ModuloNext
  <2>2. w \div N \in Nat
    <3>1. PICK q \in Int : q = w \div N /\ w < q * N + N
      BY DivisionFacts
    <3>2. ASSUME q <= -1 PROVE q * N <= -N
      BY <3>2
    <3>3. q * N \in Int
      OBVIOUS
    <3> QED BY <3>1, <3>2, <3>3
  <2> QED BY <2>1, <2>2
<1>2. PICK t : t = nodes[k]
  OBVIOUS
<1>3. RoundRobin(w) = IF t = <<>> THEN {} ELSE {t[(a % Len(t)) + 1]}
  BY <1>1, <1>2, NodesAre DEF RoundRobin
<1>4. /\ Len(t) \in Nat /\ DOMAIN t = 1 .. Len(t) /\ (t # <<>> => Len(t) \in Nat \ {0})
      /\ \A i \in DOMAIN t : t[i] \in 0 .. c - 1
  BY <1>2, NodesAre
<1>5. CASE t = <<>>
  <2>1. RoundRobin(w) = {}
    BY <1>3, <1>5
  <2>2. DOMAIN t = {}
    BY <1>5
  <2>3. ASSUME NEW n \in 0 .. N - 1, NEW i \in DOMAIN nodes[n]
        PROVE  RoundRobin(w) # {nodes[n][i]} /\ w % N # n
    BY <1>1, <1>2, <2>1, <2>2
  <2> QED BY <2>1, <2>3 DEF OnPlace
<1>6. CASE t # <<>>
  <2>1. PICK L \in Nat \ {0} : L = Len(t)
    BY <1>4, <1>6
  <2>2. PICK h \in 0 .. L - 1 : h = a % L
    BY ModuloNext
  <2>3. h + 1 \in DOMAIN t /\ RoundRobin(w) = {t[h + 1]}
    BY <1>3, <1>4, <1>6, <2>1, <2>2
  <2>4. ASSUME NEW n \in 0 .. N - 1, NEW i \in DOMAIN nodes[n]
        PROVE  RoundRobin(w) = {nodes[n][i]} <=> OnPlace(w, N, Len(nodes[n]), n, i - 1)
    <3>1. i \in Int
      <4>1. DOMAIN nodes[n] = 1 .. Len(nodes[n]) /\ Len(nodes[n]) \in Nat
        BY NodesAre
      <4> QED BY <4>1
    <3>2. RoundRobin(w) = {nodes[n][i]} <=> t[h + 1] = nodes[n][i]
      BY <2>3
    <3>3. PICK g \in DOMAIN t : g = h + 1
      BY <2>3
    <3>4. t[g] = nodes[n][i] => k = n /\ g = i
      BY <1>2 DEF Listed
    <3>5. ASSUME t[g] = nodes[n][i] PROVE w % N = n /\ (w \div N) % Len(nodes[n]) = i - 1
      <4>1. k = n /\ g = i
        BY <3>4, <3>5
      <4>2. (w \div N) % Len(nodes[n]) = h
        BY <1>1, <1>2, <2>1, <2>2, <4>1
      <4>3. h = i - 1
        BY <3>1, <3>3, <4>1
      <4> QED BY <1>1, <4>1, <4>2, <4>3
    <3>6. ASSUME w % N = n, (w \div N) % Len(nodes[n]) = i - 1 PROVE t[g] = nodes[n][i]
      <4>1. k = n
        BY <1>1, <3>6
      <4>2. h = i - 1
        BY <1>1, <1>2, <2>1, <2>2, <3>6, <4>1
      <4>3. g = i
        BY <2>2, <3>1, <3>3, <4>2
      <4> QED BY <1>2, <4>1, <4>3
    <3> QED BY <3>2, <3>3, <3>5, <3>6 DEF OnPlace
  <2>5. RoundRobin(w) \in SUBSET (0 .. c - 1)
    BY <1>4, <2>3
  <2> QED BY <2>4, <2>5
<1> QED BY <1>5, <1>6

LEMMA RoundRobinEven ==
  ASSUME PlaceInv, strategy \in {"NUMARoundRobin", "RoundRobin"}, NEW n \in DOMAIN nodes
  PROVE  Even({{nodes[n][i]} : i \in DOMAIN nodes[n]})
<1>1. PICK c \in Nat, N \in Nat \ {0} : c = machine.cpus /\ Listed(c, N, nodes)
  BY DEF PlaceInv
<1>2. /\ n \in 0 .. N - 1 /\ DOMAIN nodes[n] = 1 .. Len(nodes[n])
      /\ Len(nodes[n]) \in Nat /\ (nodes[n] # <<>> => Len(nodes[n]) \in Nat \ {0})
  BY <1>1, NodesAre
<1>3. PICK P : P = {{nodes[n][i]} : i \in DOMAIN nodes[n]}
  OBVIOUS
<1>4. CASE nodes[n] = <<>>
  <2>1. P = {}
    BY <1>3, <1>4
  <2> QED BY <1>3, <2>1 DEF Even
<1>5. CASE nodes[n] # <<>>
  <2>1. PICK L \in Nat \ {0} : L = Len(nodes[n])
    BY <1>2, <1>5
  <2>2. PICK M \in Nat \ {0} : M = N * L
    <3>1. N * L >= N /\ N * L \in Int
      OBVIOUS
    <3> QED BY <3>1
  <2>3. PICK g : g = [p \in P |-> CHOOSE i \in 1 .. L : p = {nodes[n][i]}]
    OBVIOUS
  <2>4. \A p \in P : g[p] \in 1 .. L /\ p = {nodes[n][g[p]]}
    BY <1>2, <1>3, <2>1, <2>3
  <2>5. PICK f : f = [p \in P |-> N * (g[p] - 1) + n]
    OBVIOUS
  <2>6. ASSUME NEW p \in P
        PROVE  /\ f[p] \in 0 .. M - 1
               /\ \A w \in Nat : RoundRobin(w) = p <=> w % M = f[p]
    <3>1. PICK i \in 0 .. L - 1 : i = g[p] - 1 /\ i + 1 = g[p]
      BY <2>4
    <3>2. f[p] = N * i + n
      BY <2>5, <3>1
    <3>3. f[p] \in 0 .. M - 1
      <4>1. N * i + n \in 0 .. N * L - 1
        BY <1>2, TwoRounds
      <4> QED BY <2>2, <3>2, <4>1
    <3>4. ASSUME NEW w \in Nat PROVE RoundRobin(w) = p <=> w % M = f[p]
      <4>1. PICK j \in DOMAIN nodes[n] : j = g[p] /\ j - 1 = i
        BY <1>2, <2>1, <2>4, <3>1
      <4>2. RoundRobin(w) = {nodes[n][j]} <=> OnPlace(w, N, Len(nodes[n]), n, j - 1)
        <5>1. \A a \in 0 .. N - 1 : \A b \in DOMAIN nodes[a] :
                RoundRobin(w) = {nodes[a][b]} <=> OnPlace(w, N, Len(nodes[a]), a, b - 1)
          BY <1>1, RoundRobinIs
        <5> QED BY <1>2, <5>1
      <4>3. InRotation(w, N, L, n, i)
        <5>1. n \in 0 .. N - 1
          BY <1>2
        <5> QED BY <5>1, TwoRounds
      <4> QED BY <2>1, <2>2, <2>4, <3>2, <4>1, <4>2, <4>3 DEF InRotation
    <3> QED BY <3>3, <3>4
  <2>7. f \in [P -> 0 .. M - 1]
    BY <2>5, <2>6
  <2>8. ASSUME NEW p \in P, NEW j \in 1 .. Len(affinity)
        PROVE  affinity[j] = p <=> (j - 1) % M = f[p]
    <3>1. j - 1 \in Nat
      BY DEF PlaceInv, Bindings
    <3>2. affinity[j] = CpusForWorker(j - 1, MaxWorkers)
      BY DEF PlaceInv, Bindings
    <3>3. CpusForWorker(j - 1, MaxWorkers) = RoundRobin(j - 1)
      BY DEF CpusForWorker
    <3> QED BY <2>6, <3>1, <3>2, <3>3
  <2>9. Bindings
    BY DEF PlaceInv
  <2>10. InTurns(P, M, f)
    BY <2>8 DEF InTurns
  <2>11. Even(P)
    BY <2>7, <2>9, <2>10, EvenTurns
  <2> QED BY <1>3, <2>11
<1> QED BY <1>4, <1>5

LEMMA CoresEven ==
  ASSUME PlaceInv, strategy = "PhysicalCores"
  PROVE  Even({{2 * k} : k \in 0 .. (machine.cpus - 1) \div 2})
<1>1. PICK c \in Nat \ {0} : c = machine.cpus
  BY DEF PlaceInv
<1>2. PICK m \in Nat \ {0} : m = (c + 1) \div 2 /\ (c - 1) \div 2 = m - 1
  <2>1. (c + 1) \div 2 \in Nat \ {0} /\ (c - 1) \div 2 = ((c + 1) \div 2) - 1
    OBVIOUS
  <2> QED BY <2>1
<1>3. PICK P : P = {{2 * k} : k \in 0 .. m - 1}
  OBVIOUS
<1>4. PICK f : f = [p \in P |-> CHOOSE k \in 0 .. m - 1 : p = {2 * k}]
  OBVIOUS
<1>5. \A p \in P : f[p] \in 0 .. m - 1 /\ p = {2 * f[p]}
  BY <1>3, <1>4
<1>6. f \in [P -> 0 .. m - 1]
  BY <1>4, <1>5
<1>7. ASSUME NEW p \in P, NEW j \in 1 .. Len(affinity)
      PROVE  affinity[j] = p <=> (j - 1) % m = f[p]
  <2>1. PICK w \in Nat : w = j - 1
    BY DEF PlaceInv, Bindings
  <2>2. affinity[j] = CpusForWorker(w, MaxWorkers)
    BY <2>1 DEF PlaceInv, Bindings
  <2>3. CpusForWorker(w, MaxWorkers) = PhysicalCores(w)
    BY DEF CpusForWorker
  <2>4. PhysicalCores(w) = {2 * (w % m)}
    BY <1>1, <1>2 DEF PhysicalCores
  <2>5. w % m \in 0 .. m - 1
    BY ModuloNext
  <2>6. {2 * (w % m)} = {2 * f[p]} <=> w % m = f[p]
    <3>1. PICK a \in Nat, b \in Nat : a = w % m /\ b = f[p]
      BY <1>5, <2>5
    <3>2. {2 * a} = {2 * b} <=> a = b
      <4>1. 2 * a = 2 * b <=> a = b
        OBVIOUS
      <4> QED BY <4>1
    <3> QED BY <3>1, <3>2
  <2> QED BY <1>5, <2>1, <2>2, <2>3, <2>4, <2>6
<1>8. Bindings /\ InTurns(P, m, f)
  BY <1>7 DEF PlaceInv, InTurns
<1>9. Even(P)
  BY <1>6, <1>8, EvenTurns
<1> QED BY <1>1, <1>2, <1>3, <1>9

LEMMA DomainIs ==
  ASSUME NEW c \in Nat, CachesIs(c, caches), NEW x \in L3Domains, NEW w \in Nat
  PROVE  L3CacheDomain(w) = x[3] <=> w % Cardinality(L3Domains) = Index(x)
<1>1. PICK n \in Nat : n = Cardinality(L3Domains)
  BY IndexFacts
<1>2. PICK D : D = {d \in L3Domains : Index(d) = w % n}
  OBVIOUS
<1>3. L3CacheDomain(w) = UNION {d[3] : d \in D}
  BY <1>1, <1>2 DEF L3CacheDomain
<1>4. \A d \in L3Domains : d \in caches /\ d[2] = 3 /\ d[1] \in d[3]
  BY DEF L3Domains, CachesIs
<1>5. ASSUME w % n = Index(x) PROVE L3CacheDomain(w) = x[3]
  <2>1. \A d \in D : d = x
    BY <1>2, <1>5, IndexFacts
  <2>2. x \in D
    BY <1>2, <1>5
  <2>3. D = {x}
    BY <2>1, <2>2
  <2> QED BY <1>3, <2>3
<1>6. ASSUME L3CacheDomain(w) = x[3] PROVE w % n = Index(x)
  <2>1. x[1] \in x[3]
    BY <1>4
  <2>2. PICK d \in D : x[1] \in d[3]
    BY <1>3, <1>6, <2>1
  <2>3. d \in L3Domains /\ Index(d) = w % n
    BY <1>2
  <2>4. x[2] = d[2] /\ x[3] \cap d[3] # {}
    BY <1>4, <2>1, <2>2, <2>3
  <2>5. d = x
    BY <1>4, <2>3, <2>4 DEF CachesIs
  <2> QED BY <2>3, <2>5
<1> QED BY <1>1, <1>5, <1>6

LEMMA DomainsEven ==
  ASSUME PlaceInv, strategy = "L3CacheDomain"
  PROVE  Even({c[3] : c \in L3Domains})
<1>1. PICK c \in Nat : CachesIs(c, caches)
  BY DEF PlaceInv
<1>2. PICK P : P = {x[3] : x \in L3Domains}
  OBVIOUS
<1>3. CASE L3Domains = {}
  <2>1. P = {}
    BY <1>2, <1>3
  <2> QED BY <1>2, <2>1 DEF Even
<1>4. CASE L3Domains # {}
  <2>1. PICK n \in Nat \ {0} : n = Cardinality(L3Domains)
    BY <1>1, <1>4, IndexFacts, FS_EmptySet
  <2>2. PICK g : g = [p \in P |-> CHOOSE x \in L3Domains : p = x[3]]
    OBVIOUS
  <2>3. \A p \in P : g[p] \in L3Domains /\ p = g[p][3]
    BY <1>2, <2>2
  <2>4. PICK f : f = [p \in P |-> Index(g[p])]
    OBVIOUS
  <2>5. \A p \in P : f[p] = Index(g[p])
    BY <2>4
  <2>6. f \in [P -> 0 .. n - 1]
    BY <1>1, <2>1, <2>3, <2>4, IndexFacts
  <2>7. ASSUME NEW p \in P, NEW j \in 1 .. Len(affinity)
        PROVE  affinity[j] = p <=> (j - 1) % n = f[p]
    <3>1. PICK w \in Nat : w = j - 1
      BY DEF PlaceInv, Bindings
    <3>2. affinity[j] = CpusForWorker(w, MaxWorkers)
      BY <3>1 DEF PlaceInv, Bindings
    <3>3. CpusForWorker(w, MaxWorkers) = L3CacheDomain(w)
      BY DEF CpusForWorker
    <3>4. PICK x \in L3Domains : x = g[p] /\ p = x[3] /\ f[p] = Index(x)
      BY <2>3, <2>5
    <3>5. L3CacheDomain(w) = x[3] <=> w % Cardinality(L3Domains) = Index(x)
      BY <1>1, DomainIs
    <3> QED BY <2>1, <3>1, <3>2, <3>3, <3>4, <3>5
  <2>8. Bindings /\ InTurns(P, n, f)
    BY <2>7 DEF PlaceInv, InTurns
  <2>9. Even(P)
    BY <2>1, <2>6, <2>8, EvenTurns
  <2> QED BY <1>2, <2>9
<1> QED BY <1>3, <1>4

\* The offsets add the lengths of the nodes up.
LEMMA OffsetFacts ==
  ASSUME NEW c \in Nat, NEW N \in Nat \ {0}, Listed(c, N, nodes)
  PROVE  /\ \A n \in 0 .. N : Offset(n) \in Nat
         /\ Offset(0) = 0
         /\ \A n \in 0 .. N - 1 : Offset(n + 1) = Offset(n) + Len(nodes[n])
         /\ \A n, k \in 0 .. N : n <= k => Offset(n) <= Offset(k)
<1>1. DOMAIN nodes = 0 .. N - 1
  BY NodesAre
<1>2. PICK B : B = [n \in 0 .. N |-> UNION {{k} \X DOMAIN nodes[k] : k \in {j \in 0 .. N - 1 : j < n}}]
  OBVIOUS
<1>3. \A n \in 0 .. N : Offset(n) = Cardinality(B[n])
  BY <1>1, <1>2 DEF Offset
<1>4. B[0] = {}
  <2>1. {j \in 0 .. N - 1 : j < 0} = {} /\ 0 \in 0 .. N
    OBVIOUS
  <2> QED BY <1>2, <2>1
<1>5. ASSUME NEW n \in 0 .. N - 1
      PROVE  /\ n \in 0 .. N /\ n + 1 \in 0 .. N
             /\ B[n + 1] = B[n] \cup ({n} \X DOMAIN nodes[n]) /\ B[n] \cap ({n} \X DOMAIN nodes[n]) = {}
             /\ IsFiniteSet({n} \X DOMAIN nodes[n])
             /\ Cardinality({n} \X DOMAIN nodes[n]) = Len(nodes[n])
  <2>1. PICK m \in 0 .. N : m = n + 1 /\ n \in 0 .. N
    OBVIOUS
  <2>2. {j \in 0 .. N - 1 : j < m} = {j \in 0 .. N - 1 : j < n} \cup {n}
    BY <2>1
  <2>3. B[m] = B[n] \cup ({n} \X DOMAIN nodes[n])
    BY <1>2, <2>1, <2>2
  <2>4. B[n] \cap ({n} \X DOMAIN nodes[n]) = {}
    <3>1. B[n] = UNION {{k} \X DOMAIN nodes[k] : k \in {j \in 0 .. N - 1 : j < n}}
      BY <1>2, <2>1
    <3>2. \A x \in B[n] : x[1] # n
      BY <3>1
    <3> QED BY <3>2
  <2>5. PICK l \in Nat : l = Len(nodes[n]) /\ DOMAIN nodes[n] = 1 .. l
    BY NodesAre
  <2>6. IsFiniteSet(1 .. l) /\ Cardinality(1 .. l) = l
    <3>1. Cardinality(1 .. l) = IF 1 > l THEN 0 ELSE l - 1 + 1
      BY FS_Interval
    <3>2. Cardinality(1 .. l) = l
      BY <3>1
    <3> QED BY <3>2, FS_Interval
  <2>7. IsFiniteSet({n}) /\ Cardinality({n}) = 1
    BY FS_Singleton
  <2>8. IsFiniteSet({n} \X (1 .. l)) /\ Cardinality({n} \X (1 .. l)) = 1 * l
    BY <2>6, <2>7, FS_Product
  <2>9. 1 * l = l
    OBVIOUS
  <2> QED BY <2>1, <2>3, <2>4, <2>5, <2>8, <2>9
<1>6. DEFINE S == {n \in Nat : n <= N => IsFiniteSet(B[n])}
<1>7. 0 \in S
  BY <1>4, FS_EmptySet
<1>8. ASSUME NEW n \in S \cap Nat PROVE n + 1 \in S
  <2> SUFFICES ASSUME n + 1 <= N PROVE IsFiniteSet(B[n + 1])
    OBVIOUS
  <2>1. n \in 0 .. N - 1 /\ IsFiniteSet(B[n])
    OBVIOUS
  <2>2. PICK T : /\ B[n + 1] = B[n] \cup T /\ IsFiniteSet(T)
    BY <1>5, <2>1
  <2> QED BY <2>1, <2>2, FS_Union
<1> HIDE DEF S
<1>9. Nat \subseteq S
  BY <1>7, <1>8, SetInduction
<1>10. ASSUME NEW n \in 0 .. N PROVE IsFiniteSet(B[n]) /\ Cardinality(B[n]) \in Nat
  <2>1. n \in S
    BY <1>9
  <2>2. IsFiniteSet(B[n])
    BY <2>1 DEF S
  <2> QED BY <2>2, FS_CardinalityType
<1>11. ASSUME NEW n \in 0 .. N - 1 PROVE Offset(n + 1) = Offset(n) + Len(nodes[n])
  <2>1. PICK T : T = {n} \X DOMAIN nodes[n]
    OBVIOUS
  <2>2. /\ B[n + 1] = B[n] \cup T /\ B[n] \cap T = {}
        /\ IsFiniteSet(T) /\ Cardinality(T) = Len(nodes[n]) /\ IsFiniteSet(B[n])
    BY <1>5, <1>10, <2>1
  <2>3. Cardinality(B[n] \cup T) = Cardinality(B[n]) + Cardinality(T) - Cardinality(B[n] \cap T)
    BY <2>2, FS_Union
  <2>4. Cardinality(B[n] \cap T) = 0
    BY <2>2, FS_EmptySet
  <2>5. Cardinality(B[n]) \in Nat /\ Cardinality(T) \in Nat
    BY <2>2, FS_CardinalityType
  <2>6. Cardinality(B[n + 1]) = Cardinality(B[n]) + Cardinality(T)
    BY <2>2, <2>3, <2>4, <2>5
  <2> QED BY <1>3, <1>5, <2>2, <2>6
<1>12. ASSUME NEW n \in 0 .. N, NEW k \in 0 .. N, n <= k PROVE Offset(n) <= Offset(k)
  <2>1. B[n] \subseteq B[k]
    BY <1>2, <1>12
  <2> QED BY <1>3, <1>10, <2>1, FS_Subset
<1>13. Offset(0) = 0
  BY <1>3, <1>4, FS_EmptySet
<1> QED BY <1>3, <1>10, <1>11, <1>12, <1>13

\* A worker's number belongs to one place.
LEMMA OneOffset ==
  ASSUME NEW c \in Nat, NEW N \in Nat \ {0}, Listed(c, N, nodes),
         NEW n \in 0 .. N - 1, NEW k \in 0 .. N - 1, NEW i \in DOMAIN nodes[n], NEW j \in DOMAIN nodes[k],
         Offset(n) + i = Offset(k) + j
  PROVE  n = k /\ i = j
<1>1. ASSUME NEW a \in 0 .. N - 1, NEW b \in 0 .. N - 1, a < b, NEW g \in DOMAIN nodes[a], NEW h \in DOMAIN nodes[b]
      PROVE  Offset(a) + g < Offset(b) + h
  <2>1. /\ DOMAIN nodes[a] = 1 .. Len(nodes[a]) /\ Len(nodes[a]) \in Nat
        /\ DOMAIN nodes[b] = 1 .. Len(nodes[b]) /\ Len(nodes[b]) \in Nat
    BY NodesAre
  <2>2. a \in 0 .. N /\ b \in 0 .. N /\ a + 1 \in 0 .. N /\ a + 1 <= b
    BY <1>1
  <2>3. Offset(a) \in Nat /\ Offset(b) \in Nat /\ Offset(a + 1) = Offset(a) + Len(nodes[a]) /\ Offset(a + 1) <= Offset(b)
    <3>1. Offset(a) \in Nat /\ Offset(b) \in Nat
      BY <2>2, OffsetFacts
    <3>2. Offset(a + 1) = Offset(a) + Len(nodes[a])
      BY OffsetFacts
    <3>3. Offset(a + 1) <= Offset(b)
      BY <2>2, OffsetFacts
    <3> QED BY <3>1, <3>2, <3>3
  <2> QED BY <2>1, <2>3
<1>2. ~(n < k) /\ ~(k < n)
  <2>1. /\ DOMAIN nodes[n] = 1 .. Len(nodes[n]) /\ Len(nodes[n]) \in Nat
        /\ DOMAIN nodes[k] = 1 .. Len(nodes[k]) /\ Len(nodes[k]) \in Nat
    BY NodesAre
  <2>2. n \in 0 .. N /\ k \in 0 .. N
    OBVIOUS
  <2>3. Offset(n) \in Nat /\ Offset(k) \in Nat /\ i \in Int /\ j \in Int
    BY <2>1, <2>2, OffsetFacts
  <2>4. n < k => Offset(n) + i < Offset(k) + j
    BY <1>1
  <2>5. k < n => Offset(k) + j < Offset(n) + i
    BY <1>1
  <2> QED BY <2>3, <2>4, <2>5
<1>3. n = k
  BY <1>2
<1>4. i = j
  <2>1. DOMAIN nodes[n] = 1 .. Len(nodes[n]) /\ Len(nodes[n]) \in Nat /\ n \in 0 .. N
    BY NodesAre
  <2>2. Offset(n) \in Nat /\ i \in Int /\ j \in Int
    BY <1>3, <2>1, OffsetFacts
  <2> QED BY <1>3, <2>2
<1> QED BY <1>3, <1>4

\* A worker has a place, or all places have one.
LEMMA DenseIs ==
  ASSUME NEW c \in Nat, NEW N \in Nat \ {0}, Listed(c, N, nodes), NEW w \in Nat
  PROVE  \/ \E n \in 0 .. N - 1 : \E i \in DOMAIN nodes[n] : w = Offset(n) + i - 1 /\ Dense(w) = {nodes[n][i]}
         \/ /\ Dense(w) = {}
            /\ \A n \in 0 .. N - 1 : \A i \in DOMAIN nodes[n] : Offset(n) + i - 1 < w
<1>1. /\ DOMAIN nodes = 0 .. N - 1
      /\ \A n \in 0 .. N - 1 : Len(nodes[n]) \in Nat /\ DOMAIN nodes[n] = 1 .. Len(nodes[n])
  BY NodesAre
<1>2. PICK K : K = {k \in 0 .. N - 1 : w \in Offset(k) .. Offset(k) + Len(nodes[k]) - 1}
  OBVIOUS
<1>3. Dense(w) = UNION {{nodes[k][w - Offset(k) + 1]} : k \in K}
  BY <1>1, <1>2 DEF Dense
<1>4. \A n \in 0 .. N - 1 : /\ Offset(n) \in Nat /\ n \in 0 .. N /\ n + 1 \in 0 .. N
                            /\ Offset(n + 1) = Offset(n) + Len(nodes[n])
  <2>1. \A n \in 0 .. N - 1 : n \in 0 .. N /\ n + 1 \in 0 .. N
    OBVIOUS
  <2> QED BY <2>1, OffsetFacts
<1>5. CASE K = {}
  <2>1. Dense(w) = {}
    BY <1>3, <1>5
  <2>2. DEFINE S == {n \in Nat : n <= N => Offset(n) <= w}
  <2>3. 0 \in S
    BY OffsetFacts
  <2>4. ASSUME NEW n \in S \cap Nat PROVE n + 1 \in S
    <3> SUFFICES ASSUME n + 1 <= N PROVE Offset(n + 1) <= w
      OBVIOUS
    <3>1. n \in 0 .. N - 1 /\ Offset(n) <= w
      OBVIOUS
    <3>2. w \notin Offset(n) .. Offset(n) + Len(nodes[n]) - 1
      BY <1>2, <1>5, <3>1
    <3>3. PICK a \in Nat, l \in Nat : a = Offset(n) /\ l = Len(nodes[n])
      BY <1>1, <1>4, <3>1
    <3>4. a + l <= w
      BY <3>1, <3>2, <3>3
    <3> QED BY <1>4, <3>1, <3>3, <3>4
  <2> HIDE DEF S
  <2>5. Nat \subseteq S
    BY <2>3, <2>4, SetInduction
  <2>6. ASSUME NEW n \in 0 .. N - 1, NEW i \in DOMAIN nodes[n] PROVE Offset(n) + i - 1 < w
    <3>1. n + 1 \in S /\ n + 1 <= N
      BY <2>5
    <3>2. Offset(n + 1) <= w
      BY <3>1 DEF S
    <3>3. i \in 1 .. Len(nodes[n]) /\ Len(nodes[n]) \in Nat /\ Offset(n) \in Nat
      BY <1>1, <1>4
    <3>4. Offset(n) + Len(nodes[n]) <= w
      BY <1>4, <3>2
    <3> QED BY <3>3, <3>4
  <2> QED BY <2>1, <2>6
<1>6. CASE K # {}
  <2>1. PICK n \in K : TRUE
    BY <1>6
  <2>2. PICK a \in Nat, l \in Nat : a = Offset(n) /\ l = Len(nodes[n]) /\ n \in 0 .. N - 1 /\ w \in a .. a + l - 1
    BY <1>1, <1>2, <1>4
  <2>3. PICK i \in 1 .. l : i = w - a + 1 /\ w = a + i - 1
    BY <2>2
  <2>4. i \in DOMAIN nodes[n]
    BY <1>1, <2>2, <2>3
  <2>5. ASSUME NEW k \in K PROVE k = n
    <3>1. k \in 0 .. N - 1 /\ w \in Offset(k) .. Offset(k) + Len(nodes[k]) - 1 /\ Offset(k) \in Nat /\ Len(nodes[k]) \in Nat
      BY <1>1, <1>2, <1>4
    <3>2. k < n => Offset(k) + Len(nodes[k]) <= a
      <4>1. k < n => Offset(k + 1) <= Offset(n)
        <5>1. k + 1 \in 0 .. N /\ n \in 0 .. N /\ (k < n => k + 1 <= n)
          BY <2>2, <3>1
        <5> QED BY <5>1, OffsetFacts
      <4> QED BY <1>4, <2>2, <3>1, <4>1
    <3>3. n < k => a + l <= Offset(k)
      <4>1. n < k => Offset(n + 1) <= Offset(k)
        <5>1. n + 1 \in 0 .. N /\ k \in 0 .. N /\ (n < k => n + 1 <= k)
          BY <2>2, <3>1
        <5> QED BY <5>1, OffsetFacts
      <4> QED BY <1>4, <2>2, <4>1
    <3>4. ~(k < n) /\ ~(n < k)
      <4>1. PICK b \in Nat, h \in Nat : b = Offset(k) /\ h = Len(nodes[k]) /\ w \in b .. b + h - 1
        BY <3>1
      <4>2. (k < n => b + h <= a) /\ (n < k => a + l <= b)
        BY <3>2, <3>3, <4>1
      <4>3. ~(b + h <= a) /\ ~(a + l <= b)
        <5>1. a <= w /\ w < a + l
          BY <2>2
        <5>2. b <= w /\ w < b + h
          BY <4>1
        <5> QED BY <5>1, <5>2
      <4> QED BY <4>2, <4>3
    <3> QED BY <2>2, <3>1, <3>4
  <2>6. K = {n}
    BY <2>5
  <2>7. Dense(w) = {nodes[n][i]}
    BY <1>3, <2>2, <2>3, <2>6
  <2> QED BY <2>2, <2>3, <2>4, <2>7
<1> QED BY <1>5, <1>6

LEMMA DenseFills ==
  ASSUME PlaceInv, strategy \in {"NUMADense", "Dense"}
  PROVE  /\ \A cpu \in Cpus : Load({cpu}) <= 1
         /\ Load({}) > 0 => \A cpu \in Cpus : Load({cpu}) = 1
<1>1. PICK c \in Nat, N \in Nat \ {0} : c = machine.cpus /\ Listed(c, N, nodes)
  BY DEF PlaceInv
<1>2. Cpus = 0 .. c - 1
  BY <1>1 DEF Cpus
<1>3. PICK k \in Nat : k = Len(affinity) /\ DOMAIN affinity = 1 .. k
  BY DEF PlaceInv, Bindings
<1>4. \A j \in 1 .. k : j - 1 \in Nat /\ affinity[j] = Dense(j - 1)
  <2> SUFFICES ASSUME NEW j \in 1 .. k PROVE affinity[j] = Dense(j - 1)
    OBVIOUS
  <2>1. affinity[j] = CpusForWorker(j - 1, MaxWorkers)
    BY <1>3 DEF PlaceInv, Bindings
  <2>2. CpusForWorker(j - 1, MaxWorkers) = Dense(j - 1)
    BY DEF CpusForWorker
  <2> QED BY <2>1, <2>2
<1>5. \A p : Load(p) = Cardinality({j \in 1 .. k : affinity[j] = p})
  BY <1>3 DEF Load
<1>6. ASSUME NEW n \in 0 .. N - 1, NEW i \in DOMAIN nodes[n], NEW j \in 1 .. k, affinity[j] = {nodes[n][i]}
      PROVE  j = Offset(n) + i
  <2>1. PICK w \in Nat : w = j - 1 /\ Dense(w) = {nodes[n][i]}
    BY <1>4, <1>6
  <2>2. PICK a \in 0 .. N - 1 : \E b \in DOMAIN nodes[a] : w = Offset(a) + b - 1 /\ Dense(w) = {nodes[a][b]}
    <3>1. Dense(w) # {}
      BY <2>1
    <3> QED BY <1>1, <3>1, DenseIs
  <2>3. PICK b \in DOMAIN nodes[a] : w = Offset(a) + b - 1 /\ Dense(w) = {nodes[a][b]}
    BY <2>2
  <2>4. nodes[a][b] = nodes[n][i]
    BY <2>1, <2>3
  <2>5. a = n /\ b = i
    BY <1>1, <2>4 DEF Listed
  <2>6. Offset(n) \in Nat /\ i \in Int
    <3>1. DOMAIN nodes[n] = 1 .. Len(nodes[n]) /\ Len(nodes[n]) \in Nat
      BY <1>1, NodesAre
    <3>2. n \in 0 .. N
      OBVIOUS
    <3> QED BY <1>1, <3>1, <3>2, OffsetFacts
  <2>7. j - 1 = Offset(n) + i - 1
    BY <2>1, <2>3, <2>5
  <2> QED BY <2>6, <2>7
<1>7. ASSUME NEW cpu \in Cpus
      PROVE  /\ Load({cpu}) <= 1
             /\ Load({}) > 0 => Load({cpu}) = 1
  <2>1. PICK n \in 0 .. N - 1 : \E i \in DOMAIN nodes[n] : nodes[n][i] = cpu
    BY <1>1, <1>2 DEF Listed
  <2>2. PICK i \in DOMAIN nodes[n] : nodes[n][i] = cpu
    BY <2>1
  <2>3. PICK x : x = Offset(n) + i
    OBVIOUS
  <2>4. PICK W : W = {j \in 1 .. k : affinity[j] = {cpu}}
    OBVIOUS
  <2>5. W \subseteq {x}
    BY <1>6, <2>2, <2>3, <2>4
  <2>6. IsFiniteSet({x}) /\ Cardinality({x}) = 1
    BY FS_Singleton
  <2>7. Cardinality(W) <= 1 /\ Cardinality(W) \in Nat
    BY <2>5, <2>6, FS_Subset, FS_CardinalityType
  <2>8. ASSUME Load({}) > 0 PROVE x \in W
    <3>1. PICK j \in 1 .. k : affinity[j] = {}
      <4>1. {j \in 1 .. k : affinity[j] = {}} # {}
        BY <1>5, <2>8, FS_EmptySet
      <4> QED BY <4>1
    <3>2. PICK w \in Nat : w = j - 1 /\ Dense(w) = {}
      BY <1>4, <3>1
    <3>3. \A m \in 0 .. N - 1 : \A h \in DOMAIN nodes[m] : Offset(m) + h - 1 < w
      BY <1>1, <3>2, DenseIs
    <3>4. Offset(n) \in Nat /\ i \in Int /\ i >= 1
      <4>1. DOMAIN nodes[n] = 1 .. Len(nodes[n]) /\ Len(nodes[n]) \in Nat
        BY <1>1, NodesAre
      <4>2. n \in 0 .. N
        OBVIOUS
      <4> QED BY <1>1, <4>1, <4>2, OffsetFacts
    <3>5. PICK v \in Nat : v = Offset(n) + i - 1 /\ v + 1 = x /\ v < w
      BY <2>3, <3>3, <3>4
    <3>6. x \in 1 .. k /\ x - 1 = v
      BY <3>2, <3>5
    <3>7. affinity[x] = Dense(v)
      BY <1>4, <3>6
    <3>8. PICK a \in 0 .. N - 1 : \E b \in DOMAIN nodes[a] : v = Offset(a) + b - 1 /\ Dense(v) = {nodes[a][b]}
      <4>1. ~(Offset(n) + i - 1 < v)
        BY <3>5
      <4> QED BY <1>1, <4>1, DenseIs
    <3>9. PICK b \in DOMAIN nodes[a] : v = Offset(a) + b - 1 /\ Dense(v) = {nodes[a][b]}
      BY <3>8
    <3>10. x = Offset(a) + b
      BY <1>6, <3>6, <3>7, <3>9
    <3>11. a = n /\ b = i
      <4>1. Offset(a) + b = Offset(n) + i
        BY <2>3, <3>10
      <4> QED BY <1>1, <4>1, OneOffset
    <3>12. Dense(v) = {cpu}
      BY <2>2, <3>9, <3>11
    <3> QED BY <2>4, <3>6, <3>7, <3>12
  <2>9. x \in W => W = {x}
    BY <2>5
  <2> QED BY <1>5, <2>4, <2>6, <2>7, <2>8, <2>9
<1> QED BY <1>7

LEMMA SparseInside ==
  ASSUME NEW c \in Nat, NEW N \in Nat \ {0}, Listed(c, N, nodes), NEW M \in Nat, NEW w \in Nat, w < M
  PROVE  Sparse(w, M) \in SUBSET (0 .. c - 1)
<1>1. PICK p \in Int : p = (M + N - 1) \div N /\ M + N - 1 < p * N + N
  <2>1. M + N - 1 \in Nat
    OBVIOUS
  <2> QED BY <2>1, DivisionFacts
<1>2. p \in Nat \ {0}
  <2>1. ASSUME p <= 0 PROVE p * N <= 0
    BY <2>1
  <2>2. p * N \in Int
    OBVIOUS
  <2> QED BY <1>1, <2>1, <2>2
<1>3. PICK n \in Int : n = w \div p
  BY <1>2, DivisionFacts
<1>4. PICK h \in Nat : h = w % p
  <2>1. w % p \in 0 .. p - 1
    BY <1>2, ModuloNext
  <2> QED BY <1>2, <2>1
<1>5. NumNodes = N /\ DOMAIN nodes = 0 .. N - 1
  BY NodesAre
<1>6. Sparse(w, M) = IF n \notin DOMAIN nodes \/ nodes[n] = <<>> THEN {}
                     ELSE {nodes[n][(h % Len(nodes[n])) + 1]}
  BY <1>1, <1>3, <1>4, <1>5 DEF Sparse
<1>7. ASSUME n \in DOMAIN nodes, nodes[n] # <<>>
      PROVE  nodes[n][(h % Len(nodes[n])) + 1] \in 0 .. c - 1
  <2>1. PICK L \in Nat \ {0} : L = Len(nodes[n])
    BY <1>5, <1>7, NodesAre
  <2>2. PICK g \in 0 .. L - 1 : g = h % L
    BY ModuloNext
  <2>3. g + 1 \in 1 .. L
    OBVIOUS
  <2>4. DOMAIN nodes[n] = 1 .. L /\ \A i \in DOMAIN nodes[n] : nodes[n][i] \in 0 .. c - 1
    BY <1>5, <1>7, <2>1, NodesAre
  <2> QED BY <2>1, <2>2, <2>3, <2>4
<1> QED BY <1>6, <1>7

LEMMA DenseInside ==
  ASSUME NEW c \in Nat, NEW N \in Nat \ {0}, Listed(c, N, nodes), NEW w \in Nat
  PROVE  Dense(w) \in SUBSET (0 .. c - 1)
<1>1. CASE Dense(w) = {}
  BY <1>1
<1>2. CASE Dense(w) # {}
  <2>1. PICK n \in 0 .. N - 1 : \E i \in DOMAIN nodes[n] : w = Offset(n) + i - 1 /\ Dense(w) = {nodes[n][i]}
    BY <1>2, DenseIs
  <2>2. PICK i \in DOMAIN nodes[n] : Dense(w) = {nodes[n][i]}
    BY <2>1
  <2>3. nodes[n][i] \in 0 .. c - 1
    BY NodesAre
  <2> QED BY <2>2, <2>3
<1> QED BY <1>1, <1>2

LEMMA CoresInside ==
  ASSUME NEW c \in Nat \ {0}, c = machine.cpus, NEW w \in Nat
  PROVE  PhysicalCores(w) \in SUBSET (0 .. c - 1)
<1>1. PICK m \in Nat \ {0} : m = (c + 1) \div 2 /\ 2 * m <= c + 1
  <2>1. (c + 1) \div 2 \in Nat \ {0} /\ 2 * ((c + 1) \div 2) <= c + 1
    OBVIOUS
  <2> QED BY <2>1
<1>2. PICK k \in 0 .. m - 1 : k = w % m
  BY ModuloNext
<1>3. PhysicalCores(w) = {2 * k}
  BY <1>1, <1>2 DEF PhysicalCores
<1>4. 2 * k \in 0 .. c - 1
  BY <1>1
<1> QED BY <1>3, <1>4

\* No strategy assigns a processor that the machine does not have.
LEMMA AssignedInside ==
  ASSUME PlaceInv, MaxWorkers \in Nat, NEW w \in Nat, w < MaxWorkers
  PROVE  CpusForWorker(w, MaxWorkers) \in SUBSET Cpus
<1>1. PICK c \in Nat \ {0}, N \in Nat \ {0} : c = machine.cpus /\ Listed(c, N, nodes)
  BY DEF PlaceInv
<1>2. Cpus = 0 .. c - 1
  BY <1>1 DEF Cpus
<1>3. CASE strategy = "None"
  BY <1>3 DEF CpusForWorker
<1>4. CASE strategy \in {"NUMARoundRobin", "RoundRobin"}
  <2>1. CpusForWorker(w, MaxWorkers) = RoundRobin(w)
    BY <1>4 DEF CpusForWorker
  <2> QED BY <1>1, <1>2, <2>1, RoundRobinIs
<1>5. CASE strategy \in {"NUMADense", "Dense"}
  <2>1. CpusForWorker(w, MaxWorkers) = Dense(w)
    BY <1>5 DEF CpusForWorker
  <2> QED BY <1>1, <1>2, <2>1, DenseInside
<1>6. CASE strategy = "Sparse"
  <2>1. CpusForWorker(w, MaxWorkers) = Sparse(w, MaxWorkers)
    BY <1>6 DEF CpusForWorker
  <2> QED BY <1>1, <1>2, <2>1, SparseInside
<1>7. CASE strategy = "PhysicalCores"
  <2>1. CpusForWorker(w, MaxWorkers) = PhysicalCores(w)
    BY <1>7 DEF CpusForWorker
  <2> QED BY <1>1, <1>2, <2>1, CoresInside
<1>8. CASE strategy = "L3CacheDomain"
  <2>1. CpusForWorker(w, MaxWorkers) = L3CacheDomain(w)
    BY <1>8 DEF CpusForWorker
  <2>2. \A d \in L3Domains : d[3] \subseteq 0 .. c - 1
    BY <1>1 DEF PlaceInv, CachesIs, L3Domains
  <2>3. L3CacheDomain(w) \subseteq 0 .. c - 1
    BY <2>2 DEF L3CacheDomain
  <2> QED BY <1>2, <2>1, <2>3
<1> QED BY <1>3, <1>4, <1>5, <1>6, <1>7, <1>8 DEF PlaceInv, HwlocStrategies, NumaPinnings

LEMMA PlaceStart == PlaceInit => PlaceInv
<1> SUFFICES ASSUME PlaceInit PROVE PlaceInv
  OBVIOUS
<1>1. MachineIs(machine) /\ MaxWorkers \in Nat
  BY PlacementAssumption DEF PlaceInit
<1>2. /\ machine.cpus \in Nat \ {0} /\ machine.nodeDirs \in Nat
      /\ machine.packages \subseteq SUBSET Cpus
  BY <1>1 DEF MachineIs, Cpus
<1>3. /\ \E N \in Nat \ {0} : Listed(machine.cpus, N, nodes)
      /\ CachesIs(machine.cpus, caches)
  <2>1. CASE nodes = ExtractNuma(machine) /\ caches = ExtractCaches(machine)
    BY <1>1, <2>1, ExtractedListed, ExtractedCaches
  <2>2. CASE nodes = DetectNuma(machine) /\ caches = ProbeCaches(machine)
    BY <1>1, <1>2, <2>2, DetectedListed, ProbedCaches
  <2> QED BY <2>1, <2>2 DEF PlaceInit
<1>4. /\ strategy \in HwlocStrategies \cup NumaPinnings
      /\ strategy \in NumaPinnings => backend = "sysfs"
      /\ ~panicked
  BY DEF PlaceInit, HwlocStrategies, NumaPinnings
<1>5. affinity = <<>>
  BY DEF PlaceInit
<1>6. affinity \in Seq(SUBSET Cpus) /\ Len(affinity) = 0
  BY <1>5
<1>7. Len(affinity) <= MaxWorkers
  BY <1>1, <1>6
<1>8. \A i \in 1 .. Len(affinity) : affinity[i] = CpusForWorker(i - 1, MaxWorkers)
  BY <1>6
<1> QED BY <1>2, <1>3, <1>4, <1>6, <1>7, <1>8 DEF PlaceInv, Bindings

LEMMA PlaceStep == PlaceInv /\ [PlaceNext]_placeVars => PlaceInv'
<1> SUFFICES ASSUME PlaceInv, [PlaceNext]_placeVars PROVE PlaceInv'
  OBVIOUS
<1>1. UNCHANGED <<machine, backend, nodes, caches, strategy>>
  BY DEF PlaceNext, Pin, placeVars
<1>2. /\ Cpus' = Cpus
      /\ \A w : CpusForWorker(w, MaxWorkers)' = CpusForWorker(w, MaxWorkers)
  <2>1. \A w : RoundRobin(w)' = RoundRobin(w)
    BY <1>1 DEF RoundRobin, NumNodes
  <2>2. \A n : Offset(n)' = Offset(n)
    BY <1>1 DEF Offset
  <2>3. \A w : Dense(w)' = Dense(w)
    BY <1>1, <2>2 DEF Dense
  <2>4. \A w : Sparse(w, MaxWorkers)' = Sparse(w, MaxWorkers)
    BY <1>1 DEF Sparse, NumNodes
  <2>5. \A w : PhysicalCores(w)' = PhysicalCores(w)
    BY <1>1 DEF PhysicalCores
  <2>6. L3Domains' = L3Domains /\ \A d : Index(d)' = Index(d)
    BY <1>1 DEF L3Domains, Index
  <2>7. \A w : L3CacheDomain(w)' = L3CacheDomain(w)
    BY <2>6 DEF L3CacheDomain
  <2>8. Cpus' = Cpus
    BY <1>1 DEF Cpus
  <2> QED BY <1>1, <2>1, <2>3, <2>4, <2>5, <2>7, <2>8 DEF CpusForWorker
<1>3. Bindings'
  <2>1. CASE Pin /\ ~Panics(Len(affinity))
    <3>1. PICK k \in Nat : k = Len(affinity) /\ k < MaxWorkers /\ affinity \in Seq(SUBSET Cpus)
      BY <2>1 DEF PlaceInv, Bindings, Pin
    <3>2. PICK x : x = CpusForWorker(k, MaxWorkers)
      OBVIOUS
    <3>3. x \in SUBSET Cpus
      BY <3>1, <3>2, AssignedInside, PlacementAssumption
    <3>4. affinity' = Append(affinity, x)
      BY <2>1, <3>1, <3>2 DEF Pin
    <3>5. /\ affinity' \in Seq(SUBSET Cpus) /\ Len(affinity') = k + 1
          /\ \A i \in 1 .. k : affinity'[i] = affinity[i]
          /\ affinity'[k + 1] = x
      BY <3>1, <3>3, <3>4
    <3>6. Len(affinity') <= MaxWorkers
      BY <3>1, <3>5, PlacementAssumption
    <3>7. ASSUME NEW i \in 1 .. k + 1 PROVE affinity'[i] = CpusForWorker(i - 1, MaxWorkers)
      <4>1. CASE i = k + 1
        BY <3>2, <3>5, <4>1
      <4>2. CASE i # k + 1
        <5>1. i \in 1 .. k
          BY <4>2
        <5> QED BY <3>1, <3>5, <5>1 DEF PlaceInv, Bindings
      <4> QED BY <4>1, <4>2
    <3> QED BY <1>2, <3>5, <3>6, <3>7 DEF Bindings
  <2>2. CASE UNCHANGED placeVars \/ (Pin /\ Panics(Len(affinity)))
    <3>1. affinity' = affinity
      BY <2>2 DEF placeVars, Pin
    <3> QED BY <1>2, <3>1 DEF PlaceInv, Bindings
  <2> QED BY <2>1, <2>2 DEF PlaceNext
<1>4. panicked' => strategy \in {"RoundRobin", "Sparse"} /\ \E n \in DOMAIN nodes : nodes[n] = <<>>
  <2>1. CASE panicked' = panicked
    BY <2>1 DEF PlaceInv
  <2>2. CASE panicked' # panicked
    <3>1. Panics(Len(affinity)) /\ Len(affinity) \in Nat
      BY <2>2 DEF PlaceNext, Pin, placeVars, PlaceInv, Bindings
    <3>2. PICK c \in Nat \ {0}, N \in Nat \ {0} : c = machine.cpus /\ Listed(c, N, nodes)
      BY DEF PlaceInv
    <3>3. DOMAIN nodes = 0 .. N - 1 /\ NumNodes = N
      BY <3>2, NodesAre
    <3>4. Len(affinity) % NumNodes \in DOMAIN nodes
      BY <3>1, <3>3, Remainder
    <3> QED BY <3>1, <3>4 DEF Panics
  <2> QED BY <2>1, <2>2
<1> QED BY <1>1, <1>2, <1>3, <1>4 DEF PlaceInv

LEMMA PlaceInvSound == PlaceInv => PlacementSound
<1> SUFFICES ASSUME PlaceInv PROVE PlacementSound
  OBVIOUS
<1>1. PICK c \in Nat \ {0}, N \in Nat \ {0} : c = machine.cpus /\ Listed(c, N, nodes)
  BY DEF PlaceInv
<1>2. Cpus = 0 .. c - 1
  BY <1>1 DEF Cpus
<1>3. /\ DOMAIN nodes = 0 .. N - 1
      /\ \A n \in 0 .. N - 1 : /\ DOMAIN nodes[n] = 1 .. Len(nodes[n])
                               /\ \A i \in DOMAIN nodes[n] : nodes[n][i] \in 0 .. c - 1
  BY <1>1, NodesAre
<1>4. ASSUME NEW n \in 0 .. N - 1, NEW i \in DOMAIN nodes[n] PROVE NodeForCpu(nodes[n][i]) = n
  <2>1. PICK cpu : cpu = nodes[n][i]
    OBVIOUS
  <2>2. PICK O : O = {k \in DOMAIN nodes : Contains(nodes[k], cpu)}
    OBVIOUS
  <2>3. n \in O
    BY <1>3, <2>1, <2>2 DEF Contains
  <2>4. ASSUME NEW k \in O PROVE k = n
    <3>1. k \in 0 .. N - 1 /\ \E j \in 1 .. Len(nodes[k]) : nodes[k][j] = cpu
      BY <1>3, <2>2 DEF Contains
    <3>2. PICK j \in DOMAIN nodes[k] : nodes[k][j] = cpu
      BY <1>3, <3>1
    <3> QED BY <1>1, <2>1, <3>1, <3>2 DEF Listed
  <2>5. O = {n}
    BY <2>3, <2>4
  <2>6. Max({n}) = n
    <3>1. n \in {n} /\ \A y \in {n} : n >= y
      OBVIOUS
    <3> QED BY <3>1 DEF Max
  <2>7. NodeForCpu(cpu) = IF O = {} THEN -1 ELSE Max(O)
    BY <2>2 DEF NodeForCpu
  <2> QED BY <2>1, <2>5, <2>6, <2>7
<1>5. ASSUME NEW cpu \in Cpus PROVE NodeForCpu(cpu) \in DOMAIN nodes
  <2>1. PICK n \in 0 .. N - 1 : \E i \in DOMAIN nodes[n] : nodes[n][i] = cpu
    BY <1>1, <1>2 DEF Listed
  <2> QED BY <1>3, <1>4, <2>1
<1>6. ASSUME NEW n \in DOMAIN nodes, NEW i \in DOMAIN nodes[n], NEW j \in DOMAIN nodes[n]
      PROVE  nodes[n][i] \in Cpus /\ NodeForCpu(nodes[n][i]) = n /\ (i # j => nodes[n][i] # nodes[n][j])
  <2>1. nodes[n][i] = nodes[n][j] => i = j
    BY <1>1, <1>3 DEF Listed
  <2> QED BY <1>2, <1>3, <1>4, <2>1
<1>7. ASSUME NEW p \in Packages, NEW cpu \in p.cpus PROVE NodeForCpu(cpu) \in p.numaNodes
  <2>1. CASE backend = "sysfs"
    <3>1. PICK n \in DOMAIN nodes : p = [cpus |-> ToSet(nodes[n]), numaNodes |-> {n}]
      BY <2>1 DEF Packages
    <3>2. PICK i \in DOMAIN nodes[n] : nodes[n][i] = cpu
      BY <3>1 DEF ToSet
    <3> QED BY <1>3, <1>4, <3>1, <3>2
  <2>2. CASE backend # "sysfs"
    <3>1. PICK q \in machine.packages :
            p = [cpus |-> q, numaNodes |-> {n \in DOMAIN nodes : ToSet(nodes[n]) \cap q # {}}]
      BY <2>2 DEF Packages
    <3>2. cpu \in 0 .. c - 1 /\ cpu \in q
      BY <1>1, <1>2, <3>1 DEF PlaceInv
    <3>3. PICK n \in 0 .. N - 1 : \E i \in DOMAIN nodes[n] : nodes[n][i] = cpu
      BY <1>1, <3>2 DEF Listed
    <3>4. PICK i \in DOMAIN nodes[n] : nodes[n][i] = cpu
      BY <3>3
    <3>5. NodeForCpu(cpu) = n /\ cpu \in ToSet(nodes[n])
      BY <1>4, <3>4 DEF ToSet
    <3> QED BY <1>3, <3>1, <3>2, <3>5
  <2> QED BY <2>1, <2>2
<1>8. \A x, y \in caches : x[2] = y[2] /\ x[3] \cap y[3] # {} => x = y
  BY DEF PlaceInv, CachesIs
<1>9. \A i \in DOMAIN affinity : affinity[i] \subseteq Cpus
  BY DEF PlaceInv, Bindings
<1>10. strategy \in {"NUMARoundRobin", "RoundRobin"} =>
         \A n \in DOMAIN nodes : Even({{nodes[n][i]} : i \in DOMAIN nodes[n]})
  BY RoundRobinEven
<1>11. strategy \in {"NUMADense", "Dense"} =>
         /\ \A cpu \in Cpus : Load({cpu}) <= 1
         /\ Load({}) > 0 => \A cpu \in Cpus : Load({cpu}) = 1
  BY DenseFills
<1>12. strategy = "PhysicalCores" => Even({{2 * k} : k \in 0 .. (machine.cpus - 1) \div 2})
  BY CoresEven
<1>13. strategy = "L3CacheDomain" => Even({x[3] : x \in L3Domains})
  BY DomainsEven
<1>14. panicked => /\ backend = "sysfs" /\ strategy \in {"RoundRobin", "Sparse"}
                   /\ \E n \in DOMAIN nodes : nodes[n] = <<>>
  BY DEF PlaceInv, NumaPinnings
<1> QED BY <1>5, <1>6, <1>7, <1>8, <1>9, <1>10, <1>11, <1>12, <1>13, <1>14 DEF PlacementSound

\* On every machine on which no two nodes share a processor, with any number of
\* workers: the nodes split the processors, a package names the nodes of its
\* processors, every strategy stays on the machine, and those that spread the
\* workers do so evenly, up to the panic of RoundRobin and Sparse that a node
\* without processors leads to, the only one there is.
THEOREM PlacedEvenly == PlaceSpec => []PlacementSound
<1>1. PlaceInit => PlaceInv
  BY PlaceStart
<1>2. PlaceInv /\ [PlaceNext]_placeVars => PlaceInv'
  BY PlaceStep
<1>3. PlaceInv => PlacementSound
  BY PlaceInvSound
<1> QED BY <1>1, <1>2, <1>3, PTL DEF PlaceSpec

=============================================================================
