--------------------------- MODULE ExecutorProofs ---------------------------
(***************************************************************************)
(* Proofs about Executor.  The first part holds of every flow, subflows    *)
(* and panics included; the others name the flows they are about.          *)
(*                                                                         *)
(* First the queue, its mutex and its condition variable; then the places  *)
(* of the tasks and their dependency counts.  On these rest what Executor  *)
(* owes to the caller of run, for flows without subflow tasks in which no  *)
(* branch names a task twice: it                                           *)
(* implements TaskExecution; the branches that a condition does not take   *)
(* stay idle; the counter of the outstanding tasks is exact, the shutdown  *)
(* flag is raised in time and wait returns after every task that could     *)
(* run.                                                                    *)
(***************************************************************************)
EXTENDS Executor, DataLemmas

-----------------------------------------------------------------------------
(* Every flow: no wakeup is lost.                                          *)

\* A worker that has seen tasks outstanding still sees an empty queue and a
\* lowered flag when it goes to sleep: the queue mutex is what makes it so.
WakeupInv ==
  /\ pc \in [Workers -> Labels]
  /\ \A w \in Workers : pc[w] = "checked" => queue = <<>> /\ ~shutdown
  /\ NoLostWakeup

USE DEF QueueFree, Goto, NotifyAllThen

LEMMA WakeupQueueStep ==
  ASSUME WakeupInv, NEW w \in Workers, QueueStep(w)
  PROVE  WakeupInv'
<1> USE DEF WakeupInv, NoLostWakeup, Labels, shared
<1>1. CASE Pop(w)
  BY <1>1 DEF Pop
<1>2. CASE ExitOnShutdown(w)
  BY <1>2 DEF ExitOnShutdown
<1>3. CASE DetectCompletion(w)
  BY <1>3 DEF DetectCompletion
<1>4. CASE NotifyExit(w)
  BY <1>4 DEF NotifyExit
<1>5. CASE SeeOutstanding(w)
  BY <1>5 DEF SeeOutstanding
<1>6. CASE Wait(w)
  BY <1>6 DEF Wait
<1> QED BY <1>1, <1>2, <1>3, <1>4, <1>5, <1>6 DEF QueueStep

LEMMA WakeupSubflowStep ==
  ASSUME WakeupInv, NEW w \in Workers, SubflowStep(w)
  PROVE  WakeupInv'
<1> USE DEF WakeupInv, NoLostWakeup, Labels, shared
<1>1. CASE SubflowNextId(w)
  BY <1>1 DEF SubflowNextId
<1>2. CASE SubflowBase(w)
  BY <1>2 DEF SubflowBase
<1>3. CASE SubflowEmplace(w)
  BY <1>3 DEF SubflowEmplace
<1>4. CASE SubflowPrecede(w)
  BY <1>4 DEF SubflowPrecede
<1>5. CASE SubflowCount(w)
  BY <1>5 DEF SubflowCount
<1>6. CASE SubflowAnnounce(w)
  BY <1>6 DEF SubflowAnnounce
<1>7. CASE SubflowRegister(w)
  <2>1. pc[w] = "register" /\ (\A v \in Workers : pc[v] # "checked")
        /\ pc' = [pc EXCEPT ![w] = "notifySub"] /\ shutdown' = shutdown
    BY <1>7 DEF SubflowRegister
  <2> QED BY <2>1
<1>8. CASE SubflowNotify(w)
  BY <1>8 DEF SubflowNotify
<1> QED BY <1>1, <1>2, <1>3, <1>4, <1>5, <1>6, <1>7, <1>8 DEF SubflowStep

LEMMA WakeupTaskStep ==
  ASSUME WakeupInv, NEW w \in Workers, TaskStep(w)
  PROVE  WakeupInv'
<1> USE DEF WakeupInv, NoLostWakeup, Labels, shared
<1>1. CASE TakeWork(w)
  BY <1>1 DEF TakeWork
<1>2. CASE RunNothing(w)
  BY <1>2 DEF RunNothing
<1>3. CASE RunStatic(w)
  BY <1>3 DEF RunStatic
<1>4. CASE RunCondition(w)
  BY <1>4 DEF RunCondition
<1>5. CASE RunPanicking(w)
  BY <1>5 DEF RunPanicking
<1>6. CASE Decrement(w)
  BY <1>6 DEF Decrement
<1>7. CASE SelectBranch(w)
  BY <1>7 DEF SelectBranch
<1>8. CASE Release(w)
  <2>1. /\ pc[w] = "release" /\ queue' = queue /\ shutdown' = shutdown
        /\ \/ pc' = [pc EXCEPT ![w] = "lock"]
           \/ pc' = [pc EXCEPT ![w] = "push"]
    BY <1>8 DEF Release
  <2> QED BY <2>1
<1>9. CASE PushReady(w)
  BY <1>9 DEF PushReady
<1>10. CASE NotifyReady(w)
  BY <1>10 DEF NotifyReady
<1> QED
  BY <1>1, <1>2, <1>3, <1>4, <1>5, <1>6, <1>7, <1>8, <1>9, <1>10 DEF TaskStep

\* No wakeup is lost: whenever a worker sleeps while a task is queued or the
\* shutdown flag is up, the thread that queued it or raised it has yet to
\* notify (push, drop, notify_all at lines 474-479 and 336-338 of executor.rs),
\* for any number of workers and any flow.
THEOREM LostWakeup == Spec => []NoLostWakeup
<1>1. Init => WakeupInv
  BY DEF Init, WakeupInv, NoLostWakeup, Labels
<1>2. WakeupInv /\ [Next]_vars => WakeupInv'
  <2> SUFFICES ASSUME WakeupInv, [Next]_vars PROVE WakeupInv'
    OBVIOUS
  <2> USE DEF WakeupInv, NoLostWakeup, Labels, shared
  <2>1. CASE MainNotify
    BY <2>1 DEF MainNotify
  <2>2. CASE MainReturn
    BY <2>2 DEF MainReturn
  <2>3. ASSUME NEW w \in Workers, WorkerStep(w) PROVE WakeupInv'
    BY <2>3, WakeupQueueStep, WakeupSubflowStep, WakeupTaskStep DEF WorkerStep
  <2>4. ASSUME NEW w \in Workers, WakeSpuriously(w) PROVE WakeupInv'
    BY <2>4 DEF WakeSpuriously
  <2>5. CASE UNCHANGED vars
    BY <2>5 DEF vars
  <2> QED BY <2>1, <2>2, <2>3, <2>4, <2>5 DEF Next, Halted
<1>3. WakeupInv => NoLostWakeup
  BY DEF WakeupInv
<1> QED BY <1>1, <1>2, <1>3, PTL DEF Spec

-----------------------------------------------------------------------------
(* Flows without subflow tasks: the graph stands still during the run.     *)

NoSubflows ==
  \A flow \in Flows : \A p \in DOMAIN flow.graph : flow.graph[p].work.kind # "subflow"

\* No branch names a task more than once.  The builder does not ensure it: it is
\* what a program has to respect for the promises below to hold.
NoRepeats ==
  \A flow \in Flows : \A c \in DOMAIN flow.branches :
    \A b \in DOMAIN flow.branches[c] : IsInjective(flow.branches[c][b])

Nodes == DOMAIN graph

\* Labels of a worker that holds a task between the queue and its retirement.
Held == {"take", "run", "decrement", "select", "release"}

QuietLabels == Labels \ {"base", "body", "announce", "register", "notifySub"}

Unreleased(t) == {d \in graph[t].deps : <<d, t>> \notin fired}

FlowInv == \E flow \in Flows : graph = flow.graph /\ branches = flow.branches

TypesInv ==
  /\ taken \subseteq Nodes /\ finished \subseteq Nodes /\ fired \subseteq Nodes \X Nodes
  /\ depCount \in [Nodes -> 0 .. UsizeMod - 1]
  /\ queue \in Seq(Nodes)
  /\ remaining \in 0 .. UsizeMod - 1
  /\ shutdown \in BOOLEAN
  /\ spurious \in 0 .. MaxSpurious
  /\ main \in {"notify", "join", "returned"}
  /\ pc \in [Workers -> QuietLabels]
  /\ task \in [Workers -> Nodes \cup {NoTask}]
  /\ DOMAIN work = Workers
  /\ branchTaken \in [Workers -> Nat]
  /\ succs \in [Workers -> Seq(Nodes)]
  /\ ready \in [Workers -> Seq(Nodes)]

\* What the locals of a worker are good for, label by label.
LocalsInv ==
  \A w \in Workers :
    /\ pc[w] \in Held => task[w] \in Nodes
    /\ work[w] = NoWork \/ \E p \in Nodes : work[w] = graph[p].work
    /\ pc[w] \in Held \ {"take"} =>
         ToSet(succs[w]) \subseteq graph[task[w]].succ /\ IsInjective(succs[w])
    /\ pc[w] = "select" => task[w] \in DOMAIN branches
    /\ pc[w] # "push" => ready[w] = <<>>
    /\ IsInjective(ready[w])

\* A dependency count is the number of dependencies that have not released
\* the task; only finished tasks release, each at the end of its visit.
CountInv ==
  /\ \A t \in Nodes : depCount[t] = Cardinality(Unreleased(t))
  /\ \A d, t \in Nodes : <<d, t>> \in fired => d \in finished
  /\ \A w \in Workers : pc[w] \in Held => \A t \in Nodes : <<task[w], t>> \notin fired

\* Whatever has left the dependency map for the queue was released by all of
\* its dependencies.
ReleasedInv ==
  /\ \A t \in ToSet(queue) \cup finished : Unreleased(t) = {}
  /\ \A w \in Workers : /\ pc[w] \in Held => Unreleased(task[w]) = {}
                        /\ \A t \in ToSet(ready[w]) : Unreleased(t) = {}

\* A task is in one place at a time, and in none of the early ones once visited.
PlacesInv ==
  /\ IsInjective(queue)
  /\ \A t \in ToSet(queue) : t \notin finished
  /\ \A w \in Workers :
        /\ ToSet(ready[w]) \cap ToSet(queue) = {}
        /\ ToSet(ready[w]) \cap finished = {}
        /\ pc[w] \in Held => task[w] \notin ToSet(queue)
        /\ pc[w] \in {"take", "run"} => task[w] \notin finished
        /\ pc[w] \in {"decrement", "select", "release"} => task[w] \in finished
  /\ \A v, w \in Workers : v # w =>
        /\ ToSet(ready[v]) \cap ToSet(ready[w]) = {}
        /\ pc[v] \in Held => task[v] \notin ToSet(ready[w])
        /\ pc[v] \in Held /\ pc[w] \in Held => task[v] # task[w]

ScheduleInv == FlowInv /\ TypesInv /\ LocalsInv /\ CountInv /\ ReleasedInv /\ PlacesInv

\* What the assumption on flows says of the graph of a run.
LEMMA GraphFacts ==
  ASSUME NoSubflows, NoRepeats, FlowInv
  PROVE  /\ Len(graph) \in Nat /\ Len(graph) < UsizeMod
         /\ Nodes = 1 .. Len(graph) /\ IsFiniteSet(Nodes)
         /\ \A p \in Nodes :
              /\ graph[p].id = p
              /\ Position(p) = p
              /\ graph[p].succ \subseteq Nodes
              /\ graph[p].deps = {q \in Nodes : p \in graph[q].succ}
              /\ IsFiniteSet(graph[p].deps)
              /\ graph[p].work.kind \in {"static", "condition", "async", "faulty"}
              /\ graph[p].work.kind = "condition" => graph[p].work.returns \subseteq Nat
         /\ \A c \in DOMAIN branches :
              /\ c \in Nodes
              /\ IsFiniteSet(DOMAIN branches[c])
              /\ \A b \in DOMAIN branches[c] : /\ branches[c][b] \in Seq(graph[c].succ)
                                               /\ IsInjective(branches[c][b])
<1>1. PICK flow \in Flows : graph = flow.graph /\ branches = flow.branches
  BY DEF FlowInv
<1>2. WellFormed(flow)
  BY ExecutorAssumption
<1>3. UsizeMod \in Nat
  BY ExecutorAssumption
<1>4. /\ graph \in Seq({graph[p] : p \in Nodes})
      /\ Len(graph) < UsizeMod
      /\ \A p \in Nodes :
           /\ graph[p].id = p
           /\ graph[p].succ \subseteq Nodes
           /\ graph[p].work.kind \in WorkKinds
           /\ graph[p].work.kind = "condition" =>
                graph[p].work.returns \subseteq 0 .. UsizeMod - 1
           /\ graph[p].deps = {q \in Nodes : p \in graph[q].succ}
      /\ \A c \in DOMAIN branches :
           /\ c \in Nodes
           /\ IsFiniteSet(DOMAIN branches[c])
           /\ \A b \in DOMAIN branches[c] : /\ branches[c][b] \in Seq(graph[c].succ)
                                            /\ IsInjective(branches[c][b])
  BY <1>1, <1>2 DEF WellFormed, Nodes, NoRepeats
<1>5. Len(graph) \in Nat /\ Nodes = 1 .. Len(graph)
  BY <1>4, LenProperties DEF Nodes
<1>6. IsFiniteSet(Nodes)
  BY <1>5, IntervalSize
<1>7. ASSUME NEW p \in Nodes
      PROVE  /\ Position(p) = p
             /\ IsFiniteSet(graph[p].deps)
             /\ graph[p].work.kind \in {"static", "condition", "async", "faulty"}
             /\ graph[p].work.kind = "condition" => graph[p].work.returns \subseteq Nat
  <2>1. Position(p) = p
    <3>1. \A q \in Nodes : graph[q].id = p <=> q = p
      BY <1>4, <1>7
    <3>2. p <= p
      BY <1>5, <1>7
    <3> QED BY <3>1, <3>2, <1>7 DEF Position, Nodes
  <2>2. IsFiniteSet(graph[p].deps)
    BY <1>4, <1>6, <1>7, FS_Subset
  <2>3. graph[p].work.kind \in {"static", "condition", "async", "faulty"}
    BY <1>1, <1>4, <1>7 DEF NoSubflows, Nodes, WorkKinds
  <2>4. graph[p].work.kind = "condition" => graph[p].work.returns \subseteq Nat
    BY <1>3, <1>4, <1>7
  <2> QED BY <2>1, <2>2, <2>3, <2>4
<1> QED BY <1>4, <1>5, <1>6, <1>7

LEMMA ScheduleInit ==
  ASSUME NoSubflows, NoRepeats, Init
  PROVE  ScheduleInv
<1>1. PICK flow \in Flows :
        /\ graph = flow.graph
        /\ branches = flow.branches
        /\ taken = IF flow.spent THEN DOMAIN flow.graph ELSE {}
        /\ depCount = [p \in DOMAIN flow.graph |-> Cardinality(flow.graph[p].deps)]
        /\ remaining = Len(flow.graph)
        /\ \E roots \in SetToSeqs({p \in DOMAIN flow.graph : flow.graph[p].deps = {}}) :
              queue = roots
  BY DEF Init
<1>2. /\ shutdown = FALSE /\ spurious = 0
      /\ pc = [w \in Workers |-> "lock"]
      /\ task = [w \in Workers |-> NoTask]
      /\ work = [w \in Workers |-> NoWork]
      /\ branchTaken = [w \in Workers |-> NoBranch]
      /\ succs = [w \in Workers |-> <<>>]
      /\ ready = [w \in Workers |-> <<>>]
      /\ main = "notify" /\ finished = {} /\ fired = {}
  BY DEF Init
<1>3. FlowInv
  BY <1>1 DEF FlowInv
<1>4. /\ Len(graph) \in Nat /\ Len(graph) < UsizeMod
      /\ Nodes = 1 .. Len(graph) /\ IsFiniteSet(Nodes)
      /\ \A p \in Nodes : /\ graph[p].deps \subseteq Nodes
                          /\ IsFiniteSet(graph[p].deps)
  BY <1>3, GraphFacts
<1>5. \A t \in Nodes : Unreleased(t) = graph[t].deps
  BY <1>2 DEF Unreleased
<1> DEFINE roots == {p \in Nodes : graph[p].deps = {}}
<1>6. /\ queue \in Seq(Nodes) /\ IsInjective(queue) /\ ToSet(queue) = roots
  <2>1. queue \in SetToSeqs(roots)
    BY <1>1 DEF Nodes
  <2>2. IsFiniteSet(roots)
    BY <1>4, FS_Subset
  <2>3. queue \in Seq(roots) /\ IsInjective(queue) /\ ToSet(queue) = roots
    BY <2>1, <2>2, ListingFacts
  <2> QED BY <2>3, SeqMonotonic
<1>7. depCount = [t \in Nodes |-> Cardinality(graph[t].deps)]
  BY <1>1 DEF Nodes
<1>8. \A t \in Nodes : Cardinality(graph[t].deps) \in 0 .. UsizeMod - 1
  <2> TAKE t \in Nodes
  <2>1. Cardinality(Nodes) = Len(graph)
    BY <1>4, IntervalSize
  <2>2. Cardinality(graph[t].deps) \in Nat /\ Cardinality(graph[t].deps) <= Len(graph)
    BY <1>4, <2>1, FS_Subset, FS_CardinalityType
  <2>3. UsizeMod \in Nat
    BY ExecutorAssumption
  <2> QED BY <1>4, <2>2, <2>3
<1>9. IsInjective(<<>>) /\ ToSet(<<>>) = {} /\ <<>> \in Seq(Nodes)
  BY EmptySeq DEF IsInjective, ToSet
<1>10. TypesInv
  <2>1. UsizeMod \in Nat \ {0} /\ MaxSpurious \in Nat
    BY ExecutorAssumption
  <2>2. depCount \in [Nodes -> 0 .. UsizeMod - 1]
    BY <1>7, <1>8
  <2>3. remaining \in 0 .. UsizeMod - 1
    BY <1>1, <1>4, <2>1
  <2>4. pc \in [Workers -> QuietLabels]
    BY <1>2 DEF QuietLabels, Labels
  <2>5. taken \subseteq Nodes
    BY <1>1 DEF Nodes
  <2>6. succs \in [Workers -> Seq(Nodes)] /\ ready \in [Workers -> Seq(Nodes)]
    BY <1>2, <1>9
  <2>7. branchTaken \in [Workers -> Nat] /\ task \in [Workers -> Nodes \cup {NoTask}]
    BY <1>2, <2>1 DEF NoBranch
  <2>8. spurious \in 0 .. MaxSpurious
    BY <1>2, <2>1
  <2> QED
    BY <1>2, <1>6, <2>2, <2>3, <2>4, <2>5, <2>6, <2>7, <2>8 DEF TypesInv
<1>11. LocalsInv
  BY <1>2, <1>9 DEF LocalsInv, Held
<1>12. CountInv
  BY <1>2, <1>5, <1>7 DEF CountInv, Held
<1>13. ReleasedInv
  BY <1>2, <1>5, <1>6, <1>9 DEF ReleasedInv, Held
<1>14. PlacesInv
  BY <1>2, <1>6, <1>9 DEF PlacesInv, Held
<1> QED BY <1>3, <1>10, <1>11, <1>12, <1>13, <1>14 DEF ScheduleInv

\* A step that moves workers between labels at which they hold no task, and
\* leaves the scheduling state alone, keeps the invariant.
LEMMA QuietStep ==
  ASSUME ScheduleInv,
         UNCHANGED <<graph, branches, taken, depCount, queue, remaining, locals, history>>,
         shutdown' \in BOOLEAN, spurious' \in 0 .. MaxSpurious,
         main' \in {"notify", "join", "returned"},
         pc' \in [Workers -> QuietLabels],
         \A v \in Workers : pc'[v] = pc[v] \/ (pc[v] # "push" /\ pc'[v] \notin Held)
  PROVE  ScheduleInv'
<1> USE DEF locals, history
<1>1. FlowInv'
  BY DEF ScheduleInv, FlowInv
<1>2. TypesInv'
  <2>1. TypesInv /\ Nodes' = Nodes
    BY DEF ScheduleInv, Nodes
  <2> QED BY <2>1 DEF TypesInv
<1>3. LocalsInv'
  BY DEF ScheduleInv, LocalsInv, Nodes, Held
<1>4. CountInv'
  BY DEF ScheduleInv, CountInv, Nodes, Unreleased
<1>5. ReleasedInv'
  BY DEF ScheduleInv, ReleasedInv, Unreleased
<1>6. PlacesInv'
  BY DEF ScheduleInv, PlacesInv, Held
<1> QED BY <1>1, <1>2, <1>3, <1>4, <1>5, <1>6 DEF ScheduleInv

LEMMA SchedulePop ==
  ASSUME ScheduleInv, NEW w \in Workers, Pop(w)
  PROVE  ScheduleInv'
<1> USE DEF Pop, history
<1> DEFINE t == Head(queue)
<1>1. queue \in Seq(Nodes) /\ queue # <<>> /\ IsInjective(queue)
  BY DEF ScheduleInv, TypesInv, PlacesInv
<1>2. /\ t \in ToSet(queue) /\ t \in Nodes
      /\ queue' \in Seq(Nodes) /\ IsInjective(queue')
      /\ ToSet(queue') = ToSet(queue) \ {t}
  BY <1>1, TailFacts
<1> HIDE DEF t
<1>3. /\ pc \in [Workers -> QuietLabels] /\ task \in [Workers -> Nodes \cup {NoTask}]
      /\ pc[w] = "lock"
      /\ pc' = [pc EXCEPT ![w] = "take"] /\ task' = [task EXCEPT ![w] = t]
      /\ UNCHANGED <<graph, branches, taken, depCount, remaining, shutdown, spurious,
                     work, branchTaken, succs, ready, main, finished, fired>>
  BY DEF ScheduleInv, TypesInv, t
<1>4. FlowInv'
  BY <1>3 DEF ScheduleInv, FlowInv
<1>5. TypesInv'
  <2>1. pc' \in [Workers -> QuietLabels]
    BY <1>3 DEF QuietLabels, Labels
  <2>2. TypesInv /\ Nodes' = Nodes
    BY <1>3 DEF ScheduleInv, Nodes
  <2>3. task' \in [Workers -> Nodes \cup {NoTask}]
    BY <1>2, <1>3
  <2> QED BY <1>2, <1>3, <2>1, <2>2, <2>3 DEF TypesInv
<1>6. LocalsInv'
  BY <1>2, <1>3 DEF ScheduleInv, LocalsInv, Nodes, Held
<1>7. t \notin finished /\ Unreleased(t) = {}
  BY <1>2 DEF ScheduleInv, PlacesInv, ReleasedInv
<1>8. CountInv'
  <2>1. CountInv /\ Nodes' = Nodes /\ \A s : Unreleased(s)' = Unreleased(s)
    BY <1>3 DEF ScheduleInv, Nodes, Unreleased
  <2>2. \A s \in Nodes : <<t, s>> \notin fired
    BY <1>2, <1>7, <2>1 DEF CountInv
  <2>3. \A v \in Workers : pc'[v] \in Held => \A s \in Nodes : <<task'[v], s>> \notin fired
    BY <1>3, <2>1, <2>2 DEF CountInv, Held
  <2> QED BY <1>3, <2>1, <2>3 DEF CountInv
<1>9. ReleasedInv'
  BY <1>2, <1>3, <1>7 DEF ScheduleInv, ReleasedInv, Unreleased, Held
<1>10. PlacesInv'
  <2>1. /\ pc'[w] = "take" /\ task'[w] = t /\ pc[w] \notin Held
        /\ \A v \in Workers \ {w} : pc'[v] = pc[v] /\ task'[v] = task[v]
    BY <1>3 DEF Held
  <2>2. \A v \in Workers : t \notin ToSet(ready[v]) /\ (pc[v] \in Held => task[v] # t)
    BY <1>2 DEF ScheduleInv, PlacesInv
  <2>3. PlacesInv /\ ready' = ready /\ finished' = finished
    BY <1>3 DEF ScheduleInv
  <2>4. "take" \in Held
    BY DEF Held
  <2>5. \A v \in Workers :
          /\ ToSet(ready[v]) \cap ToSet(queue') = {}
          /\ pc'[v] \in Held => task'[v] \notin ToSet(queue')
          /\ pc'[v] \in {"take", "run"} => task'[v] \notin finished
          /\ pc'[v] \in {"decrement", "select", "release"} => task'[v] \in finished
    BY <1>2, <1>7, <2>1, <2>3 DEF PlacesInv
  <2>6. \A u, v \in Workers : u # v =>
          /\ pc'[u] \in Held => task'[u] \notin ToSet(ready[v])
          /\ pc'[u] \in Held /\ pc'[v] \in Held => task'[u] # task'[v]
    BY <2>1, <2>2, <2>3, <2>4 DEF PlacesInv
  <2> QED BY <1>2, <2>3, <2>5, <2>6 DEF PlacesInv
<1> QED BY <1>4, <1>5, <1>6, <1>8, <1>9, <1>10 DEF ScheduleInv

LEMMA ScheduleTakeWork ==
  ASSUME NoSubflows, NoRepeats, ScheduleInv, NEW w \in Workers, TakeWork(w)
  PROVE  ScheduleInv'
<1>1. /\ pc \in [Workers -> QuietLabels] /\ pc[w] = "take" /\ task[w] \in Nodes
      /\ succs \in [Workers -> Seq(Nodes)]
  BY DEF ScheduleInv, TypesInv, LocalsInv, TakeWork, Held
<1>2. /\ Position(task[w]) = task[w]
      /\ graph[task[w]].succ \subseteq Nodes /\ IsFiniteSet(graph[task[w]].succ)
  BY <1>1, GraphFacts, FS_Subset DEF ScheduleInv
<1>3. PICK order \in SetToSeqs(graph[task[w]].succ) : succs' = [succs EXCEPT ![w] = order]
  BY <1>2 DEF TakeWork
<1>4. order \in Seq(Nodes) /\ ToSet(order) = graph[task[w]].succ /\ IsInjective(order)
  BY <1>2, <1>3, ListingFacts, SeqMonotonic
<1>5. /\ pc' = [pc EXCEPT ![w] = "run"]
      /\ taken' = taken \cup {task[w]}
      /\ work' = [work EXCEPT ![w] = IF task[w] \in taken THEN NoWork ELSE graph[task[w]].work]
      /\ UNCHANGED <<graph, branches, depCount, queue, remaining, shutdown, spurious,
                     task, branchTaken, ready, main, finished, fired>>
  BY <1>2 DEF TakeWork, history
<1>6. FlowInv'
  BY <1>5 DEF ScheduleInv, FlowInv
<1>7. TypesInv'
  <2>1. succs' \in [Workers -> Seq(Nodes)]
    BY <1>1, <1>3, <1>4
  <2> QED BY <1>1, <1>5, <2>1 DEF ScheduleInv, TypesInv, Nodes, QuietLabels, Labels
<1>8. LocalsInv'
  <2> SUFFICES ASSUME NEW v \in Workers
               PROVE  /\ pc'[v] \in Held => task[v] \in Nodes
                      /\ work'[v] = NoWork \/ \E p \in Nodes : work'[v] = graph[p].work
                      /\ pc'[v] \in Held \ {"take"} =>
                           ToSet(succs'[v]) \subseteq graph[task[v]].succ /\ IsInjective(succs'[v])
                      /\ pc'[v] = "select" => task[v] \in DOMAIN branches
                      /\ pc'[v] # "push" => ready[v] = <<>>
                      /\ IsInjective(ready[v])
    BY <1>5 DEF LocalsInv, Nodes
  <2>1. work'[v] = NoWork \/ \E p \in Nodes : work'[v] = graph[p].work
    <3>1. work'[v] = work[v] \/ work'[v] = NoWork \/ work'[v] = graph[task[w]].work
      BY <1>5
    <3> QED BY <1>1, <3>1 DEF ScheduleInv, LocalsInv
  <2>2. pc'[v] \in Held \ {"take"} =>
          ToSet(succs'[v]) \subseteq graph[task[v]].succ /\ IsInjective(succs'[v])
    BY <1>1, <1>3, <1>4, <1>5 DEF ScheduleInv, LocalsInv, Held
  <2> QED BY <1>1, <1>5, <2>1, <2>2 DEF ScheduleInv, LocalsInv, Held
<1>9. CountInv'
  BY <1>1, <1>5 DEF ScheduleInv, CountInv, Nodes, Unreleased, Held
<1>10. ReleasedInv'
  BY <1>1, <1>5 DEF ScheduleInv, ReleasedInv, Unreleased, Held
<1>11. PlacesInv'
  BY <1>1, <1>5 DEF ScheduleInv, PlacesInv, Held
<1> QED BY <1>6, <1>7, <1>8, <1>9, <1>10, <1>11 DEF ScheduleInv

\* The end of a closure, of whatever kind: the task is visited.
LEMMA ScheduleVisit ==
  ASSUME NoSubflows, NoRepeats, ScheduleInv, NEW w \in Workers,
         pc[w] = "run", pc' = [pc EXCEPT ![w] = "decrement"],
         finished' = finished \cup {Position(task[w])},
         branchTaken' \in [Workers -> Nat],
         UNCHANGED <<graph, branches, taken, depCount, queue, remaining, shutdown, spurious,
                     task, work, succs, ready, main, fired>>
  PROVE  ScheduleInv'
<1>1. pc \in [Workers -> QuietLabels] /\ task[w] \in Nodes
  BY DEF ScheduleInv, TypesInv, LocalsInv, Held
<1>2. finished' = finished \cup {task[w]}
  BY <1>1, GraphFacts DEF ScheduleInv
<1>3. Unreleased(task[w]) = {}
  BY DEF ScheduleInv, ReleasedInv, Held
<1>4. FlowInv'
  BY DEF ScheduleInv, FlowInv
<1>5. TypesInv'
  BY <1>1, <1>2 DEF ScheduleInv, TypesInv, Nodes, QuietLabels, Labels
<1>6. LocalsInv'
  BY <1>1 DEF ScheduleInv, LocalsInv, Nodes, Held
<1>7. CountInv'
  <2>1. \A v \in Workers : pc'[v] \in Held <=> pc[v] \in Held
    BY <1>1 DEF Held
  <2>2. CountInv /\ Nodes' = Nodes /\ \A s : Unreleased(s)' = Unreleased(s)
    BY DEF ScheduleInv, Nodes, Unreleased
  <2> QED BY <1>2, <2>1, <2>2 DEF CountInv
<1>8. ReleasedInv'
  BY <1>1, <1>2, <1>3 DEF ScheduleInv, ReleasedInv, Unreleased, Held
<1>9. PlacesInv'
  <2>1. ToSet(ready[w]) = {}
    BY EmptySeq DEF ScheduleInv, LocalsInv, ToSet
  <2>2. pc'[w] = "decrement" /\ \A v \in Workers \ {w} : pc'[v] = pc[v]
    BY <1>1
  <2>3. /\ task[w] \notin ToSet(queue)
        /\ \A v \in Workers : task[w] \notin ToSet(ready[v])
        /\ \A v \in Workers \ {w} : pc[v] \in Held => task[v] # task[w]
    BY <2>1 DEF ScheduleInv, PlacesInv, Held
  <2>4. \A v \in Workers : pc'[v] \in Held <=> pc[v] \in Held
    BY <2>2 DEF Held
  <2>5. /\ \A v \in Workers :
             /\ pc'[v] \in {"take", "run"} => task[v] \notin finished'
             /\ pc'[v] \in {"decrement", "select", "release"} => task[v] \in finished'
    BY <1>2, <2>2, <2>3 DEF ScheduleInv, PlacesInv, Held
  <2> QED BY <1>2, <2>3, <2>4, <2>5 DEF ScheduleInv, PlacesInv
<1> QED BY <1>4, <1>5, <1>6, <1>7, <1>8, <1>9 DEF ScheduleInv

\* A worker that only moves on with its visited task leaves the queue, the
\* dependency counts and the places of the tasks alone.
LEMMA PlacesKept ==
  ASSUME CountInv, ReleasedInv, PlacesInv,
         \A v \in Workers :
            /\ pc'[v] \in Held <=> pc[v] \in Held
            /\ pc'[v] \in {"take", "run"} => pc[v] \in {"take", "run"}
            /\ pc'[v] \in {"decrement", "select", "release"} =>
                 pc[v] \in {"decrement", "select", "release"},
         UNCHANGED <<graph, depCount, queue, finished, fired, task, ready>>
  PROVE  CountInv' /\ ReleasedInv' /\ PlacesInv'
<1>1. Nodes' = Nodes /\ \A t : Unreleased(t)' = Unreleased(t)
  BY DEF Nodes, Unreleased
<1>2. CountInv'
  BY <1>1 DEF CountInv
<1>3. ReleasedInv'
  BY <1>1 DEF ReleasedInv
<1>4. PlacesInv'
  BY DEF PlacesInv
<1> QED BY <1>2, <1>3, <1>4

\* The steps that charge the counter and choose the successors to release.
LEMMA ScheduleCharge ==
  ASSUME ScheduleInv, NEW w \in Workers, NEW label \in {"select", "release"},
         pc[w] \in {"decrement", "select"}, pc' = [pc EXCEPT ![w] = label],
         label = "select" => task[w] \in DOMAIN branches,
         remaining' \in 0 .. UsizeMod - 1,
         NEW s \in Seq(Nodes), ToSet(s) \subseteq graph[task[w]].succ, IsInjective(s),
         succs' = [succs EXCEPT ![w] = s],
         UNCHANGED <<graph, branches, taken, depCount, queue, shutdown, spurious,
                     task, work, branchTaken, ready, main, history>>
  PROVE  ScheduleInv'
<1> USE DEF history
<1>0. Nodes' = Nodes
  BY DEF Nodes
<1>1. /\ pc \in [Workers -> QuietLabels]
      /\ \A v \in Workers : /\ pc'[v] \in Held <=> pc[v] \in Held
                           /\ v # w => pc'[v] = pc[v]
      /\ pc'[w] = label
  BY DEF ScheduleInv, TypesInv, Held
<1>2. /\ succs \in [Workers -> Seq(Nodes)] /\ succs' \in [Workers -> Seq(Nodes)]
      /\ \A v \in Workers : v # w => succs'[v] = succs[v]
      /\ succs'[w] = s
  BY DEF ScheduleInv, TypesInv
<1>3. FlowInv'
  BY DEF ScheduleInv, FlowInv
<1>4. TypesInv'
  <2>1. pc' \in [Workers -> QuietLabels]
    BY <1>1 DEF QuietLabels, Labels
  <2>2. TypesInv
    BY DEF ScheduleInv
  <2> QED BY <1>0, <1>1, <1>2, <2>1, <2>2 DEF TypesInv
<1>5. LocalsInv'
  <2>1. LocalsInv
    BY DEF ScheduleInv
  <2> SUFFICES ASSUME NEW v \in Workers
               PROVE  /\ pc'[v] \in Held => task[v] \in Nodes
                      /\ work[v] = NoWork \/ \E p \in Nodes : work[v] = graph[p].work
                      /\ pc'[v] \in Held \ {"take"} =>
                           ToSet(succs'[v]) \subseteq graph[task[v]].succ /\ IsInjective(succs'[v])
                      /\ pc'[v] = "select" => task[v] \in DOMAIN branches
                      /\ pc'[v] # "push" => ready[v] = <<>>
                      /\ IsInjective(ready[v])
    BY <1>0, <1>1 DEF LocalsInv
  <2> QED BY <1>0, <1>1, <1>2, <2>1 DEF LocalsInv, Held
<1>6. \A v \in Workers :
        /\ pc'[v] \in Held <=> pc[v] \in Held
        /\ pc'[v] \in {"take", "run"} => pc[v] \in {"take", "run"}
        /\ pc'[v] \in {"decrement", "select", "release"} =>
             pc[v] \in {"decrement", "select", "release"}
  <2> TAKE v \in Workers
  <2>1. CASE v = w
    <3>1. pc'[v] = label /\ pc[v] \in {"decrement", "select"}
      BY <1>1, <2>1
    <3> QED BY <3>1 DEF Held
  <2>2. CASE v # w
    <3>1. pc'[v] = pc[v]
      BY <1>1, <2>2
    <3> QED BY <3>1
  <2> QED BY <2>1, <2>2
<1>7. CountInv' /\ ReleasedInv' /\ PlacesInv'
  BY <1>6, PlacesKept DEF ScheduleInv
<1> QED BY <1>3, <1>4, <1>5, <1>7 DEF ScheduleInv

\* Wrapping subtraction stays within the machine word.
LEMMA MinusType ==
  ASSUME NEW n \in 0 .. UsizeMod - 1, NEW k \in 0 .. UsizeMod - 1
  PROVE  Minus(n, k) \in 0 .. UsizeMod - 1
BY ExecutorAssumption DEF Minus

LEMMA ScheduleDecrement ==
  ASSUME ScheduleInv, NEW w \in Workers, Decrement(w)
  PROVE  ScheduleInv'
<1>1. /\ succs \in [Workers -> Seq(Nodes)] /\ remaining \in 0 .. UsizeMod - 1
      /\ ToSet(succs[w]) \subseteq graph[task[w]].succ /\ IsInjective(succs[w])
  BY DEF ScheduleInv, TypesInv, LocalsInv, Held, Decrement
<1>2. remaining' \in 0 .. UsizeMod - 1
  <2>1. remaining' = Minus(remaining, 1)
    BY DEF Decrement
  <2> QED BY <1>1, <2>1, ExecutorAssumption DEF Minus
<1>3. succs' = [succs EXCEPT ![w] = succs[w]]
  BY <1>1 DEF Decrement, locals
<1> DEFINE label == IF branchTaken[w] # NoBranch /\ task[w] \in DOMAIN branches
                    THEN "select" ELSE "release"
<1>4. /\ pc[w] = "decrement" /\ pc' = [pc EXCEPT ![w] = label]
      /\ UNCHANGED <<graph, branches, taken, depCount, queue, shutdown, spurious,
                     task, work, branchTaken, ready, main, history>>
  BY DEF Decrement, locals
<1> QED BY <1>1, <1>2, <1>3, <1>4, ScheduleCharge

\* The number of tasks behind the branches not taken is a number.
LEMMA UnreachableType ==
  ASSUME NoSubflows, NoRepeats, FlowInv, NEW c \in DOMAIN branches, NEW b
  PROVE  UnreachableCount(c, b) \in Nat
<1> DEFINE others == DOMAIN branches[c] \ {b}
<1> DEFINE reached == UNION {{o} \X Reachable(ToSet(branches[c][o])) : o \in others}
<1>1. /\ IsFiniteSet(others) /\ IsFiniteSet(Nodes)
      /\ \A p \in Nodes : graph[p].succ \subseteq Nodes
      /\ \A o \in others : branches[c][o] \in Seq(graph[c].succ)
      /\ c \in Nodes
  BY GraphFacts, FS_Subset
<1>2. ASSUME NEW o \in others PROVE Reachable(ToSet(branches[c][o])) \subseteq Nodes
  <2>1. ToSet(branches[c][o]) \subseteq Nodes
    <3>1. branches[c][o] \in Seq(Nodes)
      BY <1>1, <1>2, SeqMonotonic
    <3> QED BY <3>1, LenProperties DEF ToSet
  <2>2. UNION {graph[p].succ : p \in DOMAIN graph} \subseteq Nodes
    BY <1>1 DEF Nodes
  <2> QED BY <2>1, <2>2 DEF Reachable
<1>3. reached \subseteq others \X Nodes
  BY <1>2
<1>4. IsFiniteSet(others \X Nodes)
  BY <1>1, FS_Product
<1> QED BY <1>3, <1>4, FS_Subset, FS_CardinalityType DEF UnreachableCount

LEMMA ScheduleSelect ==
  ASSUME NoSubflows, NoRepeats, ScheduleInv, NEW w \in Workers, SelectBranch(w)
  PROVE  ScheduleInv'
<1> DEFINE t == task[w]
<1> DEFINE b == branchTaken[w]
<1>1. /\ pc[w] = "select" /\ t \in DOMAIN branches /\ FlowInv
      /\ succs \in [Workers -> Seq(Nodes)] /\ remaining \in 0 .. UsizeMod - 1
      /\ ToSet(succs[w]) \subseteq graph[t].succ /\ IsInjective(succs[w])
  BY DEF ScheduleInv, TypesInv, LocalsInv, Held, SelectBranch
<1>2. remaining' \in 0 .. UsizeMod - 1
  <2>1. UnreachableCount(t, b) \in Nat
    BY <1>1, UnreachableType
  <2>2. UnreachableCount(t, b) % UsizeMod \in 0 .. UsizeMod - 1
    BY <2>1, ExecutorAssumption
  <2> QED BY <1>1, <2>2, MinusType DEF SelectBranch
<1>3. PICK s \in Seq(Nodes) :
        /\ ToSet(s) \subseteq graph[t].succ /\ IsInjective(s)
        /\ succs' = [succs EXCEPT ![w] = s]
  <2>1. CASE b \in DOMAIN branches[t]
    <3>1. /\ branches[t][b] \in Seq(graph[t].succ) /\ graph[t].succ \subseteq Nodes
          /\ IsInjective(branches[t][b])
      BY <1>1, <2>1, GraphFacts
    <3>2. branches[t][b] \in Seq(Nodes)
      BY <3>1, SeqMonotonic
    <3>3. ToSet(branches[t][b]) \subseteq graph[t].succ
      BY <3>1, LenProperties DEF ToSet
    <3> QED BY <2>1, <3>1, <3>2, <3>3 DEF SelectBranch
  <2>2. CASE b \notin DOMAIN branches[t]
    <3>1. succs' = [succs EXCEPT ![w] = succs[w]]
      BY <1>1, <2>2 DEF SelectBranch
    <3> QED BY <1>1, <3>1
  <2> QED BY <2>1, <2>2
<1>4. /\ pc' = [pc EXCEPT ![w] = "release"]
      /\ UNCHANGED <<graph, branches, taken, depCount, queue, shutdown, spurious,
                     task, work, branchTaken, ready, main, history>>
  BY DEF SelectBranch
<1> QED BY <1>1, <1>2, <1>3, <1>4, ScheduleCharge

-----------------------------------------------------------------------------
(* The release, when no successor is named twice.                          *)

\* Every successor in the dependency map loses one dependency, and those at one
\* before become ready.
ReleaseEach(w) ==
  LET known == ToSet(succs[w]) \cap DOMAIN depCount
      freed == {s \in known : depCount[s] = 1}
  IN
  /\ pc[w] = "release"
  /\ depCount' = [s \in DOMAIN depCount |->
                    IF s \in known THEN Minus(depCount[s], 1) ELSE depCount[s]]
  /\ fired' = fired \cup ({task[w]} \X known)
  /\ IF freed = {}
     THEN Goto(w, "lock") /\ EndIteration(w)
     ELSE /\ Goto(w, "push")
          /\ \E list \in Seq(freed) :
                /\ IsInjective(list) /\ ToSet(list) = freed
                /\ ready' = [ready EXCEPT ![w] = list]
          /\ UNCHANGED <<task, work, branchTaken, succs, sub>>
  /\ UNCHANGED <<graph, branches, taken, queue, remaining, shutdown, spurious, main, finished>>

LEMMA ChargedOnce ==
  ASSUME NEW S, NEW s \in Seq(S), IsInjective(s), NEW n \in 0 .. Len(s), NEW t
  PROVE  Charges(s, n, t) = IF \E i \in 1 .. n : s[i] = t THEN 1 ELSE 0
<1> DEFINE places == {i \in 1 .. n : s[i] = t}
<1>1. Len(s) \in Nat /\ DOMAIN s = 1 .. Len(s)
  BY LenProperties
<1>2. CASE \E i \in 1 .. n : s[i] = t
  <2>1. PICK i \in 1 .. n : s[i] = t
    BY <1>2
  <2>2. places = {i}
    BY <1>1, <2>1 DEF IsInjective
  <2> QED BY <1>2, <2>2, FS_Singleton DEF Charges
<1>3. CASE ~ \E i \in 1 .. n : s[i] = t
  <2>1. places = {}
    BY <1>3
  <2> QED BY <1>3, <2>1, FS_EmptySet DEF Charges
<1> QED BY <1>2, <1>3

LEMMA ReleaseSimple ==
  ASSUME ScheduleInv, NEW w \in Workers, Release(w)
  PROVE  ReleaseEach(w)
<1> DEFINE s == succs[w]
<1> DEFINE known == ToSet(s) \cap DOMAIN depCount
<1> DEFINE freed == {t \in known : depCount[t] = 1}
<1> DEFINE due == {i \in DOMAIN s : /\ s[i] \in DOMAIN depCount
                                    /\ Minus(depCount[s[i]], Charges(s, i - 1, s[i])) = 1}
<1>1. /\ pc[w] = "release" /\ s \in Seq(Nodes) /\ IsInjective(s)
      /\ depCount \in [Nodes -> 0 .. UsizeMod - 1] /\ UsizeMod \in Nat
  BY ExecutorAssumption DEF Release, ScheduleInv, TypesInv, LocalsInv, Held
<1>2. Len(s) \in Nat /\ DOMAIN s = 1 .. Len(s)
  BY <1>1, LenProperties
<1>3. \A t : Charges(s, Len(s), t) = IF t \in ToSet(s) THEN 1 ELSE 0
  BY <1>1, <1>2, ChargedOnce DEF ToSet
<1>4. \A i \in DOMAIN s : Charges(s, i - 1, s[i]) = 0
  <2> TAKE i \in DOMAIN s
  <2>1. i - 1 \in 0 .. Len(s) /\ \A j \in 1 .. i - 1 : j \in DOMAIN s /\ j # i
    BY <1>2
  <2>2. \A j \in 1 .. i - 1 : s[j] # s[i]
    BY <1>1, <2>1 DEF IsInjective
  <2> QED BY <1>1, <2>1, <2>2, ChargedOnce
<1>5. \A n \in 0 .. UsizeMod - 1 : Minus(n, 0) = n
  BY <1>1 DEF Minus
<1>6. due = {i \in DOMAIN s : s[i] \in freed}
  BY <1>1, <1>2, <1>4, <1>5 DEF ToSet
<1>7. freed = {} <=> due = {}
  BY <1>2, <1>6 DEF ToSet
<1>8. depCount' = [t \in DOMAIN depCount |->
                     IF t \in known THEN Minus(depCount[t], 1) ELSE depCount[t]]
  <2>1. depCount' = [t \in DOMAIN depCount |-> Minus(depCount[t], Charges(s, Len(s), t))]
    BY DEF Release
  <2>2. \A t \in DOMAIN depCount :
          Minus(depCount[t], Charges(s, Len(s), t))
            = IF t \in known THEN Minus(depCount[t], 1) ELSE depCount[t]
    BY <1>1, <1>3, <1>5
  <2> QED BY <2>1, <2>2
<1>9. /\ fired' = fired \cup ({task[w]} \X known)
      /\ UNCHANGED <<graph, branches, taken, queue, remaining, shutdown, spurious, main,
                     finished>>
  BY DEF Release
<1>10. CASE due = {}
  <2>1. Goto(w, "lock") /\ EndIteration(w)
    BY <1>10 DEF Release
  <2> QED BY <1>1, <1>7, <1>8, <1>9, <1>10, <2>1 DEF ReleaseEach
<1>11. CASE due # {}
  <2>1. PICK order \in SetToSeqs(due) :
          ready' = [ready EXCEPT ![w] = [i \in DOMAIN order |-> s[order[i]]]]
    BY <1>11 DEF Release
  <2>2. Goto(w, "push") /\ UNCHANGED <<task, work, branchTaken, succs, sub>>
    BY <1>11 DEF Release
  <2>3. IsFiniteSet(due)
    BY <1>2, IntervalSize, FS_Subset
  <2>4. order \in Seq(due) /\ IsInjective(order) /\ ToSet(order) = due
    BY <2>1, <2>3, ListingFacts
  <2> DEFINE list == [i \in DOMAIN order |-> s[order[i]]]
  <2>5. Len(order) \in Nat /\ DOMAIN order = 1 .. Len(order)
        /\ \A i \in DOMAIN order : order[i] \in due
    BY <2>4, LenProperties
  <2>6. list \in Seq(freed)
    BY <1>6, <2>5, SeqDef
  <2>7. IsInjective(list)
    BY <1>1, <1>6, <2>4, <2>5 DEF IsInjective
  <2>8. ToSet(list) = freed
    <3>1. \A t \in freed : \E i \in due : s[i] = t
      BY <1>2, <1>6 DEF ToSet
    <3>2. \A i \in due : \E k \in DOMAIN order : order[k] = i
      BY <2>4 DEF ToSet
    <3> QED BY <1>6, <2>5, <3>1, <3>2 DEF ToSet
  <2> QED BY <1>1, <1>7, <1>8, <1>9, <1>11, <2>1, <2>2, <2>6, <2>7, <2>8 DEF ReleaseEach
<1> QED BY <1>10, <1>11

\* What the release of a task's successors does to their dependency counts.
LEMMA ReleaseFacts ==
  ASSUME NoSubflows, NoRepeats, ScheduleInv, NEW w \in Workers, ReleaseEach(w),
         NEW known, known = ToSet(succs[w]) \cap DOMAIN depCount
  PROVE  /\ known \subseteq Nodes /\ IsFiniteSet(known)
         /\ \A s \in known : /\ task[w] \in Unreleased(s)
                             /\ Unreleased(s)' = Unreleased(s) \ {task[w]}
         /\ \A s \in Nodes \ known : Unreleased(s)' = Unreleased(s)
         /\ \A s \in Nodes : /\ depCount'[s] = Cardinality(Unreleased(s)')
                             /\ depCount'[s] \in 0 .. UsizeMod - 1
         /\ \A s \in known : depCount[s] = 1 <=> Unreleased(s)' = {}
<1> DEFINE t == task[w]
<1>1. /\ pc[w] = "release" /\ graph' = graph
      /\ fired' = fired \cup ({t} \X known)
      /\ depCount' = [s \in DOMAIN depCount |->
                        IF s \in known THEN Minus(depCount[s], 1) ELSE depCount[s]]
  BY DEF ReleaseEach
<1>2. /\ t \in Nodes /\ ToSet(succs[w]) \subseteq graph[t].succ
      /\ depCount \in [Nodes -> 0 .. UsizeMod - 1]
      /\ \A s \in Nodes : depCount[s] = Cardinality(Unreleased(s))
      /\ \A s \in Nodes : <<t, s>> \notin fired
  BY <1>1 DEF ScheduleInv, LocalsInv, TypesInv, CountInv, Held
<1>3. /\ IsFiniteSet(Nodes)
      /\ \A s \in Nodes : /\ graph[s].deps = {q \in Nodes : s \in graph[q].succ}
                          /\ IsFiniteSet(graph[s].deps)
  BY GraphFacts DEF ScheduleInv
<1>4. known \subseteq Nodes /\ IsFiniteSet(known)
  BY <1>2, <1>3, FS_Subset
<1>5. ASSUME NEW s \in known
      PROVE  t \in Unreleased(s) /\ Unreleased(s)' = Unreleased(s) \ {t}
  <2>1. s \in Nodes /\ s \in graph[t].succ
    BY <1>2, <1>4
  <2>2. t \in Unreleased(s)
    BY <1>2, <1>3, <2>1 DEF Unreleased
  <2>3. \A d : <<d, s>> \in fired' <=> <<d, s>> \in fired \/ d = t
    BY <1>1
  <2> QED BY <1>1, <2>2, <2>3 DEF Unreleased
<1>6. ASSUME NEW s \in Nodes \ known
      PROVE  Unreleased(s)' = Unreleased(s)
  BY <1>1 DEF Unreleased
<1>7. ASSUME NEW s \in known
      PROVE  /\ depCount'[s] = Cardinality(Unreleased(s)')
             /\ depCount'[s] \in 0 .. UsizeMod - 1
             /\ depCount[s] = 1 <=> Unreleased(s)' = {}
  <2>1. IsFiniteSet(Unreleased(s))
    BY <1>3, <1>4, FS_Subset DEF Unreleased
  <2>2. /\ IsFiniteSet(Unreleased(s) \ {t})
        /\ Cardinality(Unreleased(s) \ {t}) = depCount[s] - 1
    BY <1>2, <1>4, <1>5, <2>1, FS_RemoveElement
  <2>3. depCount[s] - 1 \in Nat
    BY <2>2, FS_CardinalityType
  <2>4. depCount[s] - 1 = 0 <=> Unreleased(s) \ {t} = {}
    BY <2>2, FS_EmptySet
  <2>5. depCount'[s] = Minus(depCount[s], 1) /\ depCount[s] \in 0 .. UsizeMod - 1
    BY <1>1, <1>2, <1>4
  <2>6. Minus(depCount[s], 1) = depCount[s] - 1
    BY <2>3, <2>5, ExecutorAssumption DEF Minus
  <2>7. Unreleased(s)' = Unreleased(s) \ {t}
    BY <1>5
  <2>8. depCount'[s] = depCount[s] - 1 /\ depCount[s] - 1 \in 0 .. UsizeMod - 1
    BY <2>3, <2>5, <2>6, ExecutorAssumption
  <2> QED BY <2>2, <2>4, <2>5, <2>7, <2>8, ExecutorAssumption
<1>8. ASSUME NEW s \in Nodes \ known
      PROVE  /\ depCount'[s] = Cardinality(Unreleased(s)')
             /\ depCount'[s] \in 0 .. UsizeMod - 1
  BY <1>1, <1>2, <1>6
<1> QED BY <1>4, <1>5, <1>6, <1>7, <1>8

LEMMA ScheduleRelease ==
  ASSUME NoSubflows, NoRepeats, ScheduleInv, NEW w \in Workers, ReleaseEach(w)
  PROVE  ScheduleInv'
<1> DEFINE t == task[w]
<1> DEFINE known == ToSet(succs[w]) \cap DOMAIN depCount
<1> DEFINE freed == {s \in known : depCount[s] = 1}
<1>1. /\ known \subseteq Nodes /\ IsFiniteSet(known)
      /\ \A s \in known : t \in Unreleased(s) /\ Unreleased(s)' = Unreleased(s) \ {t}
      /\ \A s \in Nodes \ known : Unreleased(s)' = Unreleased(s)
      /\ \A s \in Nodes : /\ depCount'[s] = Cardinality(Unreleased(s)')
                          /\ depCount'[s] \in 0 .. UsizeMod - 1
      /\ \A s \in known : depCount[s] = 1 <=> Unreleased(s)' = {}
  BY ReleaseFacts
<1>2. /\ pc[w] = "release"
      /\ pc \in [Workers -> QuietLabels] /\ depCount \in [Nodes -> 0 .. UsizeMod - 1]
      /\ task \in [Workers -> Nodes \cup {NoTask}] /\ succs \in [Workers -> Seq(Nodes)]
      /\ branchTaken \in [Workers -> Nat] /\ ready \in [Workers -> Seq(Nodes)]
      /\ DOMAIN work = Workers
      /\ t \in Nodes /\ t \in finished /\ ready[w] = <<>>
  BY DEF ReleaseEach, ScheduleInv, TypesInv, LocalsInv, PlacesInv, Held
<1>3. /\ fired' = fired \cup ({t} \X known)
      /\ depCount' = [s \in DOMAIN depCount |->
                        IF s \in known THEN Minus(depCount[s], 1) ELSE depCount[s]]
      /\ UNCHANGED <<graph, branches, taken, queue, remaining, shutdown, spurious,
                     main, finished>>
  BY DEF ReleaseEach
<1>4. PICK list \in Seq(Nodes) :
        /\ IsInjective(list) /\ ToSet(list) = freed
        /\ ready' = [ready EXCEPT ![w] = list]
        /\ pc' = [pc EXCEPT ![w] = IF freed = {} THEN "lock" ELSE "push"]
        /\ freed = {} => list = <<>>
  <2>1. CASE freed = {}
    <3>1. /\ <<>> \in Seq(Nodes) /\ IsInjective(<<>>) /\ ToSet(<<>>) = {}
      BY EmptySeq DEF IsInjective, ToSet
    <3>2. pc' = [pc EXCEPT ![w] = "lock"] /\ ready' = [ready EXCEPT ![w] = <<>>]
      BY <2>1 DEF ReleaseEach, EndIteration
    <3> QED BY <2>1, <3>1, <3>2
  <2>2. CASE freed # {}
    <3>1. PICK list \in Seq(freed) :
          IsInjective(list) /\ ToSet(list) = freed /\ ready' = [ready EXCEPT ![w] = list]
      BY <2>2 DEF ReleaseEach
    <3>2. freed \subseteq Nodes
      BY <1>1
    <3>3. list \in Seq(Nodes) /\ IsInjective(list) /\ ToSet(list) = freed
      BY <3>1, <3>2, SeqMonotonic
    <3>4. pc' = [pc EXCEPT ![w] = "push"]
      BY <2>2 DEF ReleaseEach
    <3> QED BY <2>2, <3>1, <3>3, <3>4
  <2> QED BY <2>1, <2>2
<1>5. /\ task' \in [Workers -> Nodes \cup {NoTask}] /\ branchTaken' \in [Workers -> Nat]
      /\ succs' \in [Workers -> Seq(Nodes)]
      /\ DOMAIN work' = Workers
      /\ work'[w] = work[w] \/ work'[w] = NoWork
      /\ \A v \in Workers \ {w} :
            task'[v] = task[v] /\ succs'[v] = succs[v] /\ work'[v] = work[v]
  <2>1. CASE freed = {}
    <3>1. /\ task' = [task EXCEPT ![w] = NoTask] /\ work' = [work EXCEPT ![w] = NoWork]
          /\ branchTaken' = [branchTaken EXCEPT ![w] = NoBranch]
          /\ succs' = [succs EXCEPT ![w] = <<>>]
      BY <2>1 DEF ReleaseEach, EndIteration
    <3>2. NoBranch \in Nat /\ <<>> \in Seq(Nodes)
      BY ExecutorAssumption, EmptySeq DEF NoBranch
    <3>3. work'[w] = NoWork /\ DOMAIN work' = Workers
      BY <1>2, <3>1
    <3> QED BY <1>2, <3>1, <3>2, <3>3
  <2>2. CASE freed # {}
    <3>1. UNCHANGED <<task, work, branchTaken, succs>>
      BY <2>2 DEF ReleaseEach
    <3> QED BY <1>2, <3>1
  <2> QED BY <2>1, <2>2
<1>6. \A v \in Workers : pc'[v] \in Held => v # w /\ pc[v] = pc'[v]
  BY <1>2, <1>4 DEF Held
<1>7. FlowInv'
  BY <1>3 DEF ScheduleInv, FlowInv
<1>8. TypesInv'
  <2>1. TypesInv /\ Nodes' = Nodes
    BY <1>3 DEF ScheduleInv, Nodes
  <2>2. ready' \in [Workers -> Seq(Nodes)]
    BY <1>2, <1>4
  <2>3. pc' \in [Workers -> QuietLabels]
    BY <1>2, <1>4 DEF QuietLabels, Labels
  <2>4. depCount' \in [Nodes -> 0 .. UsizeMod - 1]
    BY <1>1, <1>2, <1>3
  <2>5. fired' \subseteq Nodes \X Nodes
    BY <1>1, <1>2, <1>3, <2>1 DEF TypesInv
  <2> QED BY <1>3, <1>5, <2>1, <2>2, <2>3, <2>4, <2>5 DEF TypesInv
<1>9. LocalsInv'
  <2>1. LocalsInv /\ Nodes' = Nodes
    BY <1>3 DEF ScheduleInv, Nodes
  <2> SUFFICES ASSUME NEW v \in Workers
               PROVE  /\ pc'[v] \in Held => task'[v] \in Nodes
                      /\ work'[v] = NoWork \/ \E p \in Nodes : work'[v] = graph[p].work
                      /\ pc'[v] \in Held \ {"take"} =>
                           ToSet(succs'[v]) \subseteq graph[task'[v]].succ /\ IsInjective(succs'[v])
                      /\ pc'[v] = "select" => task'[v] \in DOMAIN branches
                      /\ pc'[v] # "push" => ready'[v] = <<>>
                      /\ IsInjective(ready'[v])
    BY <1>3, <2>1 DEF LocalsInv, Held
  <2>2. CASE v = w
    BY <1>2, <1>4, <1>5, <2>1, <2>2 DEF LocalsInv, Held
  <2>3. CASE v # w
    <3>1. pc'[v] = pc[v] /\ ready'[v] = ready[v]
      BY <1>2, <1>4, <2>3
    <3> QED BY <1>5, <2>1, <2>3, <3>1 DEF LocalsInv, Held
  <2> QED BY <2>2, <2>3
<1>10. CountInv'
  <2>1. CountInv /\ Nodes' = Nodes
    BY <1>3 DEF ScheduleInv, Nodes
  <2>2. \A s \in Nodes : depCount'[s] = Cardinality(Unreleased(s)')
    BY <1>1
  <2>3. \A d, s \in Nodes : <<d, s>> \in fired' => d \in finished'
    BY <1>2, <1>3, <2>1 DEF CountInv
  <2>4. ASSUME NEW v \in Workers, pc'[v] \in Held, NEW s \in Nodes
        PROVE  <<task'[v], s>> \notin fired'
    <3>1. v # w /\ pc[v] \in Held /\ task'[v] = task[v]
      BY <1>5, <1>6, <2>4
    <3>2. task[v] # t
      BY <1>2, <3>1 DEF ScheduleInv, PlacesInv, Held
    <3> QED BY <1>3, <2>1, <3>1, <3>2 DEF CountInv
  <2> QED BY <2>1, <2>2, <2>3, <2>4 DEF CountInv, Held
<1>11. \A s \in Nodes : Unreleased(s) = {} => s \notin known /\ Unreleased(s)' = {}
  BY <1>1
<1>12. ReleasedInv'
  <2>1. ReleasedInv /\ TypesInv /\ LocalsInv
    BY DEF ScheduleInv
  <2>2. ASSUME NEW s \in ToSet(queue) \cup finished PROVE Unreleased(s)' = {}
    <3>1. s \in Nodes
      BY <2>1, LenProperties DEF TypesInv, ToSet
    <3> QED BY <1>11, <2>1, <3>1 DEF ReleasedInv
  <2>3. ASSUME NEW v \in Workers, pc'[v] \in Held, NEW s, s = task'[v]
        PROVE  Unreleased(s)' = {}
    <3>1. pc[v] \in Held /\ s = task[v] /\ s \in Nodes
      BY <1>5, <1>6, <2>1, <2>3 DEF LocalsInv
    <3>2. Unreleased(s) = {}
      BY <2>1, <3>1 DEF ReleasedInv
    <3> QED BY <1>11, <3>1, <3>2
  <2>4. ASSUME NEW v \in Workers, NEW s \in ToSet(ready'[v]) PROVE Unreleased(s)' = {}
    <3>1. CASE v = w
      BY <1>1, <1>2, <1>4, <2>4, <3>1
    <3>2. CASE v # w
      <4>1. ready'[v] = ready[v] /\ ready[v] \in Seq(Nodes)
        BY <1>2, <1>4, <3>2
      <4>2. s \in Nodes /\ Unreleased(s) = {}
        BY <2>1, <2>4, <4>1, LenProperties DEF ReleasedInv, ToSet
      <4> QED BY <1>11, <4>2
    <3> QED BY <3>1, <3>2
  <2>5. queue' = queue /\ finished' = finished
    BY <1>3
  <2> QED BY <2>2, <2>3, <2>4, <2>5 DEF ReleasedInv, Unreleased, Held
<1>13. PlacesInv'
  <2>1. PlacesInv /\ ReleasedInv
    BY DEF ScheduleInv
  <2>2. /\ ToSet(queue) \cap freed = {} /\ finished \cap freed = {}
        /\ \A v \in Workers : /\ ToSet(ready[v]) \cap freed = {}
                              /\ pc[v] \in Held => task[v] \notin freed
    BY <1>1, <2>1 DEF ReleasedInv
  <2>3. /\ queue' = queue /\ finished' = finished
        /\ ready'[w] = list /\ \A v \in Workers \ {w} : ready'[v] = ready[v]
    BY <1>2, <1>3, <1>4
  <2>4. ASSUME NEW v \in Workers
        PROVE  /\ ToSet(ready'[v]) \cap ToSet(queue) = {}
               /\ ToSet(ready'[v]) \cap finished = {}
    BY <1>4, <2>1, <2>2, <2>3 DEF PlacesInv
  <2>5. ASSUME NEW v \in Workers, pc'[v] \in Held
        PROVE  /\ task'[v] \notin ToSet(queue)
               /\ pc'[v] \in {"take", "run"} => task'[v] \notin finished
               /\ pc'[v] \in {"decrement", "select", "release"} => task'[v] \in finished
    BY <1>5, <1>6, <2>1, <2>5 DEF PlacesInv
  <2>6. ASSUME NEW v \in Workers, NEW u \in Workers, v # u
        PROVE  /\ ToSet(ready'[v]) \cap ToSet(ready'[u]) = {}
               /\ pc'[v] \in Held => task'[v] \notin ToSet(ready'[u])
               /\ pc'[v] \in Held /\ pc'[u] \in Held => task'[v] # task'[u]
    <3>1. ToSet(ready'[v]) \cap ToSet(ready'[u]) = {}
      BY <1>4, <2>1, <2>2, <2>3, <2>6 DEF PlacesInv
    <3>2. ASSUME pc'[v] \in Held PROVE task'[v] \notin ToSet(ready'[u])
      <4>1. v # w /\ pc[v] \in Held /\ task'[v] = task[v]
        BY <1>5, <1>6, <3>2
      <4>2. CASE u = w
        BY <1>4, <2>2, <2>3, <4>1, <4>2
      <4>3. CASE u # w
        BY <2>1, <2>3, <2>6, <4>1, <4>3 DEF PlacesInv
      <4> QED BY <4>2, <4>3
    <3>3. ASSUME pc'[v] \in Held, pc'[u] \in Held PROVE task'[v] # task'[u]
      <4>1. /\ pc[v] \in Held /\ task'[v] = task[v]
            /\ pc[u] \in Held /\ task'[u] = task[u]
        BY <1>5, <1>6, <3>3
      <4> QED BY <2>1, <2>6, <4>1 DEF PlacesInv
    <3> QED BY <3>1, <3>2, <3>3
  <2> QED BY <2>1, <2>3, <2>4, <2>5, <2>6 DEF PlacesInv, Held
<1> QED BY <1>7, <1>8, <1>9, <1>10, <1>12, <1>13 DEF ScheduleInv

LEMMA SchedulePushReady ==
  ASSUME ScheduleInv, NEW w \in Workers, PushReady(w)
  PROVE  ScheduleInv'
<1>1. /\ pc[w] = "push" /\ pc' = [pc EXCEPT ![w] = "notify"]
      /\ queue' = queue \o ready[w]
      /\ task' = [task EXCEPT ![w] = NoTask] /\ work' = [work EXCEPT ![w] = NoWork]
      /\ branchTaken' = [branchTaken EXCEPT ![w] = NoBranch]
      /\ succs' = [succs EXCEPT ![w] = <<>>] /\ ready' = [ready EXCEPT ![w] = <<>>]
      /\ UNCHANGED <<graph, branches, taken, depCount, remaining, shutdown, spurious,
                     main, finished, fired>>
  BY DEF PushReady, EndIteration, history
<1>2. TypesInv /\ LocalsInv /\ CountInv /\ ReleasedInv /\ PlacesInv
  BY DEF ScheduleInv
<1>3. /\ Nodes' = Nodes /\ \A s : Unreleased(s)' = Unreleased(s)
      /\ pc \in [Workers -> QuietLabels]
      /\ \A v \in Workers \ {w} : /\ pc'[v] = pc[v] /\ task'[v] = task[v]
                                 /\ succs'[v] = succs[v] /\ ready'[v] = ready[v]
      /\ pc'[w] = "notify" /\ ready'[w] = <<>>
  BY <1>1, <1>2 DEF TypesInv, Nodes, Unreleased
<1>4. /\ queue' \in Seq(Nodes) /\ IsInjective(queue')
      /\ ToSet(queue') = ToSet(queue) \cup ToSet(ready[w])
  <2>1. /\ queue \in Seq(Nodes) /\ ready[w] \in Seq(Nodes)
        /\ IsInjective(queue) /\ IsInjective(ready[w])
        /\ ToSet(queue) \cap ToSet(ready[w]) = {}
    BY <1>2 DEF TypesInv, LocalsInv, PlacesInv
  <2> QED BY <1>1, <2>1, ConcatFacts
<1>5. IsInjective(<<>>) /\ ToSet(<<>>) = {} /\ <<>> \in Seq(Nodes)
  BY EmptySeq DEF IsInjective, ToSet
<1>6. FlowInv'
  BY <1>1 DEF ScheduleInv, FlowInv
<1>7. TypesInv'
  <2>1. pc' \in [Workers -> QuietLabels]
    BY <1>1, <1>2 DEF TypesInv, QuietLabels, Labels
  <2>2. /\ task' \in [Workers -> Nodes \cup {NoTask}]
        /\ succs' \in [Workers -> Seq(Nodes)] /\ ready' \in [Workers -> Seq(Nodes)]
    BY <1>1, <1>2, <1>5 DEF TypesInv
  <2>3. branchTaken' \in [Workers -> Nat]
    BY <1>1, <1>2, ExecutorAssumption DEF TypesInv, NoBranch
  <2> QED BY <1>1, <1>2, <1>3, <1>4, <2>1, <2>2, <2>3 DEF TypesInv
<1>8. LocalsInv'
  <2>0. Nodes' = Nodes /\ graph' = graph /\ branches' = branches
    BY <1>1, <1>3
  <2> SUFFICES ASSUME NEW v \in Workers
               PROVE  /\ pc'[v] \in Held => task'[v] \in Nodes
                      /\ work'[v] = NoWork \/ \E p \in Nodes : work'[v] = graph[p].work
                      /\ pc'[v] \in Held \ {"take"} =>
                           ToSet(succs'[v]) \subseteq graph[task'[v]].succ /\ IsInjective(succs'[v])
                      /\ pc'[v] = "select" => task'[v] \in DOMAIN branches
                      /\ pc'[v] # "push" => ready'[v] = <<>>
                      /\ IsInjective(ready'[v])
    BY <2>0 DEF LocalsInv, Held
  <2>1. work'[v] = NoWork \/ \E p \in Nodes : work'[v] = graph[p].work
    <3>1. work'[v] = work[v] \/ work'[v] = NoWork
      BY <1>1, <1>2 DEF TypesInv
    <3> QED BY <1>2, <3>1 DEF LocalsInv
  <2>2. CASE v = w
    <3>1. pc'[v] = "notify" /\ ready'[v] = <<>> /\ pc'[v] \notin Held
      BY <1>3, <2>2 DEF Held
    <3> QED BY <1>5, <2>1, <3>1
  <2>3. CASE v # w
    <3>1. /\ pc'[v] = pc[v] /\ task'[v] = task[v]
          /\ succs'[v] = succs[v] /\ ready'[v] = ready[v]
      BY <1>3, <2>3
    <3> QED BY <1>2, <2>1, <3>1 DEF LocalsInv
  <2> QED BY <2>2, <2>3
<1>9. CountInv'
  <2>1. ASSUME NEW v \in Workers, pc'[v] \in Held, NEW s \in Nodes
        PROVE  <<task'[v], s>> \notin fired
    BY <1>2, <1>3, <2>1 DEF CountInv, Held
  <2>2. \A s \in Nodes : depCount[s] = Cardinality(Unreleased(s)')
    BY <1>2, <1>3 DEF CountInv
  <2> QED BY <1>1, <1>2, <1>3, <2>1, <2>2 DEF CountInv, Held
<1>10. ReleasedInv'
  BY <1>1, <1>2, <1>3, <1>4, <1>5 DEF ReleasedInv, Unreleased, Held
<1>11. PlacesInv'
  <2>1. \A v \in Workers : pc'[v] \in Held => v # w /\ pc[v] \in Held
    BY <1>3 DEF Held
  <2>2. ASSUME NEW v \in Workers
        PROVE  ToSet(ready'[v]) \cap (ToSet(queue') \cup finished) = {}
    BY <1>2, <1>3, <1>4, <1>5 DEF PlacesInv
  <2>3. ASSUME NEW v \in Workers, pc'[v] \in Held
        PROVE  /\ task'[v] \notin ToSet(queue')
               /\ pc'[v] \in {"take", "run"} => task'[v] \notin finished
               /\ pc'[v] \in {"decrement", "select", "release"} => task'[v] \in finished
    BY <1>2, <1>3, <1>4, <2>1, <2>3 DEF PlacesInv
  <2>4. \A s \in ToSet(queue') : s \notin finished
    BY <1>2, <1>4 DEF PlacesInv
  <2>5. ASSUME NEW v \in Workers, NEW u \in Workers, v # u
        PROVE  /\ ToSet(ready'[v]) \cap ToSet(ready'[u]) = {}
               /\ pc'[v] \in Held => task'[v] \notin ToSet(ready'[u])
               /\ pc'[v] \in Held /\ pc'[u] \in Held => task'[v] # task'[u]
    BY <1>2, <1>3, <1>5, <2>1, <2>5 DEF PlacesInv
  <2> QED BY <1>1, <1>4, <2>2, <2>3, <2>4, <2>5 DEF PlacesInv, Held
<1> QED BY <1>6, <1>7, <1>8, <1>9, <1>10, <1>11 DEF ScheduleInv

\* No worker gets to the steps of a subflow task.
LEMMA SubflowStepsExcluded ==
  ASSUME NoSubflows, NoRepeats, ScheduleInv, NEW w \in Workers, SubflowStep(w)
  PROVE  FALSE
<1>1. work[w].kind # "subflow"
  <2>1. NoWork.kind # "subflow"
    BY DEF NoWork
  <2>2. work[w] = NoWork \/ \E p \in Nodes : work[w] = graph[p].work
    BY DEF ScheduleInv, LocalsInv
  <2>3. \A p \in Nodes : graph[p].work.kind \in {"static", "condition", "async", "faulty"}
    BY GraphFacts DEF ScheduleInv
  <2> QED BY <2>1, <2>2, <2>3
<1>2. pc[w] \notin {"base", "body", "announce", "register", "notifySub"}
  BY DEF ScheduleInv, TypesInv, QuietLabels
<1> QED
  BY <1>1, <1>2 DEF SubflowStep, SubflowNextId, SubflowBase, SubflowEmplace,
     SubflowPrecede, SubflowCount, SubflowAnnounce, SubflowRegister, SubflowNotify

\* Every step of a flow without subflow tasks keeps the scheduling invariant.
LEMMA ScheduleStep ==
  ASSUME NoSubflows, NoRepeats, ScheduleInv, [Next]_vars
  PROVE  ScheduleInv'
<1>1. /\ pc \in [Workers -> QuietLabels] /\ shutdown \in BOOLEAN
      /\ spurious \in 0 .. MaxSpurious /\ main \in {"notify", "join", "returned"}
      /\ branchTaken \in [Workers -> Nat] /\ MaxSpurious \in Nat
  BY ExecutorAssumption DEF ScheduleInv, TypesInv
<1>2. ASSUME NEW w \in Workers, QueueStep(w) PROVE ScheduleInv'
  <2> USE DEF shared, QuietLabels, Labels, Held
  <2>1. CASE Pop(w)
    BY <2>1, SchedulePop
  <2>2. CASE ExitOnShutdown(w)
    BY <1>1, <2>2, QuietStep DEF ExitOnShutdown
  <2>3. CASE DetectCompletion(w)
    BY <1>1, <2>3, QuietStep DEF DetectCompletion
  <2>4. CASE NotifyExit(w)
    BY <1>1, <2>4, QuietStep DEF NotifyExit
  <2>5. CASE SeeOutstanding(w)
    BY <1>1, <2>5, QuietStep DEF SeeOutstanding
  <2>6. CASE Wait(w)
    BY <1>1, <2>6, QuietStep DEF Wait
  <2> QED BY <1>2, <2>1, <2>2, <2>3, <2>4, <2>5, <2>6 DEF QueueStep
<1>3. ASSUME NEW w \in Workers, SubflowStep(w) PROVE FALSE
  BY <1>3, SubflowStepsExcluded
<1>4. ASSUME NEW w \in Workers, TaskStep(w) PROVE ScheduleInv'
  <2>1. CASE TakeWork(w)
    BY <2>1, ScheduleTakeWork
  <2>2. CASE RunNothing(w)
    BY <1>1, <2>2, ScheduleVisit DEF RunNothing, shared, locals
  <2>3. CASE RunStatic(w)
    BY <1>1, <2>3, ScheduleVisit DEF RunStatic, shared, locals
  <2>4. CASE RunCondition(w)
    <3>1. PICK b \in work[w].returns : branchTaken' = [branchTaken EXCEPT ![w] = b]
      BY <2>4 DEF RunCondition
    <3>2. b \in Nat
      <4>1. work[w].kind = "condition" /\ NoWork.kind # "condition"
        BY <2>4 DEF RunCondition, NoWork
      <4>2. PICK p \in Nodes : work[w] = graph[p].work
        BY <4>1 DEF ScheduleInv, LocalsInv
      <4> QED BY <3>1, <4>1, <4>2, GraphFacts DEF ScheduleInv
    <3>3. branchTaken' \in [Workers -> Nat]
      BY <1>1, <3>1, <3>2
    <3> QED BY <2>4, <3>3, ScheduleVisit DEF RunCondition, shared
  <2>5. CASE RunPanicking(w)
    BY <1>1, <2>5, QuietStep DEF RunPanicking, shared, QuietLabels, Labels, Held
  <2>6. CASE Decrement(w)
    BY <2>6, ScheduleDecrement
  <2>7. CASE SelectBranch(w)
    BY <2>7, ScheduleSelect
  <2>8. CASE Release(w)
    BY <2>8, ReleaseSimple, ScheduleRelease
  <2>9. CASE PushReady(w)
    BY <2>9, SchedulePushReady
  <2>10. CASE NotifyReady(w)
    BY <1>1, <2>10, QuietStep DEF NotifyReady, shared, QuietLabels, Labels, Held
  <2> QED
    BY <1>4, <2>1, <2>2, <2>3, <2>4, <2>5, <2>6, <2>7, <2>8, <2>9, <2>10 DEF TaskStep
<1>5. ASSUME NEW w \in Workers, WakeSpuriously(w) PROVE ScheduleInv'
  BY <1>1, <1>5, QuietStep DEF WakeSpuriously, shared, QuietLabels, Labels, Held
<1>6. CASE MainNotify
  BY <1>1, <1>6, QuietStep DEF MainNotify, shared, QuietLabels, Labels, Held
<1>7. CASE MainReturn
  BY <1>1, <1>7, QuietStep DEF MainReturn, shared
<1>8. CASE UNCHANGED vars
  BY <1>1, <1>8, QuietStep DEF vars, shared
<1> QED BY <1>2, <1>3, <1>4, <1>5, <1>6, <1>7, <1>8 DEF Next, WorkerStep, Halted

LEMMA ScheduleAlways ==
  ASSUME NoSubflows, NoRepeats
  PROVE  Spec => []ScheduleInv
<1>1. Init => ScheduleInv
  BY ScheduleInit
<1>2. ScheduleInv /\ [Next]_vars => ScheduleInv'
  BY ScheduleStep
<1> QED BY <1>1, <1>2, PTL DEF Spec

\* Type correctness of every run of a flow without subflow tasks and without a
\* task twice in a branch.
THEOREM TypeCorrect ==
  ASSUME NoSubflows, NoRepeats
  PROVE  Spec => []TypeOK
<1>1. ScheduleInv => TypeOK
  <2> SUFFICES ASSUME ScheduleInv PROVE TypeOK
    OBVIOUS
  <2>1. TypesInv /\ Nodes = 1 .. Len(graph) /\ Len(graph) \in Nat
    BY GraphFacts DEF ScheduleInv
  <2>2. Nodes \subseteq Nat \ {0}
    BY <2>1
  <2>3. Seq(Nodes) \subseteq Seq(Nat \ {0})
    BY <2>2, SeqMonotonic
  <2>4. pc \in [Workers -> Labels]
    BY <2>1 DEF TypesInv, QuietLabels
  <2>5. task \in [Workers -> Nat]
    BY <2>1, <2>2 DEF TypesInv, NoTask
  <2>6. fired \subseteq Nat \X Nat /\ taken \subseteq Nat /\ finished \subseteq Nat
    BY <2>1, <2>2 DEF TypesInv
  <2>7. DOMAIN depCount \subseteq Nat \ {0} /\ \A t \in DOMAIN depCount : depCount[t] \in 0 .. UsizeMod - 1
    BY <2>1, <2>2 DEF TypesInv
  <2>8. /\ queue \in Seq(Nat \ {0})
        /\ succs \in [Workers -> Seq(Nat \ {0})] /\ ready \in [Workers -> Seq(Nat \ {0})]
    BY <2>1, <2>3 DEF TypesInv
  <2> QED BY <2>1, <2>4, <2>5, <2>6, <2>7, <2>8 DEF TypesInv, TypeOK
<1> QED BY <1>1, ScheduleAlways, PTL

\* No closure starts before the closures of all its task's dependencies have
\* returned: the counts set up by run (lines 61-68 of executor.rs) and the
\* release in worker_loop (459-471) order the tasks, whatever the branches
\* taken, the number of workers and the shape of the graph, provided that no
\* branch names a task twice: a task named twice is charged twice (line 465) and
\* starts before its other dependencies.
THEOREM Ordering ==
  ASSUME NoSubflows, NoRepeats
  PROVE  Spec => []DependenciesFirst
<1>1. ScheduleInv => DependenciesFirst
  <2> SUFFICES ASSUME ScheduleInv, NEW w \in Workers, pc[w] = "run",
                      NEW d \in graph[Position(task[w])].deps
               PROVE  Position(d) \in finished
    BY DEF DependenciesFirst
  <2>1. task[w] \in Nodes /\ Unreleased(task[w]) = {}
    BY DEF ScheduleInv, LocalsInv, ReleasedInv, Held
  <2>2. Position(task[w]) = task[w] /\ graph[task[w]].deps \subseteq Nodes
    BY <2>1, GraphFacts DEF ScheduleInv
  <2>3. d \in Nodes /\ <<d, task[w]>> \in fired
    BY <2>1, <2>2 DEF Unreleased
  <2>4. d \in finished
    BY <2>1, <2>3 DEF ScheduleInv, CountInv
  <2> QED BY <2>3, <2>4, GraphFacts DEF ScheduleInv
<1> QED BY <1>1, ScheduleAlways, PTL

\* A task is handed out once: it is never queued twice, never in two workers'
\* hands, and never again once its closure has returned, although any of the
\* workers that finish its dependencies may be the one that releases it
\* (fetch_sub and the test prev == 1, lines 463-470; no task twice in a branch).
THEOREM HandedOutOnce ==
  ASSUME NoSubflows, NoRepeats
  PROVE  Spec => []ScheduledOnce
<1>1. ScheduleInv => ScheduledOnce
  <2> SUFFICES ASSUME ScheduleInv PROVE ScheduledOnce
    OBVIOUS
  <2>1. /\ PlacesInv /\ pc \in [Workers -> QuietLabels]
        /\ queue \in Seq(Nodes) /\ ready \in [Workers -> Seq(Nodes)]
    BY DEF ScheduleInv, TypesInv
  <2>2. \A t \in Nodes : Position(t) = t
    BY GraphFacts DEF ScheduleInv
  <2>3. \A t \in ToSet(queue) : t \in Nodes
    BY <2>1, LenProperties DEF ToSet
  <2>4. \A w \in Workers : \A t \in ToSet(ready[w]) : t \in Nodes
    BY <2>1, LenProperties DEF ToSet
  <2>5. \A w \in Workers : pc[w] = "take" => task[w] \in Nodes
    BY DEF ScheduleInv, LocalsInv, Held
  <2>6. \A t \in ToSet(queue) \cup Holding({"take"}) \cup UNION {ToSet(ready[w]) : w \in Workers} :
           Position(t) \notin finished
    BY <2>1, <2>2, <2>3, <2>4, <2>5 DEF PlacesInv, Holding
  <2>7. \A w \in Workers : pc[w] \in (Executing \cup {"take", "select", "release", "push"}) \ {"push"}
                            => pc[w] \in Held
    BY <2>1 DEF Executing, QuietLabels, Held
  <2> QED BY <2>1, <2>6, <2>7 DEF ScheduledOnce, PlacesInv
<1> QED BY <1>1, ScheduleAlways, PTL

-----------------------------------------------------------------------------
(* What becomes of every task: flows with branches and panics included.    *)

HIDE DEF QueueFree

\* Labels of a worker whose task is its own: also one it panicked on.
Kept == Held \cup {"panicked"}

\* A queued task is never left behind: some worker is still to come back to
\* the queue, or a panic has cut the run short.
QueuedInv == queue # <<>> => \E w \in Workers : pc[w] \notin {"notifyExit", "done"}

EndedInv == main = "returned" => \A w \in Workers : pc[w] \in {"done", "panicked"}

\* A panic keeps its task away from everybody.
PanicInv ==
  \A w \in Workers : pc[w] = "panicked" =>
    /\ task[w] \in Nodes \ finished
    /\ Unreleased(task[w]) = {}
    /\ task[w] \notin ToSet(queue)
    /\ \A v \in Workers : /\ task[w] \notin ToSet(ready[v])
                          /\ v # w /\ pc[v] \in Kept => task[v] # task[w]

\* A task without registered branches is going to release all its successors.
SuccsInv ==
  \A w \in Workers :
    pc[w] \in Held \ {"take"} /\ task[w] \notin DOMAIN branches =>
      graph[task[w]].succ \subseteq ToSet(succs[w])

\* Where a task is that all its dependencies have released.
SightInv ==
  \A t \in Nodes : Unreleased(t) = {} =>
    \/ t \in finished \/ t \in ToSet(queue)
    \/ \E w \in Workers : \/ t \in ToSet(ready[w])
                          \/ pc[w] \in Kept /\ task[w] = t

AccountInv == QueuedInv /\ EndedInv /\ PanicInv /\ SuccsInv /\ SightInv

LEMMA AccountInit ==
  ASSUME NoSubflows, NoRepeats, Init
  PROVE  AccountInv
<1>1. ScheduleInv
  BY ScheduleInit
<1>2. /\ main = "notify" /\ finished = {} /\ fired = {}
      /\ \A w \in Workers : pc[w] = "lock" /\ ready[w] = <<>>
      /\ Workers # {}
  BY ExecutorAssumption DEF Init
<1>3. PICK flow \in Flows :
        /\ graph = flow.graph
        /\ queue \in SetToSeqs({p \in DOMAIN flow.graph : flow.graph[p].deps = {}})
  BY DEF Init
<1>4. ToSet(queue) = {p \in Nodes : graph[p].deps = {}}
  <2>1. IsFiniteSet({p \in Nodes : graph[p].deps = {}})
    BY <1>1, GraphFacts, FS_Subset DEF ScheduleInv
  <2> QED BY <1>3, <2>1, ListingFacts DEF Nodes
<1>5. SightInv
  BY <1>2, <1>4 DEF SightInv, Unreleased
<1> QED BY <1>2, <1>5 DEF AccountInv, QueuedInv, EndedInv, PanicInv, SuccsInv, Held

\* Moves of workers that hold no task.
LEMMA AccountQuiet ==
  ASSUME ScheduleInv, AccountInv,
         UNCHANGED <<graph, branches, queue, task, succs, ready, finished, fired>>,
         pc' \in [Workers -> QuietLabels],
         \A v \in Workers : pc'[v] = pc[v] \/ (pc[v] \notin Kept /\ pc'[v] \notin Kept),
         queue # <<>> =>
           \A v \in Workers : pc[v] \notin {"notifyExit", "done"} => pc'[v] \notin {"notifyExit", "done"},
         main' = "returned" => \A v \in Workers : pc'[v] \in {"done", "panicked"}
  PROVE  AccountInv'
<1> USE DEF AccountInv
<1>1. Nodes' = Nodes /\ \A t : Unreleased(t)' = Unreleased(t)
  BY DEF Nodes, Unreleased
<1>2. \A v \in Workers : pc'[v] \in Kept \/ pc[v] \in Kept => pc'[v] = pc[v]
  OBVIOUS
<1>3. QueuedInv' /\ EndedInv'
  BY DEF QueuedInv, EndedInv
<1>4. PanicInv'
  BY <1>1, <1>2 DEF PanicInv, Kept
<1>5. SuccsInv'
  BY <1>2 DEF SuccsInv, Kept
<1>6. SightInv'
  BY <1>1, <1>2 DEF SightInv
<1> QED BY <1>3, <1>4, <1>5, <1>6

LEMMA AccountPop ==
  ASSUME ScheduleInv, AccountInv, NEW w \in Workers, Pop(w)
  PROVE  AccountInv'
<1> USE DEF AccountInv
<1>1. PICK t : t = Head(queue)
  OBVIOUS
<1>2. /\ t \in ToSet(queue) /\ t \in Nodes
      /\ ToSet(queue') = ToSet(queue) \ {t}
  <2>1. queue \in Seq(Nodes) /\ queue # <<>> /\ IsInjective(queue) /\ queue' = Tail(queue)
    BY DEF Pop, ScheduleInv, TypesInv, PlacesInv
  <2> QED BY <1>1, <2>1, TailFacts
<1>3. /\ pc \in [Workers -> QuietLabels] /\ task \in [Workers -> Nodes \cup {NoTask}]
      /\ pc[w] = "lock"
      /\ pc' = [pc EXCEPT ![w] = "take"] /\ task' = [task EXCEPT ![w] = t]
      /\ UNCHANGED <<graph, branches, succs, ready, main, finished, fired>>
  <2>1. pc \in [Workers -> QuietLabels] /\ task \in [Workers -> Nodes \cup {NoTask}]
    BY DEF ScheduleInv, TypesInv
  <2> QED BY <1>1, <2>1 DEF Pop, history
<1>4. Nodes' = Nodes /\ \A s : Unreleased(s)' = Unreleased(s)
  BY <1>3 DEF Nodes, Unreleased
<1>5. \A v \in Workers \ {w} : pc'[v] = pc[v] /\ task'[v] = task[v]
  BY <1>3
<1>6. pc'[w] = "take" /\ task'[w] = t
  BY <1>3
<1>7. QueuedInv' /\ EndedInv'
  <2>1. main # "returned"
    BY <1>3 DEF EndedInv
  <2> QED BY <1>3, <1>6, <2>1 DEF QueuedInv, EndedInv
<1>8. PanicInv'
  BY <1>2, <1>3, <1>4, <1>5, <1>6 DEF PanicInv, Kept, Held
<1>9. SuccsInv'
  BY <1>3, <1>5, <1>6 DEF SuccsInv
<1>10. SightInv'
  BY <1>2, <1>3, <1>4, <1>5, <1>6 DEF SightInv, Kept, Held
<1> QED BY <1>7, <1>8, <1>9, <1>10

\* The steps of a worker that keeps its task.
LEMMA AccountHold ==
  ASSUME NoSubflows, NoRepeats, ScheduleInv, AccountInv, NEW w \in Workers, pc[w] \in Held,
         NEW label \in Kept, pc' = [pc EXCEPT ![w] = label],
         finished' = finished \/ (finished' = finished \cup {task[w]} /\ label # "panicked"),
         label = "panicked" => pc[w] = "run",
         label # "panicked" /\ task[w] \notin DOMAIN branches =>
           graph[task[w]].succ \subseteq ToSet(succs'[w]),
         \A v \in Workers \ {w} : succs'[v] = succs[v],
         UNCHANGED <<graph, branches, queue, task, ready, main, fired>>
  PROVE  AccountInv'
<1> USE DEF AccountInv
<1>1. /\ Nodes' = Nodes /\ \A s : Unreleased(s)' = Unreleased(s)
      /\ pc \in [Workers -> QuietLabels]
  BY DEF Nodes, Unreleased, ScheduleInv, TypesInv
<1>2. /\ \A v \in Workers \ {w} : pc'[v] = pc[v]
      /\ pc'[w] = label
      /\ \A v \in Workers : pc'[v] \in Kept <=> pc[v] \in Kept
      /\ pc[w] # "panicked"
  BY <1>1 DEF Kept, Held
<1>3. QueuedInv' /\ EndedInv'
  <2>1. main # "returned" /\ pc'[w] \notin {"notifyExit", "done"}
    BY <1>2 DEF EndedInv, Held, Kept
  <2> QED BY <2>1 DEF QueuedInv, EndedInv
<1>4. PanicInv'
  <2> SUFFICES ASSUME NEW u \in Workers, pc'[u] = "panicked"
               PROVE  /\ task[u] \in Nodes \ finished'
                      /\ Unreleased(task[u]) = {}
                      /\ task[u] \notin ToSet(queue)
                      /\ \A v \in Workers : /\ task[u] \notin ToSet(ready[v])
                                            /\ v # u /\ pc'[v] \in Kept => task[v] # task[u]
    BY <1>1 DEF PanicInv
  <2>1. CASE u = w
    <3>1. label = "panicked" /\ finished' = finished /\ pc[w] = "run"
      BY <1>2, <2>1
    <3>2. /\ task[w] \in Nodes \ finished /\ Unreleased(task[w]) = {}
          /\ task[w] \notin ToSet(queue) /\ ready[w] = <<>>
          /\ \A v \in Workers \ {w} : /\ task[w] \notin ToSet(ready[v])
                                      /\ pc[v] \in Held => task[v] # task[w]
      BY <3>1 DEF ScheduleInv, LocalsInv, ReleasedInv, PlacesInv, Held
    <3>3. ToSet(<<>>) = {}
      BY EmptySeq DEF ToSet
    <3>4. \A v \in Workers \ {w} : pc[v] \in Kept => task[v] # task[w]
      BY <3>1, <3>2 DEF PanicInv, Kept, Held
    <3> QED BY <1>2, <2>1, <3>1, <3>2, <3>3, <3>4
  <2>2. CASE u # w
    <3>1. pc[u] = "panicked" /\ task[u] # task[w]
      BY <1>2, <2>2 DEF PanicInv, Kept
    <3>2. \A v \in Workers : pc'[v] \in Kept <=> pc[v] \in Kept
      BY <1>2
    <3> QED BY <3>1, <3>2 DEF PanicInv
  <2> QED BY <2>1, <2>2
<1>5. SuccsInv'
  BY <1>2 DEF SuccsInv, Held
<1>6. SightInv'
  BY <1>1, <1>2 DEF SightInv
<1> QED BY <1>3, <1>4, <1>5, <1>6

LEMMA AccountRelease ==
  ASSUME NoSubflows, NoRepeats, ScheduleInv, AccountInv, NEW w \in Workers, ReleaseEach(w)
  PROVE  AccountInv'
<1> USE DEF AccountInv
<1> DEFINE known == ToSet(succs[w]) \cap DOMAIN depCount
<1> DEFINE freed == {s \in known : depCount[s] = 1}
<1>3. /\ known \subseteq Nodes /\ IsFiniteSet(known)
      /\ \A s \in known : task[w] \in Unreleased(s)
      /\ \A s \in Nodes \ known : Unreleased(s)' = Unreleased(s)
      /\ \A s \in known : depCount[s] = 1 <=> Unreleased(s)' = {}
  BY ReleaseFacts
<1>4. /\ pc[w] = "release" /\ main # "returned"
      /\ pc \in [Workers -> QuietLabels] /\ ready \in [Workers -> Seq(Nodes)]
      /\ task \in [Workers -> Nodes \cup {NoTask}]
      /\ task[w] \in finished /\ ready[w] = <<>>
      /\ UNCHANGED <<graph, branches, queue, main, finished>>
  BY DEF ReleaseEach, ScheduleInv, TypesInv, LocalsInv, PlacesInv, Held, EndedInv
<1>5. /\ ToSet(ready'[w]) = freed
      /\ \A v \in Workers \ {w} : /\ ready'[v] = ready[v] /\ task'[v] = task[v]
                                  /\ pc'[v] = pc[v] /\ succs'[v] = succs[v]
      /\ pc'[w] \in {"lock", "push"}
  <2>1. CASE freed = {}
    <3>1. /\ ready' = [ready EXCEPT ![w] = <<>>] /\ pc' = [pc EXCEPT ![w] = "lock"]
      BY <2>1 DEF ReleaseEach, EndIteration
    <3>2. task' = [task EXCEPT ![w] = NoTask] /\ succs' = [succs EXCEPT ![w] = <<>>]
      BY <2>1 DEF ReleaseEach, EndIteration
    <3>3. ToSet(<<>>) = {}
      BY EmptySeq DEF ToSet
    <3> QED BY <1>4, <2>1, <3>1, <3>2, <3>3
  <2>2. CASE freed # {}
    <3>1. PICK list \in Seq(freed) :
          IsInjective(list) /\ ToSet(list) = freed /\ ready' = [ready EXCEPT ![w] = list]
      BY <2>2 DEF ReleaseEach
    <3>2. pc' = [pc EXCEPT ![w] = "push"]
      BY <2>2 DEF ReleaseEach
    <3>3. task' = task /\ succs' = succs
      BY <2>2 DEF ReleaseEach
    <3>4. ToSet(list) = freed
      BY <3>1
    <3> QED BY <1>4, <3>1, <3>2, <3>3, <3>4
  <2> QED BY <2>1, <2>2
<1>6. /\ Nodes' = Nodes
      /\ \A s \in Nodes : Unreleased(s)' = {} <=> Unreleased(s) = {} \/ s \in freed
      /\ \A s \in freed : Unreleased(s) # {}
  BY <1>3, <1>4 DEF Nodes
<1> HIDE DEF known, freed
<1>7. \A v \in Workers : pc'[v] \in Kept => v # w
  BY <1>5 DEF Kept, Held
<1>8. QueuedInv' /\ EndedInv'
  BY <1>4, <1>5 DEF QueuedInv, EndedInv
<1>9. PanicInv'
  <2> SUFFICES ASSUME NEW u \in Workers, pc'[u] = "panicked", NEW t, t = task'[u]
               PROVE  /\ t \in Nodes \ finished
                      /\ Unreleased(t)' = {}
                      /\ t \notin ToSet(queue)
                      /\ \A v \in Workers : /\ t \notin ToSet(ready'[v])
                                            /\ v # u /\ pc'[v] \in Kept => task'[v] # t
    BY <1>4, <1>6 DEF PanicInv
  <2>1. pc[u] = "panicked" /\ t = task[u]
    BY <1>5
  <2>2. /\ t \in Nodes \ finished /\ Unreleased(t) = {}
        /\ t \notin ToSet(queue)
        /\ \A v \in Workers : /\ t \notin ToSet(ready[v])
                              /\ v # u /\ pc[v] \in Kept => task[v] # t
    BY <2>1 DEF PanicInv
  <2>3. \A v \in Workers : pc'[v] \in Kept => pc[v] \in Kept /\ task'[v] = task[v]
    BY <1>5, <1>7
  <2>4. \A v \in Workers : t \notin ToSet(ready'[v])
    BY <1>5, <1>6, <2>2
  <2>5. Unreleased(t)' = {}
    BY <1>6, <2>2
  <2> QED BY <2>1, <2>2, <2>3, <2>4, <2>5
<1>10. SuccsInv'
  BY <1>4, <1>5, <1>7 DEF SuccsInv, Kept
<1>11. SightInv'
  <2> SUFFICES ASSUME NEW t \in Nodes, Unreleased(t)' = {}
               PROVE  \/ t \in finished \/ t \in ToSet(queue)
                      \/ \E v \in Workers : \/ t \in ToSet(ready'[v])
                                            \/ pc'[v] \in Kept /\ task'[v] = t
    BY <1>4, <1>6 DEF SightInv
  <2>1. CASE t \in freed
    BY <1>5, <2>1
  <2>2. CASE t \notin freed
    <3>1. \/ t \in finished \/ t \in ToSet(queue)
          \/ \E v \in Workers : \/ t \in ToSet(ready[v])
                                \/ pc[v] \in Kept /\ task[v] = t
      BY <1>6, <2>2 DEF SightInv
    <3>2. ToSet(ready[w]) = {}
      BY <1>4, EmptySeq DEF ToSet
    <3> QED BY <1>4, <1>5, <3>1, <3>2
  <2> QED BY <2>1, <2>2
<1> QED BY <1>8, <1>9, <1>10, <1>11

LEMMA AccountPushReady ==
  ASSUME ScheduleInv, AccountInv, NEW w \in Workers, PushReady(w)
  PROVE  AccountInv'
<1> USE DEF AccountInv
<1>1. /\ pc[w] = "push" /\ pc' = [pc EXCEPT ![w] = "notify"]
      /\ pc \in [Workers -> QuietLabels] /\ ready \in [Workers -> Seq(Nodes)]
      /\ queue' = queue \o ready[w]
      /\ queue \in Seq(Nodes) /\ ready[w] \in Seq(Nodes)
      /\ task' = [task EXCEPT ![w] = NoTask]
      /\ succs' = [succs EXCEPT ![w] = <<>>] /\ ready' = [ready EXCEPT ![w] = <<>>]
      /\ UNCHANGED <<graph, branches, main, finished, fired>>
  <2>1. /\ pc \in [Workers -> QuietLabels] /\ ready \in [Workers -> Seq(Nodes)]
        /\ queue \in Seq(Nodes) /\ ready[w] \in Seq(Nodes)
    BY DEF ScheduleInv, TypesInv
  <2> QED BY <2>1 DEF PushReady, EndIteration, history
<1>2. ToSet(queue') = ToSet(queue) \cup ToSet(ready[w])
  BY <1>1, ConcatFacts
<1>3. ToSet(<<>>) = {}
  BY EmptySeq DEF ToSet
<1>4. /\ \A v \in Workers \ {w} : /\ pc'[v] = pc[v] /\ task'[v] = task[v]
                                  /\ succs'[v] = succs[v] /\ ready'[v] = ready[v]
      /\ pc'[w] = "notify" /\ ready'[w] = <<>>
  <2>1. DOMAIN task = Workers /\ DOMAIN succs = Workers
    BY DEF ScheduleInv, TypesInv
  <2> QED BY <1>1, <2>1
<1>5. Nodes' = Nodes /\ \A s : Unreleased(s)' = Unreleased(s)
  BY <1>1 DEF Nodes, Unreleased
<1>6. \A v \in Workers : pc'[v] \in Kept \/ pc[v] \in Kept => v # w
  BY <1>1, <1>4 DEF Kept, Held
<1>7. QueuedInv' /\ EndedInv'
  <2>1. main # "returned"
    BY <1>1 DEF EndedInv
  <2> QED BY <1>1, <1>4, <2>1 DEF QueuedInv, EndedInv
<1>8. PanicInv'
  <2> SUFFICES ASSUME NEW u \in Workers, pc'[u] = "panicked"
               PROVE  /\ task'[u] \in Nodes \ finished
                      /\ Unreleased(task'[u]) = {}
                      /\ task'[u] \notin ToSet(queue')
                      /\ \A v \in Workers : /\ task'[u] \notin ToSet(ready'[v])
                                            /\ v # u /\ pc'[v] \in Kept => task'[v] # task'[u]
    BY <1>1, <1>5 DEF PanicInv
  <2>1. pc[u] = "panicked" /\ task'[u] = task[u]
    BY <1>4
  <2>2. /\ task[u] \in Nodes \ finished /\ Unreleased(task[u]) = {}
        /\ task[u] \notin ToSet(queue)
        /\ \A v \in Workers : /\ task[u] \notin ToSet(ready[v])
                              /\ v # u /\ pc[v] \in Kept => task[v] # task[u]
    BY <2>1 DEF PanicInv
  <2>3. \A v \in Workers : pc'[v] \in Kept => pc[v] \in Kept /\ task'[v] = task[v]
    BY <1>4, <1>6
  <2>4. \A v \in Workers : task[u] \notin ToSet(ready'[v])
    BY <1>3, <1>4, <2>2
  <2> QED BY <1>2, <2>1, <2>2, <2>3, <2>4
<1>9. SuccsInv'
  BY <1>1, <1>4, <1>6 DEF SuccsInv, Kept
<1>10. SightInv'
  <2> SUFFICES ASSUME NEW t \in Nodes, Unreleased(t) = {}
               PROVE  \/ t \in finished \/ t \in ToSet(queue')
                      \/ \E v \in Workers : \/ t \in ToSet(ready'[v])
                                            \/ pc'[v] \in Kept /\ task'[v] = t
    BY <1>1, <1>5 DEF SightInv
  <2>1. \/ t \in finished \/ t \in ToSet(queue)
        \/ \E v \in Workers : t \in ToSet(ready[v]) \/ (pc[v] \in Kept /\ task[v] = t)
    BY DEF SightInv
  <2> QED BY <1>2, <1>4, <1>6, <2>1
<1> QED BY <1>7, <1>8, <1>9, <1>10

LEMMA AccountStep ==
  ASSUME NoSubflows, NoRepeats, ScheduleInv, AccountInv, [Next]_vars
  PROVE  AccountInv'
<1>1. /\ pc \in [Workers -> QuietLabels] /\ EndedInv
  BY DEF ScheduleInv, TypesInv, AccountInv
<1>2. ASSUME NEW w \in Workers, QueueStep(w) PROVE AccountInv'
  <2> USE DEF shared, locals, history, QuietLabels, Labels, Kept, Held
  <2>1. CASE Pop(w)
    BY <2>1, AccountPop
  <2>2. CASE ExitOnShutdown(w)
    BY <1>1, <2>2, AccountQuiet DEF ExitOnShutdown, EndedInv
  <2>3. CASE DetectCompletion(w)
    BY <1>1, <2>3, AccountQuiet DEF DetectCompletion, EndedInv
  <2>4. CASE NotifyExit(w)
    BY <1>1, <2>4, AccountQuiet DEF NotifyExit, EndedInv
  <2>5. CASE SeeOutstanding(w)
    BY <1>1, <2>5, AccountQuiet DEF SeeOutstanding, EndedInv
  <2>6. CASE Wait(w)
    BY <1>1, <2>6, AccountQuiet DEF Wait, EndedInv
  <2> QED BY <1>2, <2>1, <2>2, <2>3, <2>4, <2>5, <2>6 DEF QueueStep
<1>3. ASSUME NEW w \in Workers, SubflowStep(w) PROVE FALSE
  BY <1>3, SubflowStepsExcluded
<1>4. ASSUME NEW w \in Workers, pc[w] \in Held
      PROVE  /\ Position(task[w]) = task[w]
             /\ pc[w] # "take" /\ task[w] \notin DOMAIN branches =>
                  graph[task[w]].succ \subseteq ToSet(succs[w])
  <2>1. task[w] \in Nodes
    BY <1>4 DEF ScheduleInv, LocalsInv
  <2> QED BY <1>4, <2>1, GraphFacts DEF ScheduleInv, AccountInv, SuccsInv
<1>5. ASSUME NEW w \in Workers, TaskStep(w) PROVE AccountInv'
  <2> USE DEF shared, locals, history, Kept, Held
  <2>1. CASE TakeWork(w)
    <3>1. task[w] \in Nodes
      BY <2>1 DEF ScheduleInv, LocalsInv, TakeWork
    <3>2. IsFiniteSet(graph[task[w]].succ) /\ Position(task[w]) = task[w]
      BY <3>1, GraphFacts, FS_Subset DEF ScheduleInv
    <3>3. PICK order \in SetToSeqs(graph[task[w]].succ) : succs' = [succs EXCEPT ![w] = order]
      BY <2>1, <3>2 DEF TakeWork
    <3>4. succs'[w] = order /\ \A v \in Workers \ {w} : succs'[v] = succs[v]
      BY <3>3 DEF ScheduleInv, TypesInv
    <3>5. graph[task[w]].succ \subseteq ToSet(succs'[w])
      BY <3>2, <3>3, <3>4, ListingFacts
    <3> QED BY <2>1, <3>4, <3>5, AccountHold DEF TakeWork
  <2>2. CASE RunNothing(w) \/ RunStatic(w) \/ RunCondition(w)
    BY <1>4, <2>2, AccountHold DEF RunNothing, RunStatic, RunCondition
  <2>3. CASE RunPanicking(w)
    BY <1>4, <2>3, AccountHold DEF RunPanicking
  <2>4. CASE Decrement(w)
    BY <1>4, <2>4, AccountHold DEF Decrement
  <2>5. CASE SelectBranch(w)
    <3>1. task[w] \in DOMAIN branches
      BY <2>5 DEF SelectBranch, ScheduleInv, LocalsInv
    <3>2. \A v \in Workers \ {w} : succs'[v] = succs[v]
      BY <2>5 DEF SelectBranch, ScheduleInv, TypesInv
    <3> QED BY <2>5, <3>1, <3>2, AccountHold DEF SelectBranch
  <2>6. CASE Release(w)
    BY <2>6, ReleaseSimple, AccountRelease
  <2>7. CASE PushReady(w)
    BY <2>7, AccountPushReady
  <2>8. CASE NotifyReady(w)
    BY <1>1, <2>8, AccountQuiet DEF NotifyReady, QuietLabels, Labels, EndedInv
  <2> QED BY <1>5, <2>1, <2>2, <2>3, <2>4, <2>5, <2>6, <2>7, <2>8 DEF TaskStep
<1>6. ASSUME NEW w \in Workers, WakeSpuriously(w) PROVE AccountInv'
  BY <1>1, <1>6, AccountQuiet DEF WakeSpuriously, shared, locals, history, QuietLabels, Labels,
     Kept, Held, EndedInv
<1>7. CASE MainNotify
  BY <1>1, <1>7, AccountQuiet DEF MainNotify, shared, locals, history, QuietLabels, Labels,
     Kept, Held
<1>8. CASE MainReturn
  BY <1>1, <1>8, AccountQuiet DEF MainReturn, shared, locals, history
<1>9. CASE UNCHANGED vars
  BY <1>1, <1>9, AccountQuiet DEF vars, shared, locals, history, EndedInv
<1> QED BY <1>2, <1>3, <1>5, <1>6, <1>7, <1>8, <1>9 DEF Next, WorkerStep, Halted

LEMMA AccountAlways ==
  ASSUME NoSubflows, NoRepeats
  PROVE  Spec => [](ScheduleInv /\ AccountInv)
<1>1. Init => ScheduleInv /\ AccountInv
  BY ScheduleInit, AccountInit
<1>2. ScheduleInv /\ AccountInv /\ [Next]_vars => (ScheduleInv /\ AccountInv)'
  BY ScheduleStep, AccountStep
<1> QED BY <1>1, <1>2, PTL DEF Spec

-----------------------------------------------------------------------------
(* The promise of TaskExecution, step by step.                             *)

\* The mapping shows the dependencies of the graph.
LEMMA MappedDeps ==
  ASSUME NoSubflows, NoRepeats, ScheduleInv
  PROVE  /\ DOMAIN depCount = Nodes
         /\ Promise!Tasks = Nodes
         /\ \A t \in Nodes : /\ Promise!Dependents(t) = graph[t].succ
                             /\ Promise!Runnable(t) <=> Unreleased(t) = {}
<1>1. /\ DOMAIN depCount = Nodes
      /\ \A t \in Nodes : /\ Position(t) = t
                          /\ graph[t].succ \subseteq Nodes
                          /\ graph[t].deps = {q \in Nodes : t \in graph[q].succ}
  BY GraphFacts DEF ScheduleInv, TypesInv
<1>2. Promise!Tasks = Nodes
  BY <1>1 DEF Promise!Tasks
<1>3. ASSUME NEW t \in Nodes PROVE Promise!Dependents(t) = graph[t].succ
  BY <1>1, <1>2 DEF Promise!Dependents
<1>4. ASSUME NEW t \in Nodes PROVE Promise!Runnable(t) <=> Unreleased(t) = {}
  BY <1>1 DEF Promise!Runnable, Unreleased
<1> QED BY <1>1, <1>2, <1>3, <1>4

LEMMA DepsStay ==
  ASSUME graph' = graph, DOMAIN depCount' = DOMAIN depCount
  PROVE  [t \in DOMAIN depCount |-> graph[Position(t)].deps]'
           = [t \in DOMAIN depCount |-> graph[Position(t)].deps]
BY DEF Position

\* Where the task of a worker stands: held tasks differ from each other.
LEMMA MappedMove ==
  ASSUME NoSubflows, NoRepeats, ScheduleInv, AccountInv, NEW w \in Workers, NEW t, t = task[w],
         pc[w] \in Held, NEW label \in QuietLabels, pc' = [pc EXCEPT ![w] = label],
         label \in Kept => task'[w] = t,
         \A v \in Workers \ {w} : task'[v] = task[v]
  PROVE  /\ InHand' = IF label \in Held \ {"take"} THEN InHand \cup {t} ELSE InHand \ {t}
         /\ Holding({"panicked"})' = IF label = "panicked" THEN Holding({"panicked"}) \cup {t}
                                     ELSE Holding({"panicked"})
         /\ t \in InHand <=> pc[w] # "take"
         /\ t \notin Holding({"panicked"})
         /\ t \in Nodes /\ Unreleased(t) = {}
         /\ t \in finished <=> pc[w] \in {"decrement", "select", "release"}
         /\ main # "returned"
<1>1. /\ pc \in [Workers -> QuietLabels]
      /\ \A v \in Workers \ {w} : pc'[v] = pc[v] /\ task'[v] = task[v]
      /\ pc'[w] = label
  BY DEF ScheduleInv, TypesInv
<1>2. \A v \in Workers \ {w} : pc[v] \in Kept => task[v] # t
  BY DEF ScheduleInv, PlacesInv, AccountInv, PanicInv, Kept
<1> DEFINE R == Executing \cup {"select", "release"}
<1>3. /\ R \cap QuietLabels = Held \ {"take"}
      /\ \A v \in Workers : pc[v] \in R => pc[v] \in Kept
  BY <1>1 DEF Executing, QuietLabels, Labels, Held, Kept
<1>4. InHand' = IF label \in Held \ {"take"} THEN InHand \cup {t} ELSE InHand \ {t}
  <2>1. InHand' = {task'[v] : v \in {u \in Workers : pc'[u] \in R}}
    BY DEF InHand, Holding, Executing
  <2>2. InHand = {task[v] : v \in {u \in Workers : pc[u] \in R}}
    BY DEF InHand, Holding
  <2>3. label \in R <=> label \in Held \ {"take"}
    BY <1>3
  <2> QED BY <1>1, <1>2, <1>3, <2>1, <2>2, <2>3 DEF Kept
<1>5. t \in InHand <=> pc[w] # "take"
  BY <1>1, <1>2, <1>3 DEF InHand, Holding
<1>6. /\ Holding({"panicked"})' = IF label = "panicked" THEN Holding({"panicked"}) \cup {t}
                                  ELSE Holding({"panicked"})
      /\ t \notin Holding({"panicked"})
  <2>1. Holding({"panicked"})' = {task'[v] : v \in {u \in Workers : pc'[u] = "panicked"}}
    BY DEF Holding
  <2>2. Holding({"panicked"}) = {task[v] : v \in {u \in Workers : pc[u] = "panicked"}}
    BY DEF Holding
  <2> QED BY <1>1, <1>2, <2>1, <2>2 DEF Kept, Held
<1>7. /\ t \in Nodes /\ Unreleased(t) = {}
      /\ t \in finished <=> pc[w] \in {"decrement", "select", "release"}
  BY DEF ScheduleInv, LocalsInv, ReleasedInv, PlacesInv, Held
<1>8. main # "returned"
  BY DEF AccountInv, EndedInv, Held
<1> QED BY <1>4, <1>5, <1>6, <1>7, <1>8

\* Steps of which the promise sees nothing.
LEMMA PromiseIdle ==
  ASSUME UNCHANGED <<graph, branches, fired>>, DOMAIN depCount' = DOMAIN depCount,
         InHand' = InHand, Holding({"panicked"})' = Holding({"panicked"}),
         finished' \ InHand = finished \ InHand,
         main' = "returned" <=> main = "returned"
  PROVE  UNCHANGED Promise!avars
<1>1. {t \in finished : t \notin InHand}' = {t \in finished : t \notin InHand}
  OBVIOUS
<1>2. [t \in DOMAIN depCount |-> graph[Position(t)].deps]'
        = [t \in DOMAIN depCount |-> graph[Position(t)].deps]
  BY DepsStay
<1> QED BY <1>1, <1>2 DEF Promise!avars

LEMMA PromiseStart ==
  ASSUME NoSubflows, NoRepeats, ScheduleInv, AccountInv, NEW w \in Workers, TakeWork(w)
  PROVE  Promise!Next
<1>0. PICK t : t = task[w]
  OBVIOUS
<1>1. /\ pc[w] = "take" /\ pc' = [pc EXCEPT ![w] = "run"]
      /\ UNCHANGED <<graph, branches, depCount, task, main, finished, fired>>
  BY DEF TakeWork, history
<1>2. /\ InHand' = InHand \cup {t} /\ t \notin InHand
      /\ Holding({"panicked"})' = Holding({"panicked"}) /\ t \notin Holding({"panicked"})
      /\ t \in Nodes /\ Unreleased(t) = {} /\ t \notin finished /\ main # "returned"
  BY <1>0, <1>1, MappedMove DEF Held, QuietLabels, Labels
<1>3. {u \in finished : u \notin InHand}' = {u \in finished : u \notin InHand}
  BY <1>1, <1>2
<1>4. [u \in DOMAIN depCount |-> graph[Position(u)].deps]'
        = [u \in DOMAIN depCount |-> graph[Position(u)].deps]
  BY <1>1, DepsStay
<1>5. t \in Promise!Tasks /\ Promise!Runnable(t)
  BY <1>2, MappedDeps
<1>6. Promise!Start(t)
  BY <1>1, <1>2, <1>3, <1>4, <1>5 DEF Promise!Start
<1> QED BY <1>5, <1>6 DEF Promise!Next

LEMMA PromiseAbort ==
  ASSUME NoSubflows, NoRepeats, ScheduleInv, AccountInv, NEW w \in Workers, RunPanicking(w)
  PROVE  Promise!Next
<1>0. PICK t : t = task[w]
  OBVIOUS
<1>1. /\ pc[w] = "run" /\ pc' = [pc EXCEPT ![w] = "panicked"]
      /\ UNCHANGED <<graph, branches, depCount, task, main, finished, fired>>
  BY DEF RunPanicking, shared, locals, history
<1>2. /\ InHand' = InHand \ {t} /\ t \in InHand
      /\ Holding({"panicked"})' = Holding({"panicked"}) \cup {t}
      /\ t \in Nodes /\ t \notin finished
  BY <1>0, <1>1, MappedMove DEF Held, QuietLabels, Labels
<1>3. {u \in finished : u \notin InHand}' = {u \in finished : u \notin InHand}
  BY <1>1, <1>2
<1>4. [u \in DOMAIN depCount |-> graph[Position(u)].deps]'
        = [u \in DOMAIN depCount |-> graph[Position(u)].deps]
  BY <1>1, DepsStay
<1>5. Promise!Abort(t)
  BY <1>1, <1>2, <1>3, <1>4 DEF Promise!Abort
<1> QED BY <1>2, <1>5, MappedDeps DEF Promise!Next

\* The closure, the counter and the choice of a branch stay inside the task.
LEMMA PromiseInside ==
  ASSUME NoSubflows, NoRepeats, ScheduleInv, AccountInv, NEW w \in Workers,
         pc[w] \in Held \ {"take"}, NEW label \in Held \ {"take"},
         pc' = [pc EXCEPT ![w] = label],
         finished' = finished \/ finished' = finished \cup {task[w]},
         UNCHANGED <<graph, branches, depCount, task, main, fired>>
  PROVE  UNCHANGED Promise!avars
<1>1. PICK t : t = task[w]
  OBVIOUS
<1>2. /\ InHand' = InHand \cup {t} /\ t \in InHand
      /\ Holding({"panicked"})' = Holding({"panicked"})
  BY <1>1, MappedMove DEF Held, QuietLabels, Labels
<1>3. finished' \ InHand = finished \ InHand /\ InHand' = InHand
  BY <1>1, <1>2
<1> QED BY <1>2, <1>3, PromiseIdle

LEMMA PromiseComplete ==
  ASSUME NoSubflows, NoRepeats, ScheduleInv, AccountInv, NEW w \in Workers, ReleaseEach(w)
  PROVE  Promise!Next
<1>0. PICK t, known : t = task[w] /\ known = ToSet(succs[w]) \cap DOMAIN depCount
  OBVIOUS
<1>1. /\ pc[w] = "release"
      /\ fired' = fired \cup ({t} \X known)
      /\ DOMAIN depCount' = DOMAIN depCount
      /\ UNCHANGED <<graph, branches, main, finished>>
  BY <1>0 DEF ReleaseEach
<1>2. PICK label \in {"lock", "push"} :
        /\ pc' = [pc EXCEPT ![w] = label]
        /\ \A v \in Workers \ {w} : task'[v] = task[v]
  <2>1. task' = task \/ task' = [task EXCEPT ![w] = NoTask]
    BY DEF ReleaseEach, EndIteration
  <2>2. pc' = [pc EXCEPT ![w] = "lock"] \/ pc' = [pc EXCEPT ![w] = "push"]
    BY DEF ReleaseEach
  <2> QED BY <2>1, <2>2 DEF ScheduleInv, TypesInv
<1>3. /\ InHand' = InHand \ {t} /\ t \in InHand /\ t \in finished /\ t \in Nodes
      /\ Holding({"panicked"})' = Holding({"panicked"})
  BY <1>0, <1>1, <1>2, MappedMove DEF Held, Kept, QuietLabels, Labels
<1>4. {u \in finished : u \notin InHand}' = {u \in finished : u \notin InHand} \cup {t}
  BY <1>1, <1>3
<1>5. [u \in DOMAIN depCount |-> graph[Position(u)].deps]'
        = [u \in DOMAIN depCount |-> graph[Position(u)].deps]
  BY <1>1, DepsStay
<1>6. /\ Promise!Dependents(t) = graph[t].succ /\ graph[t].succ \subseteq DOMAIN depCount
      /\ known \subseteq graph[t].succ
      /\ t \notin DOMAIN branches => known = graph[t].succ
  <2>1. Promise!Dependents(t) = graph[t].succ /\ graph[t].succ \subseteq DOMAIN depCount
    BY <1>3, MappedDeps, GraphFacts DEF ScheduleInv
  <2>2. ToSet(succs[w]) \subseteq graph[t].succ
    BY <1>0, <1>1 DEF ScheduleInv, LocalsInv, Held
  <2>3. t \notin DOMAIN branches => graph[t].succ \subseteq ToSet(succs[w])
    BY <1>0, <1>1 DEF AccountInv, SuccsInv, Held
  <2> QED BY <1>0, <2>1, <2>2, <2>3
<1>7. Promise!Complete(t)
  <2>1. \E S \in SUBSET Promise!Dependents(t) : fired' = fired \cup ({t} \X S)
    BY <1>1, <1>6
  <2>2. t \notin DOMAIN branches => {t} \X Promise!Dependents(t) \subseteq fired'
    BY <1>1, <1>6
  <2>3. UNCHANGED <<DOMAIN branches, Holding({"panicked"}), main = "returned">>
    BY <1>1, <1>3
  <2> QED BY <1>3, <1>4, <1>5, <2>1, <2>2, <2>3 DEF Promise!Complete
<1> QED BY <1>3, <1>7, MappedDeps DEF Promise!Next

\* wait returns when every worker has ended; whatever could start did.
LEMMA PromiseReturn ==
  ASSUME NoSubflows, NoRepeats, ScheduleInv, AccountInv, MainReturn
  PROVE  Promise!Next
<1>1. /\ \A w \in Workers : pc[w] \in {"done", "panicked"}
      /\ main' = "returned"
      /\ UNCHANGED <<graph, branches, depCount, pc, task, finished, fired>>
  BY DEF MainReturn, shared, locals, history
<1>2. InHand = {}
  BY <1>1 DEF InHand, Holding, Executing
<1>3. ASSUME Holding({"panicked"}) = {}, NEW t \in Nodes, Unreleased(t) = {}
      PROVE  t \in finished
  <2>1. \A w \in Workers : pc[w] = "done" /\ ready[w] = <<>>
    BY <1>1, <1>3 DEF Holding, ScheduleInv, LocalsInv
  <2>2. queue = <<>>
    BY <2>1 DEF AccountInv, QueuedInv
  <2>3. ToSet(<<>>) = {}
    BY EmptySeq DEF ToSet
  <2> QED BY <1>3, <2>1, <2>2, <2>3 DEF AccountInv, SightInv, Kept, Held
<1>4. Holding({"panicked"}) = {} =>
        \A t \in Promise!Tasks \ {u \in finished : u \notin InHand} : ~Promise!Runnable(t)
  BY <1>2, <1>3, MappedDeps
<1>5. InHand' = InHand /\ Holding({"panicked"})' = Holding({"panicked"})
  BY <1>1 DEF InHand, Holding
<1>6. [u \in DOMAIN depCount |-> graph[Position(u)].deps]'
        = [u \in DOMAIN depCount |-> graph[Position(u)].deps]
  BY <1>1, DepsStay
<1>7. {u \in finished : u \notin InHand}' = {u \in finished : u \notin InHand}
  BY <1>1, <1>5
<1>8. Promise!Return
  BY <1>1, <1>2, <1>4, <1>5, <1>6, <1>7 DEF Promise!Return
<1> QED BY <1>8 DEF Promise!Next

\* Workers that hold no task, before and after.
LEMMA PromiseQuiet ==
  ASSUME ScheduleInv,
         UNCHANGED <<graph, branches, depCount, finished, fired>>,
         \A v \in Workers :
            \/ pc'[v] = pc[v] /\ task'[v] = task[v]
            \/ pc[v] \notin Kept \ {"take"} /\ pc'[v] \in QuietLabels \ (Kept \ {"take"}),
         main' = "returned" <=> main = "returned"
  PROVE  UNCHANGED Promise!avars
<1> DEFINE R == Executing \cup {"select", "release"}
<1>1. /\ (R \cup {"panicked"}) \cap QuietLabels = Kept \ {"take"}
      /\ pc \in [Workers -> QuietLabels]
  BY DEF Executing, QuietLabels, Labels, Held, Kept, ScheduleInv, TypesInv
<1>2. \A v \in Workers : /\ pc'[v] \in R <=> pc[v] \in R
                         /\ pc'[v] = "panicked" <=> pc[v] = "panicked"
                         /\ pc[v] \in R \cup {"panicked"} => task'[v] = task[v]
  BY <1>1
<1>3. InHand' = InHand
  <2>1. InHand' = {task'[v] : v \in {u \in Workers : pc'[u] \in R}}
    BY DEF InHand, Holding, Executing
  <2>2. InHand = {task[v] : v \in {u \in Workers : pc[u] \in R}}
    BY DEF InHand, Holding
  <2> QED BY <1>2, <2>1, <2>2
<1>4. Holding({"panicked"})' = Holding({"panicked"})
  BY <1>2 DEF Holding
<1> QED BY <1>3, <1>4, PromiseIdle

LEMMA PromiseStep ==
  ASSUME NoSubflows, NoRepeats, ScheduleInv, AccountInv, [Next]_vars
  PROVE  Promise!Next \/ UNCHANGED Promise!avars
<1>1. /\ pc \in [Workers -> QuietLabels] /\ task \in [Workers -> Nodes \cup {NoTask}]
  BY DEF ScheduleInv, TypesInv
<1>2. ASSUME NEW w \in Workers, QueueStep(w) PROVE UNCHANGED Promise!avars
  <2> USE DEF shared, locals, history, QuietLabels, Labels, Kept, Held
  <2>1. CASE Pop(w)
    BY <1>1, <2>1, PromiseQuiet DEF Pop
  <2>2. CASE ExitOnShutdown(w) \/ SeeOutstanding(w) \/ Wait(w)
    BY <1>1, <2>2, PromiseQuiet DEF ExitOnShutdown, SeeOutstanding, Wait
  <2>3. CASE DetectCompletion(w)
    BY <1>1, <2>3, PromiseQuiet DEF DetectCompletion
  <2>4. CASE NotifyExit(w)
    BY <1>1, <2>4, PromiseQuiet DEF NotifyExit
  <2> QED BY <1>2, <2>1, <2>2, <2>3, <2>4 DEF QueueStep
<1>3. ASSUME NEW w \in Workers, SubflowStep(w) PROVE FALSE
  BY <1>3, SubflowStepsExcluded
<1>4. ASSUME NEW w \in Workers, pc[w] \in Held PROVE Position(task[w]) = task[w]
  BY <1>4, GraphFacts DEF ScheduleInv, LocalsInv
<1>5. ASSUME NEW w \in Workers, TaskStep(w) PROVE Promise!Next \/ UNCHANGED Promise!avars
  <2> USE DEF shared, locals, history
  <2>1. CASE TakeWork(w)
    BY <2>1, PromiseStart
  <2>2. CASE RunNothing(w) \/ RunStatic(w) \/ RunCondition(w)
    BY <1>4, <2>2, PromiseInside DEF RunNothing, RunStatic, RunCondition, Held
  <2>3. CASE RunPanicking(w)
    BY <2>3, PromiseAbort
  <2>4. CASE Decrement(w)
    BY <2>4, PromiseInside DEF Decrement, Held
  <2>5. CASE SelectBranch(w)
    BY <2>5, PromiseInside DEF SelectBranch, Held
  <2>6. CASE Release(w)
    BY <2>6, ReleaseSimple, PromiseComplete
  <2>7. CASE PushReady(w)
    BY <1>1, <2>7, PromiseQuiet DEF PushReady, EndIteration, QuietLabels, Labels, Kept, Held
  <2>8. CASE NotifyReady(w)
    BY <1>1, <2>8, PromiseQuiet DEF NotifyReady, QuietLabels, Labels, Kept, Held
  <2> QED BY <1>5, <2>1, <2>2, <2>3, <2>4, <2>5, <2>6, <2>7, <2>8 DEF TaskStep
<1>6. ASSUME NEW w \in Workers, WakeSpuriously(w) PROVE UNCHANGED Promise!avars
  BY <1>1, <1>6, PromiseQuiet DEF WakeSpuriously, shared, locals, history, QuietLabels, Labels,
     Kept, Held
<1>7. CASE MainNotify
  BY <1>1, <1>7, PromiseQuiet DEF MainNotify, shared, locals, history, QuietLabels, Labels,
     Kept, Held
<1>8. CASE MainReturn
  BY <1>8, PromiseReturn
<1>9. CASE UNCHANGED vars
  BY <1>9, PromiseQuiet DEF vars, shared, locals, history
<1> QED BY <1>2, <1>3, <1>5, <1>6, <1>7, <1>8, <1>9 DEF Next, WorkerStep, Halted

\* run and wait (executor.rs) keep the promise of TaskExecution on every graph
\* without subflow tasks, branches and panics included, as long as no branch
\* names a task twice (condition.rs, lines 36-57, lets it): a task starts once and
\* only when all of its dependencies have finished and released it, a task
\* without branches releases all of its dependents, and wait returns when
\* nothing runs and, unless a closure panicked, nothing could still start.
THEOREM PromiseKept ==
  ASSUME NoSubflows, NoRepeats
  PROVE  Spec => KeepsPromise
<1>1. Init => Promise!Init
  <2> SUFFICES ASSUME Init PROVE Promise!Init
    OBVIOUS
  <2>1. /\ finished = {} /\ fired = {} /\ main = "notify" /\ ScheduleInv
        /\ \A w \in Workers : pc[w] = "lock"
    BY ScheduleInit DEF Init
  <2>2. InHand = {} /\ Holding({"panicked"}) = {}
    BY <2>1 DEF InHand, Holding, Executing
  <2>3. \A t \in DOMAIN depCount : graph[Position(t)].deps \subseteq DOMAIN depCount
    BY <2>1, GraphFacts DEF ScheduleInv, TypesInv
  <2> QED BY <2>1, <2>2, <2>3 DEF Promise!Init, Promise!Tasks
<1>2. ScheduleInv /\ AccountInv /\ [Next]_vars => [Promise!Next]_Promise!avars
  BY PromiseStep
<1> QED BY <1>1, <1>2, AccountAlways, PTL DEF Spec, KeepsPromise, Promise!Spec

-----------------------------------------------------------------------------
(* Conditions that choose: the branches not taken stay idle.               *)

\* Every task with branches is a condition that has its closure (or panics),
\* returns registered branches only, and has no branch that reaches across
\* two others.
Decisive ==
  \A flow \in Flows : \A c \in DOMAIN flow.branches :
    /\ ~flow.spent
    /\ flow.graph[c].work.kind \in {"condition", "async", "faulty"}
    /\ flow.graph[c].work.kind = "condition" =>
         flow.graph[c].work.returns \subseteq DOMAIN flow.branches[c]
    /\ \A a, b, x \in DOMAIN flow.branches[c] :
         \/ ToSet(flow.branches[c][x]) \cap (ToSet(flow.branches[c][a]) \ ToSet(flow.branches[c][b])) = {}
         \/ ToSet(flow.branches[c][x]) \cap (ToSet(flow.branches[c][b]) \ ToSet(flow.branches[c][a])) = {}

\* The closure of a condition is taken once, by the worker that runs it.
TakenInv ==
  \A c \in DOMAIN branches \cap taken :
    c \in finished \/ \E w \in Workers : task[w] = c /\ pc[w] \in {"run", "panicked"}

\* What the worker of a condition has in its locals, from label to label.
ChoiceInv ==
  \A w \in Workers : task[w] \in DOMAIN branches =>
    /\ pc[w] = "run" => work[w] = graph[task[w]].work
    /\ pc[w] \in {"decrement", "select"} => branchTaken[w] \in DOMAIN branches[task[w]] \ {NoBranch}
    /\ pc[w] = "release" =>
         \E x \in DOMAIN branches[task[w]] : ToSet(succs[w]) \subseteq ToSet(branches[task[w]][x])

\* All that a condition has released belongs to one branch.
OneBranchInv ==
  \A c \in DOMAIN branches :
    \/ \A s \in Nodes : <<c, s>> \notin fired
    \/ \E x \in DOMAIN branches[c] : \A s \in Nodes :
         <<c, s>> \in fired => s \in ToSet(branches[c][x])

DecisionInv == TakenInv /\ ChoiceInv /\ OneBranchInv

LEMMA DecisionFacts ==
  ASSUME Decisive, FlowInv
  PROVE  \A c \in DOMAIN branches :
           /\ c \in Nodes
           /\ graph[c].work.kind \in {"condition", "async", "faulty"}
           /\ graph[c].work.kind = "condition" =>
                graph[c].work.returns \subseteq DOMAIN branches[c] \ {NoBranch}
           /\ \A b \in DOMAIN branches[c] : ToSet(branches[c][b]) \subseteq graph[c].succ
           /\ \A a, b, x \in DOMAIN branches[c] :
                \/ ToSet(branches[c][x]) \cap (ToSet(branches[c][a]) \ ToSet(branches[c][b])) = {}
                \/ ToSet(branches[c][x]) \cap (ToSet(branches[c][b]) \ ToSet(branches[c][a])) = {}
<1>1. PICK flow \in Flows : graph = flow.graph /\ branches = flow.branches
  BY DEF FlowInv
<1>2. WellFormed(flow) /\ UsizeMod \in Nat
  BY ExecutorAssumption
<1> TAKE c \in DOMAIN branches
<1>3. c \in Nodes /\ \A b \in DOMAIN branches[c] : branches[c][b] \in Seq(graph[c].succ)
  BY <1>1, <1>2 DEF WellFormed, Nodes
<1>4. /\ graph[c].work.kind \in {"condition", "async", "faulty"}
      /\ graph[c].work.kind = "condition" => graph[c].work.returns \subseteq DOMAIN branches[c]
      /\ \A a, b, x \in DOMAIN branches[c] :
                \/ ToSet(branches[c][x]) \cap (ToSet(branches[c][a]) \ ToSet(branches[c][b])) = {}
                \/ ToSet(branches[c][x]) \cap (ToSet(branches[c][b]) \ ToSet(branches[c][a])) = {}
  BY <1>1 DEF Decisive
<1>5. graph[c].work.kind = "condition" => graph[c].work.returns \subseteq 0 .. UsizeMod - 1
  BY <1>1, <1>2, <1>3 DEF WellFormed, Nodes
<1>6. NoBranch \notin 0 .. UsizeMod - 1
  BY <1>2 DEF NoBranch
<1>7. \A b \in DOMAIN branches[c] : ToSet(branches[c][b]) \subseteq graph[c].succ
  BY <1>3, LenProperties DEF ToSet
<1> QED BY <1>3, <1>4, <1>5, <1>6, <1>7

LEMMA DecisionInit ==
  ASSUME Decisive, Init
  PROVE  DecisionInv
<1>1. PICK flow \in Flows :
        /\ branches = flow.branches
        /\ taken = IF flow.spent THEN DOMAIN flow.graph ELSE {}
  BY DEF Init
<1>2. fired = {} /\ \A w \in Workers : pc[w] = "lock"
  BY DEF Init
<1>3. DOMAIN branches \cap taken = {}
  BY <1>1 DEF Decisive
<1> QED BY <1>2, <1>3 DEF DecisionInv, TakenInv, ChoiceInv, OneBranchInv

\* Steps that choose nothing.
LEMMA DecisionQuiet ==
  ASSUME DecisionInv,
         UNCHANGED <<graph, branches, taken, finished, fired>>,
         \A v \in Workers :
            \/ UNCHANGED <<pc[v], task[v], work[v], branchTaken[v], succs[v]>>
            \/ /\ pc'[v] \notin Held \ {"take"}
               /\ pc[v] \in {"run", "panicked"} => pc'[v] = "panicked" /\ task'[v] = task[v]
  PROVE  DecisionInv'
<1>1. TakenInv'
  <2> SUFFICES ASSUME NEW c \in DOMAIN branches \cap taken
               PROVE  c \in finished \/ \E w \in Workers : task'[w] = c /\ pc'[w] \in {"run", "panicked"}
    BY DEF TakenInv
  <2>1. c \in finished \/ \E w \in Workers : task[w] = c /\ pc[w] \in {"run", "panicked"}
    BY DEF DecisionInv, TakenInv
  <2> QED BY <2>1
<1>2. ChoiceInv'
  BY DEF DecisionInv, ChoiceInv, Held
<1>3. OneBranchInv'
  BY DEF DecisionInv, OneBranchInv, Nodes
<1> QED BY <1>1, <1>2, <1>3 DEF DecisionInv

LEMMA DecisionTakeWork ==
  ASSUME NoSubflows, NoRepeats, ScheduleInv, AccountInv, DecisionInv, NEW w \in Workers, TakeWork(w)
  PROVE  DecisionInv'
<1>1. PICK t : t = task[w]
  OBVIOUS
<1>2. pc[w] = "take" /\ t \in Nodes /\ Position(t) = t /\ DOMAIN work = Workers /\ DOMAIN pc = Workers
  BY <1>1, GraphFacts DEF TakeWork, ScheduleInv, TypesInv, LocalsInv, Held
<1>3. /\ pc' = [pc EXCEPT ![w] = "run"]
      /\ work' = [work EXCEPT ![w] = IF t \in taken THEN NoWork ELSE graph[t].work]
      /\ taken' = taken \cup {t}
      /\ UNCHANGED <<graph, branches, task, branchTaken, finished, fired>>
  BY <1>1, <1>2 DEF TakeWork, history
<1>4. \A v \in Workers \ {w} : pc'[v] = pc[v] /\ work'[v] = work[v] /\ succs'[v] = succs[v]
  BY <1>2, <1>3 DEF TakeWork, ScheduleInv, TypesInv
<1>5. t \notin finished /\ \A v \in Workers \ {w} : pc[v] \in {"run", "panicked"} => task[v] # t
  BY <1>1, <1>2 DEF ScheduleInv, PlacesInv, AccountInv, PanicInv, Kept, Held
<1>6. t \in DOMAIN branches => t \notin taken
  BY <1>1, <1>2, <1>5 DEF DecisionInv, TakenInv
<1>7. pc'[w] = "run" /\ (t \in DOMAIN branches => work'[w] = graph[t].work)
  BY <1>2, <1>3, <1>6
<1>8. TakenInv'
  BY <1>1, <1>2, <1>3, <1>4, <1>7 DEF DecisionInv, TakenInv
<1>9. ChoiceInv'
  BY <1>1, <1>3, <1>4, <1>7 DEF DecisionInv, ChoiceInv
<1>10. OneBranchInv'
  BY <1>3 DEF DecisionInv, OneBranchInv, Nodes
<1> QED BY <1>8, <1>9, <1>10 DEF DecisionInv

LEMMA DecisionVisit ==
  ASSUME NoSubflows, NoRepeats, Decisive, ScheduleInv, DecisionInv, NEW w \in Workers,
         RunNothing(w) \/ RunStatic(w) \/ RunCondition(w)
  PROVE  DecisionInv'
<1>1. PICK t : t = task[w]
  OBVIOUS
<1>2. /\ pc[w] = "run" /\ t \in Nodes /\ Position(t) = t
      /\ pc \in [Workers -> QuietLabels] /\ branchTaken \in [Workers -> Nat]
  BY <1>1, GraphFacts DEF RunNothing, RunStatic, RunCondition, ScheduleInv, TypesInv, LocalsInv, Held
<1>3. /\ pc' = [pc EXCEPT ![w] = "decrement"]
      /\ finished' = finished \cup {t}
      /\ UNCHANGED <<graph, branches, taken, task, work, succs, fired>>
      /\ \/ branchTaken' = branchTaken /\ work[w].kind \in {"none", "static"}
         \/ /\ work[w].kind = "condition"
            /\ \E b \in work[w].returns : branchTaken' = [branchTaken EXCEPT ![w] = b]
  BY <1>1, <1>2 DEF RunNothing, RunStatic, RunCondition, shared, locals
<1>4. \A v \in Workers \ {w} : pc'[v] = pc[v] /\ branchTaken'[v] = branchTaken[v]
  BY <1>2, <1>3
<1>5. pc'[w] = "decrement"
  BY <1>2, <1>3
<1>6. t \in DOMAIN branches => branchTaken'[w] \in DOMAIN branches[t] \ {NoBranch}
  <2> SUFFICES ASSUME t \in DOMAIN branches
               PROVE  branchTaken'[w] \in DOMAIN branches[t] \ {NoBranch}
    OBVIOUS
  <2>1. work[w] = graph[t].work
    BY <1>1, <1>2 DEF DecisionInv, ChoiceInv
  <2>2. work[w].kind = "condition" /\ work[w].returns \subseteq DOMAIN branches[t] \ {NoBranch}
    BY <1>3, <2>1, DecisionFacts DEF ScheduleInv
  <2> QED BY <1>2, <1>3, <2>2
<1>7. TakenInv'
  <2> SUFFICES ASSUME NEW c \in DOMAIN branches \cap taken
               PROVE  \/ c \in finished'
                      \/ \E v \in Workers : task[v] = c /\ pc'[v] \in {"run", "panicked"}
    BY <1>3 DEF TakenInv
  <2>1. c \in finished \/ \E v \in Workers : task[v] = c /\ pc[v] \in {"run", "panicked"}
    BY DEF DecisionInv, TakenInv
  <2> QED BY <1>1, <1>3, <1>4, <2>1
<1>8. ChoiceInv'
  BY <1>1, <1>3, <1>4, <1>5, <1>6 DEF DecisionInv, ChoiceInv
<1>9. OneBranchInv'
  BY <1>3 DEF DecisionInv, OneBranchInv, Nodes
<1> QED BY <1>7, <1>8, <1>9 DEF DecisionInv

\* From the counter to the chosen successors.
LEMMA DecisionSelect ==
  ASSUME NoSubflows, NoRepeats, ScheduleInv, DecisionInv, NEW w \in Workers,
         Decrement(w) \/ SelectBranch(w)
  PROVE  DecisionInv'
<1>1. PICK t : t = task[w]
  OBVIOUS
<1>2. /\ pc \in [Workers -> QuietLabels] /\ pc[w] \in {"decrement", "select"}
      /\ succs \in [Workers -> Seq(Nodes)]
  BY DEF Decrement, SelectBranch, ScheduleInv, TypesInv
<1>3. UNCHANGED <<graph, branches, taken, task, work, branchTaken, finished, fired>>
  BY DEF Decrement, SelectBranch, locals, history
<1>4. /\ \A v \in Workers \ {w} : pc'[v] = pc[v] /\ succs'[v] = succs[v]
      /\ pc'[w] \in {"select", "release"}
      /\ t \in DOMAIN branches /\ pc'[w] = "release" =>
           \/ branchTaken[w] = NoBranch
           \/ succs'[w] = branches[t][branchTaken[w]]
           \/ branchTaken[w] \notin DOMAIN branches[t]
  <2>1. CASE Decrement(w)
    <3>1. /\ pc[w] = "decrement" /\ succs' = succs
          /\ pc' = [pc EXCEPT ![w] = IF branchTaken[w] # NoBranch /\ t \in DOMAIN branches
                                     THEN "select" ELSE "release"]
      BY <1>1, <2>1 DEF Decrement, locals
    <3> QED BY <1>2, <3>1
  <2>2. CASE SelectBranch(w)
    <3>1. /\ pc' = [pc EXCEPT ![w] = "release"]
          /\ succs' = IF branchTaken[w] \in DOMAIN branches[t]
                      THEN [succs EXCEPT ![w] = branches[t][branchTaken[w]]] ELSE succs
      BY <1>1, <2>2 DEF SelectBranch
    <3> QED BY <1>2, <3>1
  <2> QED BY <2>1, <2>2
<1>5. t \in DOMAIN branches => branchTaken[w] \in DOMAIN branches[t] \ {NoBranch}
  BY <1>1, <1>2 DEF DecisionInv, ChoiceInv
<1>6. TakenInv'
  <2>1. \A v \in Workers : pc[v] \in {"run", "panicked"} => v # w
    BY <1>2
  <2> QED BY <1>3, <1>4, <2>1 DEF DecisionInv, TakenInv
<1>7. ChoiceInv'
  <2> SUFFICES ASSUME NEW v \in Workers, task[v] \in DOMAIN branches
               PROVE  /\ pc'[v] = "run" => work[v] = graph[task[v]].work
                      /\ pc'[v] \in {"decrement", "select"} =>
                           branchTaken[v] \in DOMAIN branches[task[v]] \ {NoBranch}
                      /\ pc'[v] = "release" =>
                           \E x \in DOMAIN branches[task[v]] :
                             ToSet(succs'[v]) \subseteq ToSet(branches[task[v]][x])
    BY <1>3 DEF ChoiceInv
  <2>1. CASE v = w
    BY <1>1, <1>4, <1>5, <2>1
  <2>2. CASE v # w
    BY <1>4, <2>2 DEF DecisionInv, ChoiceInv
  <2> QED BY <2>1, <2>2
<1>8. OneBranchInv'
  BY <1>3 DEF DecisionInv, OneBranchInv, Nodes
<1> QED BY <1>6, <1>7, <1>8 DEF DecisionInv

LEMMA DecisionRelease ==
  ASSUME NoSubflows, NoRepeats, ScheduleInv, DecisionInv, NEW w \in Workers, ReleaseEach(w)
  PROVE  DecisionInv'
<1>1. PICK t, known : t = task[w] /\ known = ToSet(succs[w]) \cap DOMAIN depCount
  OBVIOUS
<1>2. /\ pc[w] = "release" /\ fired' = fired \cup ({t} \X known)
      /\ UNCHANGED <<graph, branches, taken, finished>>
  BY <1>1 DEF ReleaseEach
<1>3. /\ pc'[w] \in {"lock", "push"}
      /\ \A v \in Workers \ {w} :
            UNCHANGED <<pc[v], task[v], work[v], branchTaken[v], succs[v]>>
  <2>1. \/ UNCHANGED <<task, work, branchTaken, succs>>
        \/ /\ task' = [task EXCEPT ![w] = NoTask] /\ work' = [work EXCEPT ![w] = NoWork]
           /\ branchTaken' = [branchTaken EXCEPT ![w] = NoBranch]
           /\ succs' = [succs EXCEPT ![w] = <<>>]
    BY DEF ReleaseEach, EndIteration
  <2>2. pc' = [pc EXCEPT ![w] = "lock"] \/ pc' = [pc EXCEPT ![w] = "push"]
    BY DEF ReleaseEach
  <2> QED BY <2>1, <2>2 DEF ScheduleInv, TypesInv
<1>4. TakenInv'
  <2> SUFFICES ASSUME NEW c \in DOMAIN branches \cap taken
               PROVE  c \in finished \/ \E v \in Workers : task'[v] = c /\ pc'[v] \in {"run", "panicked"}
    BY <1>2 DEF TakenInv
  <2>1. c \in finished \/ \E v \in Workers \ {w} : task[v] = c /\ pc[v] \in {"run", "panicked"}
    BY <1>2 DEF DecisionInv, TakenInv
  <2> QED BY <1>3, <2>1
<1>5. ChoiceInv'
  BY <1>2, <1>3 DEF DecisionInv, ChoiceInv
<1>6. OneBranchInv'
  <2> SUFFICES ASSUME NEW c \in DOMAIN branches
               PROVE  \/ \A s \in Nodes : <<c, s>> \notin fired'
                      \/ \E x \in DOMAIN branches[c] : \A s \in Nodes :
                           <<c, s>> \in fired' => s \in ToSet(branches[c][x])
    BY <1>2 DEF OneBranchInv, Nodes
  <2>1. CASE c = t
    <3>1. \A s \in Nodes : <<c, s>> \notin fired
      BY <1>1, <1>2, <2>1 DEF ScheduleInv, CountInv, Held
    <3>2. PICK x \in DOMAIN branches[c] : ToSet(succs[w]) \subseteq ToSet(branches[c][x])
      BY <1>1, <1>2, <2>1 DEF DecisionInv, ChoiceInv
    <3> QED BY <1>1, <1>2, <2>1, <3>1, <3>2
  <2>2. CASE c # t
    <3>1. \A s : <<c, s>> \in fired' <=> <<c, s>> \in fired
      BY <1>2, <2>2
    <3> QED BY <3>1 DEF DecisionInv, OneBranchInv
  <2> QED BY <2>1, <2>2
<1> QED BY <1>4, <1>5, <1>6 DEF DecisionInv

LEMMA DecisionStep ==
  ASSUME NoSubflows, NoRepeats, Decisive, ScheduleInv, AccountInv, DecisionInv, [Next]_vars
  PROVE  DecisionInv'
<1> USE DEF shared, locals, history
<1>1. pc \in [Workers -> QuietLabels] /\ task \in [Workers -> Nodes \cup {NoTask}]
      /\ DOMAIN work = Workers /\ branchTaken \in [Workers -> Nat] /\ succs \in [Workers -> Seq(Nodes)]
  BY DEF ScheduleInv, TypesInv
<1>2. ASSUME NEW w \in Workers, QueueStep(w) PROVE DecisionInv'
  <2> USE DEF Held
  <2>1. CASE Pop(w)
    BY <1>1, <2>1, DecisionQuiet DEF Pop
  <2>2. CASE ExitOnShutdown(w) \/ SeeOutstanding(w) \/ Wait(w)
    BY <1>1, <2>2, DecisionQuiet DEF ExitOnShutdown, SeeOutstanding, Wait
  <2>3. CASE DetectCompletion(w)
    BY <1>1, <2>3, DecisionQuiet DEF DetectCompletion
  <2>4. CASE NotifyExit(w)
    BY <1>1, <2>4, DecisionQuiet DEF NotifyExit
  <2> QED BY <1>2, <2>1, <2>2, <2>3, <2>4 DEF QueueStep
<1>3. ASSUME NEW w \in Workers, SubflowStep(w) PROVE FALSE
  BY <1>3, SubflowStepsExcluded
<1>4. ASSUME NEW w \in Workers, TaskStep(w) PROVE DecisionInv'
  <2>1. CASE TakeWork(w)
    BY <2>1, DecisionTakeWork
  <2>2. CASE RunNothing(w) \/ RunStatic(w) \/ RunCondition(w)
    BY <2>2, DecisionVisit
  <2>3. CASE RunPanicking(w)
    BY <1>1, <2>3, DecisionQuiet DEF RunPanicking, Held
  <2>4. CASE Decrement(w) \/ SelectBranch(w)
    BY <2>4, DecisionSelect
  <2>5. CASE Release(w)
    BY <2>5, ReleaseSimple, DecisionRelease
  <2>6. CASE PushReady(w)
    BY <1>1, <2>6, DecisionQuiet DEF PushReady, EndIteration, Held
  <2>7. CASE NotifyReady(w)
    BY <1>1, <2>7, DecisionQuiet DEF NotifyReady, Held
  <2> QED BY <1>4, <2>1, <2>2, <2>3, <2>4, <2>5, <2>6, <2>7 DEF TaskStep
<1>5. ASSUME NEW w \in Workers, WakeSpuriously(w) PROVE DecisionInv'
  BY <1>1, <1>5, DecisionQuiet DEF WakeSpuriously, Held
<1>6. CASE MainNotify
  BY <1>1, <1>6, DecisionQuiet DEF MainNotify, Held
<1>7. CASE MainReturn
  BY <1>7, DecisionQuiet DEF MainReturn
<1>8. CASE UNCHANGED vars
  BY <1>8, DecisionQuiet DEF vars
<1> QED BY <1>2, <1>3, <1>4, <1>5, <1>6, <1>7, <1>8 DEF Next, WorkerStep, Halted

\* Tasks special to different branches of a condition never both run (the
\* choice of the successors in worker_loop, lines 421-457 of executor.rs),
\* whatever other dependencies they have, when every condition has its closure
\* and returns a registered branch, and no branch names a task twice.
THEOREM OneBranchRuns ==
  ASSUME NoSubflows, NoRepeats, Decisive
  PROVE  Spec => []ExclusiveBranches
<1>1. Init => ScheduleInv /\ AccountInv /\ DecisionInv
  BY ScheduleInit, AccountInit, DecisionInit
<1>2. ScheduleInv /\ AccountInv /\ DecisionInv /\ [Next]_vars
        => (ScheduleInv /\ AccountInv /\ DecisionInv)'
  BY ScheduleStep, AccountStep, DecisionStep
<1>3. ScheduleInv /\ DecisionInv => ExclusiveBranches
  <2> SUFFICES ASSUME ScheduleInv, DecisionInv, NEW c \in DOMAIN branches,
                      NEW a \in DOMAIN branches[c], NEW b \in DOMAIN branches[c],
                      NEW s \in ToSet(branches[c][a]) \ ToSet(branches[c][b]),
                      NEW t \in ToSet(branches[c][b]) \ ToSet(branches[c][a]),
                      Position(s) \in finished, Position(t) \in finished
               PROVE  FALSE
    BY DEF ExclusiveBranches
  <2>1. /\ c \in Nodes /\ s \in graph[c].succ /\ t \in graph[c].succ
        /\ \A x \in DOMAIN branches[c] : ~ (s \in ToSet(branches[c][x]) /\ t \in ToSet(branches[c][x]))
    BY DecisionFacts DEF ScheduleInv
  <2>2. ASSUME NEW u \in graph[c].succ, Position(u) \in finished
        PROVE  u \in Nodes /\ <<c, u>> \in fired
    <3>1. /\ u \in Nodes /\ Position(u) = u
          /\ graph[u].deps = {q \in Nodes : u \in graph[q].succ}
      BY <2>1, <2>2, GraphFacts DEF ScheduleInv
    <3>2. Unreleased(u) = {} /\ c \in graph[u].deps
      BY <2>1, <2>2, <3>1 DEF ScheduleInv, ReleasedInv
    <3> QED BY <3>1, <3>2 DEF Unreleased
  <2> QED BY <2>1, <2>2 DEF DecisionInv, OneBranchInv
<1> QED BY <1>1, <1>2, <1>3, PTL DEF Spec

-----------------------------------------------------------------------------
(* The outstanding-task counter, with branches and panics.                 *)

\* No branch starts behind another, no task is behind two branches of which
\* neither may be taken, and what is behind branches of two conditions has one
\* of these behind a branch of the other: no task is subtracted twice, and none
\* that may run.
Apart ==
  \A flow \in Flows :
    LET Behind(c, o) == Reach(flow.graph, ToSet(flow.branches[c][o]))
    IN  \A c \in DOMAIN flow.branches :
          /\ \A b, o \in DOMAIN flow.branches[c] :
               b # o => ToSet(flow.branches[c][b]) \cap Behind(c, o) = {}
          /\ \A b, o, x \in DOMAIN flow.branches[c] :
               b # o /\ b # x /\ o # x => Behind(c, o) \cap Behind(c, x) = {}
          /\ \A d \in DOMAIN flow.branches \ {c} :
               \A o \in DOMAIN flow.branches[c], x \in DOMAIN flow.branches[d] :
                 Behind(c, o) \cap Behind(d, x) # {} => d \in Behind(c, o) \/ c \in Behind(d, x)

LEMMA PlainFlows ==
  ASSUME \A flow \in Flows : DOMAIN flow.branches = {}
  PROVE  Decisive /\ Apart
BY DEF Decisive, Apart

\* The tasks behind branch o of the condition c.
After(c, o) == Reach(graph, ToSet(branches[c][o]))

\* The condition c has chosen, and not branch o.
Rejected(c, o) ==
  /\ c \in finished
  /\ \A w \in Workers : pc[w] \in {"decrement", "select"} => task[w] # c
  /\ \A s \in ToSet(branches[c][o]) :
       /\ <<c, s>> \notin fired
       /\ \A w \in Workers : pc[w] = "release" /\ task[w] = c => s \notin ToSet(succs[w])

\* The tasks behind branches that were not taken.
Dead ==
  {t \in Nodes : \E c \in DOMAIN branches : \E o \in DOMAIN branches[c] :
                   Rejected(c, o) /\ t \in After(c, o)}

\* Tasks that nobody has taken off the counter by running them.
Pending ==
  (Nodes \ finished) \cup {t \in Nodes : \E w \in Workers : pc[w] = "decrement" /\ task[w] = t}

\* Tasks that the counter still has to account for.
Live == Pending \ Dead

CounterInv ==
  /\ remaining = Cardinality(Live)
  /\ shutdown => Live = {}
  /\ \A w \in Workers : pc[w] \in {"notifyExit", "done"} => shutdown
  /\ \A w \in Workers : pc[w] = "push" => ready[w] # <<>>
  /\ main = "returned" => \A w \in Workers : pc[w] \in {"done", "panicked"}

\* Reach is the least set of nodes closed under successors, and it is what
\* count_reachable_tasks visits.
LEMMA ReachFacts ==
  ASSUME NoSubflows, NoRepeats, FlowInv, NEW start \in SUBSET Nodes
  PROVE  /\ Reachable(start) = Reach(graph, start)
         /\ Reach(graph, start) \subseteq Nodes
         /\ \A S \in SUBSET Nodes :
              start \subseteq S /\ (\A p \in S : graph[p].succ \subseteq S)
                => Reach(graph, start) \subseteq S
<1>1. \A p \in Nodes : Position(p) = p /\ graph[p].succ \subseteq Nodes
  BY GraphFacts
<1>2. \A p \in Nodes : Successors(p) = graph[p].succ
  BY <1>1 DEF Successors, Nodes
<1> DEFINE all == start \cup UNION {graph[p].succ : p \in DOMAIN graph}
<1>3. all \subseteq Nodes /\ \A p \in Nodes : graph[p].succ \subseteq all
  BY <1>1 DEF Nodes
<1>4. Reachable(start) =
        {t \in all : \A S \in SUBSET all :
           start \subseteq S /\ (\A p \in S : Successors(p) \subseteq S) => t \in S}
  BY DEF Reachable
<1>5. Reach(graph, start) =
        {t \in Nodes : \A S \in SUBSET Nodes :
           start \subseteq S /\ (\A p \in S : graph[p].succ \subseteq S) => t \in S}
  BY DEF Reach, Nodes
<1>6. start \subseteq all
  OBVIOUS
<1> HIDE DEF all
<1>7. ASSUME NEW t \in Reachable(start), NEW S \in SUBSET Nodes,
             start \subseteq S, \A p \in S : graph[p].succ \subseteq S
      PROVE  t \in S
  <2>1. /\ S \cap all \in SUBSET all /\ start \subseteq S \cap all
        /\ \A p \in S \cap all : Successors(p) \subseteq S \cap all
    BY <1>2, <1>3, <1>6, <1>7
  <2> QED BY <1>4, <1>7, <2>1
<1>8. ASSUME NEW t \in Reach(graph, start), NEW S \in SUBSET all,
             start \subseteq S, \A p \in S : Successors(p) \subseteq S
      PROVE  t \in S
  <2>1. S \in SUBSET Nodes /\ \A p \in S : graph[p].succ \subseteq S
    BY <1>2, <1>3, <1>8
  <2> QED BY <1>5, <1>8, <2>1
<1>9. Reach(graph, start) \subseteq all
  <2>1. all \in SUBSET Nodes /\ \A p \in all : graph[p].succ \subseteq all
    BY <1>3
  <2> QED BY <1>5, <1>6, <2>1
<1>10. Reachable(start) \subseteq Nodes
  BY <1>3, <1>4
<1>11. Reachable(start) = Reach(graph, start)
  BY <1>4, <1>5, <1>7, <1>8, <1>9, <1>10
<1>12. ASSUME NEW S \in SUBSET Nodes, start \subseteq S, \A p \in S : graph[p].succ \subseteq S
       PROVE  Reach(graph, start) \subseteq S
  BY <1>5, <1>12
<1> QED BY <1>5, <1>11, <1>12

\* What the assumptions on flows say of the branches of a run.
LEMMA BranchFacts ==
  ASSUME NoSubflows, NoRepeats, Apart, FlowInv
  PROVE  \A c \in DOMAIN branches :
           /\ c \in Nodes /\ IsFiniteSet(DOMAIN branches[c])
           /\ \A o \in DOMAIN branches[c] :
                /\ ToSet(branches[c][o]) \subseteq graph[c].succ
                /\ ToSet(branches[c][o]) \in SUBSET Nodes
                /\ Reachable(ToSet(branches[c][o])) = After(c, o)
                /\ After(c, o) \subseteq Nodes
           /\ \A b, o \in DOMAIN branches[c] :
                b # o => ToSet(branches[c][b]) \cap After(c, o) = {}
           /\ \A b, o, x \in DOMAIN branches[c] :
                b # o /\ b # x /\ o # x => After(c, o) \cap After(c, x) = {}
           /\ \A d \in DOMAIN branches \ {c} :
                \A o \in DOMAIN branches[c], x \in DOMAIN branches[d] :
                  After(c, o) \cap After(d, x) # {} => d \in After(c, o) \/ c \in After(d, x)
<1>1. PICK flow \in Flows : graph = flow.graph /\ branches = flow.branches
  BY DEF FlowInv
<1> TAKE c \in DOMAIN branches
<1>2. /\ c \in Nodes /\ IsFiniteSet(DOMAIN branches[c]) /\ graph[c].succ \subseteq Nodes
      /\ \A b \in DOMAIN branches[c] : branches[c][b] \in Seq(graph[c].succ)
  BY GraphFacts
<1>3. \A o \in DOMAIN branches[c] :
         ToSet(branches[c][o]) \subseteq graph[c].succ /\ ToSet(branches[c][o]) \in SUBSET Nodes
  BY <1>2, LenProperties DEF ToSet
<1>4. \A o \in DOMAIN branches[c] :
         /\ Reachable(ToSet(branches[c][o])) = After(c, o)
         /\ After(c, o) \subseteq Nodes
  BY <1>3, ReachFacts DEF After
<1>5. \A b, o \in DOMAIN branches[c] :
         b # o => ToSet(branches[c][b]) \cap After(c, o) = {}
  BY <1>1 DEF Apart, After
<1>6. \A b, o, x \in DOMAIN branches[c] :
         b # o /\ b # x /\ o # x => After(c, o) \cap After(c, x) = {}
  BY <1>1 DEF Apart, After
<1>7. ASSUME NEW d \in DOMAIN branches \ {c}, NEW o \in DOMAIN branches[c],
             NEW x \in DOMAIN branches[d], After(c, o) \cap After(d, x) # {}
      PROVE  d \in After(c, o) \/ c \in After(d, x)
  BY <1>1, <1>7 DEF Apart, After
<1> QED BY <1>2, <1>3, <1>4, <1>5, <1>6, <1>7

\* Whatever is behind a task that waits for one of its dependencies waits too.
LEMMA BlockedBehind ==
  ASSUME NoSubflows, NoRepeats, ScheduleInv, NEW start \in SUBSET Nodes,
         \A s \in start : Unreleased(s) # {}
  PROVE  \A t \in Reach(graph, start) : Unreleased(t) # {}
<1> DEFINE Blocked == {t \in Nodes : Unreleased(t) # {}}
<1>1. start \subseteq Blocked
  OBVIOUS
<1>2. ASSUME NEW p \in Blocked, NEW s \in graph[p].succ PROVE s \in Blocked
  <2>1. s \in Nodes /\ p \in graph[s].deps
    BY <1>2, GraphFacts DEF ScheduleInv
  <2>2. <<p, s>> \notin fired
    BY <1>2, <2>1 DEF ScheduleInv, CountInv, ReleasedInv
  <2> QED BY <2>1, <2>2 DEF Unreleased
<1>3. Blocked \in SUBSET Nodes /\ \A p \in Blocked : graph[p].succ \subseteq Blocked
  BY <1>2
<1> HIDE DEF Blocked
<1>4. Reach(graph, start) \subseteq Blocked
  BY <1>1, <1>3, ReachFacts DEF ScheduleInv
<1> QED BY <1>4 DEF Blocked

\* A task behind a branch that was not taken is nowhere in sight, and stays so.
LEMMA DeadBlocked ==
  ASSUME NoSubflows, NoRepeats, Apart, ScheduleInv
  PROVE  Dead \subseteq Nodes /\ \A t \in Dead : Unreleased(t) # {} /\ t \notin finished
<1>1. Dead \subseteq Nodes
  BY DEF Dead
<1>2. ASSUME NEW t \in Dead PROVE Unreleased(t) # {}
  <2>1. PICK c \in DOMAIN branches : \E o \in DOMAIN branches[c] : Rejected(c, o) /\ t \in After(c, o)
    BY <1>2 DEF Dead
  <2>2. PICK o \in DOMAIN branches[c] : Rejected(c, o) /\ t \in After(c, o)
    BY <2>1
  <2> DEFINE start == ToSet(branches[c][o])
  <2>3. c \in Nodes /\ start \subseteq graph[c].succ /\ start \in SUBSET Nodes
    BY BranchFacts DEF ScheduleInv
  <2>4. ASSUME NEW s \in start PROVE Unreleased(s) # {}
    <3>1. c \in graph[s].deps
      BY <2>3, <2>4, GraphFacts DEF ScheduleInv
    <3>2. <<c, s>> \notin fired
      BY <2>2, <2>4 DEF Rejected
    <3> QED BY <3>1, <3>2 DEF Unreleased
  <2> HIDE DEF start
  <2>5. \A u \in Reach(graph, start) : Unreleased(u) # {}
    BY <2>3, <2>4, BlockedBehind
  <2> QED BY <2>2, <2>5 DEF After, start
<1>3. \A t \in finished : Unreleased(t) = {}
  BY DEF ScheduleInv, ReleasedInv
<1> QED BY <1>1, <1>2, <1>3
LEMMA LiveFacts ==
  ASSUME NoSubflows, NoRepeats, ScheduleInv
  PROVE  /\ IsFiniteSet(Live) /\ Live \subseteq Nodes
         /\ Cardinality(Live) \in Nat /\ Cardinality(Live) <= Len(graph)
<1>1. IsFiniteSet(Nodes) /\ Nodes = 1 .. Len(graph) /\ Len(graph) \in Nat
  BY GraphFacts DEF ScheduleInv
<1>2. Cardinality(Nodes) = Len(graph)
  BY <1>1, IntervalSize
<1>3. Live \subseteq Nodes
  BY DEF Live, Pending
<1> QED BY <1>1, <1>2, <1>3, FS_Subset, FS_CardinalityType

LEMMA CounterInit ==
  ASSUME NoSubflows, NoRepeats, Init
  PROVE  CounterInv
<1>1. ScheduleInv
  BY ScheduleInit
<1>2. /\ remaining = Len(graph) /\ shutdown = FALSE /\ main = "notify" /\ finished = {}
      /\ \A w \in Workers : pc[w] = "lock"
  BY DEF Init
<1>3. Live = Nodes
  BY <1>2 DEF Live, Pending, Dead, Rejected
<1>4. Cardinality(Nodes) = Len(graph)
  <2>1. Nodes = 1 .. Len(graph) /\ Len(graph) \in Nat
    BY <1>1, GraphFacts DEF ScheduleInv
  <2> QED BY <2>1, IntervalSize
<1> QED BY <1>2, <1>3, <1>4 DEF CounterInv

\* Labels at which a worker has run its task and has yet to release successors.
Choosing == {"decrement", "select", "release"}

\* The dead tasks change only when a condition becomes or ceases to be decided.
LEMMA DeadSame ==
  ASSUME graph' = graph, branches' = branches,
         \A c \in DOMAIN branches : \A o \in DOMAIN branches[c] :
           Rejected(c, o)' <=> Rejected(c, o)
  PROVE  Dead' = Dead
<1>1. \A c, o : After(c, o)' = After(c, o)
  BY DEF After
<1>2. ASSUME NEW t \in Nodes
      PROVE  (\E c \in DOMAIN branches : \E o \in DOMAIN branches[c] :
                Rejected(c, o)' /\ t \in After(c, o))
             <=> (\E c \in DOMAIN branches : \E o \in DOMAIN branches[c] :
                Rejected(c, o) /\ t \in After(c, o))
  OBVIOUS
<1> QED BY <1>1, <1>2 DEF Dead, Nodes

\* Steps of workers that have no choice ahead of them.
LEMMA LiveSame ==
  ASSUME UNCHANGED <<graph, branches, finished, fired>>,
         \A v \in Workers : \/ UNCHANGED <<pc[v], task[v], succs[v]>>
                            \/ pc[v] \notin Choosing /\ pc'[v] \notin Choosing
  PROVE  Live' = Live
<1>1. Pending' = Pending
  BY DEF Pending, Nodes, Choosing
<1>2. ASSUME NEW c \in DOMAIN branches, NEW o \in DOMAIN branches[c]
      PROVE  Rejected(c, o)' <=> Rejected(c, o)
  BY DEF Rejected, Choosing
<1> QED BY <1>1, <1>2, DeadSame DEF Live

LEMMA CounterQueueStep ==
  ASSUME NoSubflows, NoRepeats, ScheduleInv, CounterInv, NEW w \in Workers, QueueStep(w)
  PROVE  CounterInv'
<1> USE DEF shared, locals, history, Choosing
<1>1. pc \in [Workers -> QuietLabels] /\ task \in [Workers -> Nodes \cup {NoTask}]
  BY DEF ScheduleInv, TypesInv
<1>2. CASE Pop(w)
  <2>1. Live' = Live
    BY <1>1, <1>2, LiveSame DEF Pop
  <2> QED BY <1>1, <1>2, <2>1 DEF Pop, CounterInv
<1>3. CASE ExitOnShutdown(w)
  <2>1. Live' = Live
    BY <1>1, <1>3, LiveSame DEF ExitOnShutdown
  <2> QED BY <1>1, <1>3, <2>1 DEF ExitOnShutdown, CounterInv
<1>4. CASE DetectCompletion(w)
  <2>1. Live' = Live
    BY <1>1, <1>4, LiveSame DEF DetectCompletion
  <2>2. Live = {}
    BY <1>4, LiveFacts, FS_EmptySet DEF DetectCompletion, CounterInv
  <2> QED BY <1>1, <1>4, <2>1, <2>2 DEF DetectCompletion, CounterInv
<1>5. CASE NotifyExit(w)
  <2>1. Live' = Live
    BY <1>1, <1>5, LiveSame DEF NotifyExit
  <2> QED BY <1>1, <1>5, <2>1 DEF NotifyExit, CounterInv
<1>6. CASE SeeOutstanding(w)
  <2>1. Live' = Live
    BY <1>1, <1>6, LiveSame DEF SeeOutstanding
  <2> QED BY <1>1, <1>6, <2>1 DEF SeeOutstanding, CounterInv
<1>7. CASE Wait(w)
  <2>1. Live' = Live
    BY <1>1, <1>7, LiveSame DEF Wait
  <2> QED BY <1>1, <1>7, <2>1 DEF Wait, CounterInv
<1> QED BY <1>2, <1>3, <1>4, <1>5, <1>6, <1>7 DEF QueueStep

\* A closure that returns moves its task from the unvisited to the undecremented.
LEMMA CounterVisit ==
  ASSUME NoSubflows, NoRepeats, ScheduleInv, CounterInv, NEW w \in Workers,
         pc[w] = "run", pc' = [pc EXCEPT ![w] = "decrement"],
         finished' = finished \cup {Position(task[w])},
         UNCHANGED <<graph, branches, remaining, shutdown, task, succs, fired, ready, main>>
  PROVE  CounterInv'
<1>1. /\ pc \in [Workers -> QuietLabels] /\ task[w] \in Nodes /\ task[w] \notin finished
      /\ Position(task[w]) = task[w]
  BY GraphFacts DEF ScheduleInv, TypesInv, LocalsInv, PlacesInv, Held
<1>2. \A t : (\E v \in Workers : pc'[v] = "decrement" /\ task[v] = t)
               <=> t = task[w] \/ \E v \in Workers : pc[v] = "decrement" /\ task[v] = t
  BY <1>1
<1>3. Pending' = Pending
  BY <1>1, <1>2 DEF Pending, Nodes
<1>4. ASSUME NEW c \in DOMAIN branches, NEW o \in DOMAIN branches[c]
      PROVE  Rejected(c, o)' <=> Rejected(c, o)
  <2>1. \A v \in Workers \ {w} : pc'[v] = pc[v]
    BY <1>1
  <2>2. pc'[w] = "decrement"
    BY <1>1
  <2>3. CASE c = task[w]
    BY <1>1, <2>2, <2>3 DEF Rejected
  <2>4. CASE c # task[w]
    BY <1>1, <2>1, <2>2, <2>4 DEF Rejected
  <2> QED BY <2>3, <2>4
<1>5. Live' = Live
  BY <1>3, <1>4, DeadSame DEF Live
<1> QED BY <1>1, <1>5 DEF CounterInv

LEMMA CounterDecrement ==
  ASSUME NoSubflows, NoRepeats, Apart, ScheduleInv, DecisionInv, CounterInv, NEW w \in Workers, Decrement(w)
  PROVE  CounterInv'
<1> DEFINE t == task[w]
<1>1. /\ pc \in [Workers -> QuietLabels] /\ pc[w] = "decrement" /\ t \in Nodes /\ t \in finished
      /\ remaining \in 0 .. UsizeMod - 1
      /\ \A v \in Workers \ {w} : pc[v] \in Choosing => task[v] # t
  BY DEF ScheduleInv, TypesInv, LocalsInv, PlacesInv, Held, Decrement, Choosing
<1>2. /\ remaining' = Minus(remaining, 1)
      /\ \A v \in Workers \ {w} : pc'[v] = pc[v]
      /\ pc'[w] \in {"select", "release"}
      /\ t \in DOMAIN branches => pc'[w] = "select"
      /\ UNCHANGED <<graph, branches, shutdown, task, succs, ready, main, finished, fired>>
  <2>1. /\ remaining' = Minus(remaining, 1)
        /\ pc' = [pc EXCEPT ![w] = IF branchTaken[w] # NoBranch /\ t \in DOMAIN branches
                                   THEN "select" ELSE "release"]
        /\ UNCHANGED <<graph, branches, shutdown, task, succs, ready, main, finished, fired>>
    BY DEF Decrement, locals, history, Goto
  <2>2. t \in DOMAIN branches => branchTaken[w] # NoBranch
    BY <1>1 DEF DecisionInv, ChoiceInv
  <2> QED BY <1>1, <2>1, <2>2
<1>3. ASSUME NEW c \in DOMAIN branches, NEW o \in DOMAIN branches[c]
      PROVE  Rejected(c, o)' <=> Rejected(c, o)
  <2>1. CASE c = t
    BY <1>1, <1>2, <2>1 DEF Rejected
  <2>2. CASE c # t
    BY <1>1, <1>2, <2>2 DEF Rejected
  <2> QED BY <2>1, <2>2
<1>4. t \in Live /\ IsFiniteSet(Live)
  BY <1>1, LiveFacts, DeadBlocked DEF Live, Pending
<1>5. Live' = Live \ {t}
  <2>1. Pending' = Pending \ {t}
    BY <1>1, <1>2 DEF Pending, Nodes, Choosing
  <2> QED BY <1>2, <1>3, <2>1, DeadSame DEF Live
<1>6. Cardinality(Live') = remaining - 1 /\ remaining - 1 \in Nat
  <2>1. Cardinality(Live \ {t}) = remaining - 1 /\ IsFiniteSet(Live \ {t})
    BY <1>4, FS_RemoveElement DEF CounterInv
  <2> QED BY <1>5, <2>1, FS_CardinalityType
<1>7. remaining' = remaining - 1
  BY <1>1, <1>2, <1>6, ExecutorAssumption DEF Minus
<1> QED BY <1>1, <1>2, <1>4, <1>6, <1>7 DEF CounterInv

\* What the executor subtracts for the branches other than b is the number of
\* tasks behind them.
LEMMA BehindOthers ==
  ASSUME NoSubflows, NoRepeats, Apart, FlowInv, NEW c \in DOMAIN branches, NEW b \in DOMAIN branches[c],
         NEW behind, behind = UNION {After(c, o) : o \in DOMAIN branches[c] \ {b}}
  PROVE  behind \subseteq Nodes /\ UnreachableCount(c, b) = Cardinality(behind)
<1> DEFINE others == DOMAIN branches[c] \ {b}
<1>1. /\ IsFiniteSet(others) /\ IsFiniteSet(Nodes)
      /\ \A o \in others : /\ Reachable(ToSet(branches[c][o])) = After(c, o)
                           /\ After(c, o) \subseteq Nodes
      /\ \A o, x \in others : o # x => After(c, o) \cap After(c, x) = {}
  BY BranchFacts, GraphFacts, FS_Subset
<1>2. PICK f : f = [o \in others |-> After(c, o)]
  OBVIOUS
<1>3. f \in [others -> SUBSET Nodes] /\ \A o \in others : f[o] = After(c, o)
  BY <1>1, <1>2
<1>4. \A o, x \in others : o # x => f[o] \cap f[x] = {}
  BY <1>1, <1>3
<1>5. /\ UNION {{o} \X Reachable(ToSet(branches[c][o])) : o \in others}
           = UNION {{o} \X f[o] : o \in others}
      /\ behind = UNION {f[o] : o \in others}
  BY <1>1, <1>3
<1>6. UnreachableCount(c, b) = Cardinality(UNION {{o} \X f[o] : o \in others})
  BY <1>5 DEF UnreachableCount
<1> HIDE DEF others
<1>7. UnreachableCount(c, b) = Cardinality(behind)
  BY <1>1, <1>3, <1>4, <1>5, <1>6, DisjointUnion
<1> QED BY <1>3, <1>5, <1>7

\* A condition takes the tasks behind its other branches off the counter: none
\* of them has run, and none has been taken off before.
LEMMA CounterSelect ==
  ASSUME NoSubflows, NoRepeats, Apart, ScheduleInv, DecisionInv, CounterInv, NEW w \in Workers,
         SelectBranch(w)
  PROVE  CounterInv'
<1>1. PICK t, b, behind : /\ t = task[w] /\ b = branchTaken[w]
                          /\ behind = UNION {After(t, o) : o \in DOMAIN branches[t] \ {b}}
  OBVIOUS
<1>2. /\ pc \in [Workers -> QuietLabels] /\ pc[w] = "select" /\ t \in Nodes /\ t \in finished
      /\ t \in DOMAIN branches /\ b \in DOMAIN branches[t]
      /\ succs \in [Workers -> Seq(Nodes)] /\ remaining \in 0 .. UsizeMod - 1
      /\ \A v \in Workers \ {w} : pc[v] \in Choosing => task[v] # t
      /\ \A s \in Nodes : <<t, s>> \notin fired
  <2>1. /\ pc \in [Workers -> QuietLabels] /\ pc[w] = "select"
        /\ succs \in [Workers -> Seq(Nodes)] /\ remaining \in 0 .. UsizeMod - 1
    BY DEF ScheduleInv, TypesInv, SelectBranch
  <2>2. /\ t \in Nodes /\ t \in finished /\ t \in DOMAIN branches
        /\ \A v \in Workers \ {w} : pc[v] \in Choosing => task[v] # t
    BY <1>1, <2>1 DEF ScheduleInv, LocalsInv, PlacesInv, Held, Choosing
  <2>3. b \in DOMAIN branches[t]
    BY <1>1, <2>1, <2>2 DEF DecisionInv, ChoiceInv
  <2>4. \A s \in Nodes : <<t, s>> \notin fired
    BY <1>1, <2>1 DEF ScheduleInv, CountInv, Held
  <2> QED BY <2>1, <2>2, <2>3, <2>4
<1>3. /\ remaining' = Minus(remaining, UnreachableCount(t, b) % UsizeMod)
      /\ succs' = [succs EXCEPT ![w] = branches[t][b]]
      /\ pc' = [pc EXCEPT ![w] = "release"]
      /\ UNCHANGED <<graph, branches, shutdown, task, ready, main, finished, fired>>
  BY <1>1, <1>2 DEF SelectBranch, Goto, history
<1>4. /\ \A v \in Workers \ {w} : pc'[v] = pc[v] /\ succs'[v] = succs[v]
      /\ pc'[w] = "release" /\ succs'[w] = branches[t][b]
  BY <1>2, <1>3
<1>5. behind \subseteq Nodes /\ UnreachableCount(t, b) = Cardinality(behind)
  BY <1>1, <1>2, BehindOthers DEF ScheduleInv
<1>6. ASSUME NEW o \in DOMAIN branches[t] \ {b}
      PROVE  /\ ToSet(branches[t][o]) \cap ToSet(branches[t][b]) = {}
             /\ \A x \in After(t, o) : Unreleased(x) # {}
  <2> DEFINE start == ToSet(branches[t][o])
  <2>1. /\ start \subseteq graph[t].succ /\ start \in SUBSET Nodes
        /\ ToSet(branches[t][b]) \cap After(t, o) = {}
    BY <1>2, BranchFacts DEF ScheduleInv
  <2>2. start \subseteq Reach(graph, start)
    BY <2>1 DEF Reach, Nodes
  <2>3. ASSUME NEW s \in start PROVE Unreleased(s) # {}
    <3>1. s \in Nodes /\ t \in graph[s].deps
      BY <1>2, <2>1, <2>3, GraphFacts DEF ScheduleInv
    <3> QED BY <1>2, <3>1 DEF Unreleased
  <2> HIDE DEF start
  <2>4. \A x \in Reach(graph, start) : Unreleased(x) # {}
    BY <2>1, <2>3, BlockedBehind
  <2> QED BY <2>1, <2>2, <2>4 DEF After, start
<1>7. behind \subseteq Pending
  BY <1>1, <1>5, <1>6 DEF Pending, ScheduleInv, ReleasedInv
<1>8. ASSUME NEW o \in DOMAIN branches[t] PROVE ~ Rejected(t, o)
  BY <1>1, <1>2 DEF Rejected
<1>9. behind \cap Dead = {}
  <2> SUFFICES ASSUME NEW x \in behind, x \in Dead PROVE FALSE
    OBVIOUS
  <2>1. PICK o \in DOMAIN branches[t] \ {b} : x \in After(t, o)
    BY <1>1
  <2>2. PICK d \in DOMAIN branches : \E y \in DOMAIN branches[d] : Rejected(d, y) /\ x \in After(d, y)
    BY DEF Dead
  <2>3. PICK y \in DOMAIN branches[d] : Rejected(d, y) /\ x \in After(d, y)
    BY <2>2
  <2>4. d # t /\ d \in finished
    BY <1>8, <2>3 DEF Rejected
  <2>5. d \in After(t, o) \/ t \in After(d, y)
    BY <1>2, <2>1, <2>3, <2>4, BranchFacts DEF ScheduleInv
  <2>6. CASE d \in After(t, o)
    BY <1>6, <2>4, <2>6 DEF ScheduleInv, ReleasedInv
  <2>7. CASE t \in After(d, y)
    <3>1. t \in Dead
      BY <1>2, <2>3, <2>7 DEF Dead
    <3> QED BY <1>2, <3>1, DeadBlocked
  <2> QED BY <2>5, <2>6, <2>7
<1>10. ASSUME NEW c \in DOMAIN branches, NEW o \in DOMAIN branches[c], c # t
       PROVE  Rejected(c, o)' <=> Rejected(c, o)
  BY <1>1, <1>2, <1>3, <1>4, <1>10 DEF Rejected
<1>11. ASSUME NEW o \in DOMAIN branches[t] \ {b} PROVE Rejected(t, o)'
  <2>1. t \in finished' /\ \A v \in Workers : pc'[v] \in {"decrement", "select"} => task'[v] # t
    BY <1>1, <1>2, <1>3, <1>4 DEF Choosing
  <2>2. ASSUME NEW s \in ToSet(branches[t][o])
        PROVE  /\ <<t, s>> \notin fired'
               /\ \A v \in Workers : pc'[v] = "release" /\ task'[v] = t => s \notin ToSet(succs'[v])
    <3>1. s \in Nodes /\ s \notin ToSet(branches[t][b])
      BY <1>2, <1>6, BranchFacts DEF ScheduleInv
    <3>2. <<t, s>> \notin fired'
      BY <1>2, <1>3, <3>1
    <3>3. \A v \in Workers : pc'[v] = "release" /\ task'[v] = t => v = w
      BY <1>2, <1>3, <1>4 DEF Choosing
    <3> QED BY <1>4, <3>1, <3>2, <3>3
  <2> QED BY <1>3, <2>1, <2>2 DEF Rejected
<1>12. ASSUME Rejected(t, b)' PROVE After(t, b) = {}
  <2>1. ToSet(branches[t][b]) = {}
    BY <1>1, <1>3, <1>4, <1>12 DEF Rejected
  <2>2. {} \in SUBSET Nodes /\ \A p \in {} : graph[p].succ \subseteq {}
    OBVIOUS
  <2>3. Reach(graph, {}) \subseteq {}
    BY <2>2, ReachFacts DEF ScheduleInv
  <2> QED BY <2>1, <2>3 DEF After
<1>13. Dead' = Dead \cup behind
  <2>1. /\ Nodes' = Nodes /\ DOMAIN branches' = DOMAIN branches
        /\ \A c : DOMAIN branches'[c] = DOMAIN branches[c]
        /\ \A c, o : After(c, o)' = After(c, o)
    BY <1>3 DEF Nodes, After
  <2>2. ASSUME NEW x \in Dead' PROVE x \in Dead \cup behind
    <3>0. PICK c \in DOMAIN branches :
            \E o \in DOMAIN branches[c] : Rejected(c, o)' /\ x \in After(c, o)
      BY <2>1, <2>2 DEF Dead
    <3>1. PICK o \in DOMAIN branches[c] : Rejected(c, o)' /\ x \in After(c, o) /\ x \in Nodes
      BY <2>1, <2>2, <3>0 DEF Dead
    <3>2. CASE c # t
      BY <1>10, <3>1, <3>2 DEF Dead
    <3>3. CASE c = t /\ o = b
      BY <1>12, <3>1, <3>3
    <3>4. CASE c = t /\ o # b
      BY <1>1, <3>1, <3>4
    <3> QED BY <3>2, <3>3, <3>4
  <2>3. ASSUME NEW x \in Dead PROVE x \in Dead'
    <3>0. PICK c \in DOMAIN branches :
            \E o \in DOMAIN branches[c] : Rejected(c, o) /\ x \in After(c, o)
      BY <2>3 DEF Dead
    <3>1. PICK o \in DOMAIN branches[c] : Rejected(c, o) /\ x \in After(c, o) /\ x \in Nodes
      BY <2>3, <3>0 DEF Dead
    <3>2. c # t
      BY <1>8, <3>1
    <3>3. Rejected(c, o)'
      BY <1>10, <3>1, <3>2
    <3> QED BY <2>1, <3>1, <3>3 DEF Dead
  <2>4. ASSUME NEW x \in behind PROVE x \in Dead'
    <3>1. PICK o \in DOMAIN branches[t] \ {b} : x \in After(t, o)
      BY <1>1
    <3>2. Rejected(t, o)'
      BY <1>11, <3>1
    <3> QED BY <1>2, <1>5, <2>1, <3>1, <3>2 DEF Dead
  <2> QED BY <2>2, <2>3, <2>4
<1>14. Live' = Live \ behind
  <2>1. Pending' = Pending
    BY <1>2, <1>3, <1>4 DEF Pending, Nodes
  <2> QED BY <1>13, <2>1 DEF Live
<1>15. /\ IsFiniteSet(Live) /\ behind \subseteq Live /\ remaining = Cardinality(Live)
       /\ Cardinality(behind) \in Nat /\ Cardinality(behind) <= remaining
  <2>1. IsFiniteSet(Live) /\ remaining = Cardinality(Live)
    BY LiveFacts DEF CounterInv
  <2>2. behind \subseteq Live
    BY <1>7, <1>9 DEF Live
  <2> QED BY <2>1, <2>2, FS_Subset, FS_CardinalityType
<1>16. Cardinality(Live') = remaining - Cardinality(behind)
  <2>1. Live \cap behind = behind
    BY <1>15
  <2> QED BY <1>14, <1>15, <2>1, FS_Difference
<1>17. remaining' = remaining - Cardinality(behind)
  <2>1. Cardinality(behind) < UsizeMod /\ UsizeMod \in Nat \ {0}
    BY <1>2, <1>15, ExecutorAssumption
  <2>2. Cardinality(behind) % UsizeMod = Cardinality(behind)
    BY <1>15, <2>1
  <2> QED BY <1>3, <1>5, <1>15, <2>2 DEF Minus
<1>18. Live = {} => Live' = {}
  BY <1>14
<1> QED BY <1>2, <1>3, <1>4, <1>16, <1>17, <1>18 DEF CounterInv

LEMMA CounterRelease ==
  ASSUME NoSubflows, NoRepeats, ScheduleInv, CounterInv, NEW w \in Workers, ReleaseEach(w)
  PROVE  CounterInv'
<1> DEFINE t == task[w]
<1> DEFINE known == ToSet(succs[w]) \cap DOMAIN depCount
<1> DEFINE freed == {s \in known : depCount[s] = 1}
<1>1. /\ pc \in [Workers -> QuietLabels] /\ ready \in [Workers -> Seq(Nodes)]
      /\ task \in [Workers -> Nodes \cup {NoTask}] /\ succs \in [Workers -> Seq(Nodes)]
      /\ pc[w] = "release" /\ t \in finished /\ DOMAIN depCount = Nodes
      /\ \A v \in Workers \ {w} : pc[v] \in Choosing => task[v] # t
      /\ \A s \in Nodes : <<t, s>> \notin fired
  BY DEF ScheduleInv, TypesInv, PlacesInv, CountInv, Held, Choosing, ReleaseEach
<1>2. UNCHANGED <<graph, branches, remaining, shutdown, main, finished>>
      /\ fired' = fired \cup ({t} \X known)
  BY DEF ReleaseEach
<1>3. known = ToSet(succs[w])
  <2>1. ToSet(succs[w]) \subseteq Nodes
    BY <1>1, LenProperties DEF ToSet
  <2> QED BY <1>1, <2>1
<1>4. /\ \A v \in Workers \ {w} : pc'[v] = pc[v] /\ task'[v] = task[v] /\ succs'[v] = succs[v]
      /\ pc'[w] \in {"lock", "push"}
      /\ pc'[w] = "push" => ready'[w] # <<>>
      /\ \A v \in Workers \ {w} : ready'[v] = ready[v]
  <2>1. CASE freed = {}
    <3>1. /\ pc' = [pc EXCEPT ![w] = "lock"] /\ task' = [task EXCEPT ![w] = NoTask]
          /\ succs' = [succs EXCEPT ![w] = <<>>] /\ ready' = [ready EXCEPT ![w] = <<>>]
      BY <2>1 DEF ReleaseEach, Goto, EndIteration
    <3> QED BY <1>1, <3>1
  <2>2. CASE freed # {}
    <3>1. PICK list \in Seq(freed) :
          IsInjective(list) /\ ToSet(list) = freed /\ ready' = [ready EXCEPT ![w] = list]
      BY <2>2 DEF ReleaseEach
    <3>2. pc' = [pc EXCEPT ![w] = "push"] /\ task' = task /\ succs' = succs
      BY <2>2 DEF ReleaseEach, Goto
    <3>3. list # <<>>
      <4>1. ToSet(<<>>) = {}
        BY EmptySeq DEF ToSet
      <4> QED BY <2>2, <3>1, <4>1
    <3> QED BY <1>1, <3>1, <3>2, <3>3
  <2> QED BY <2>1, <2>2
<1> HIDE DEF known, freed
<1>5. ASSUME NEW c \in DOMAIN branches, NEW o \in DOMAIN branches[c], NEW s, s \in Nodes
      PROVE  (/\ <<c, s>> \notin fired
              /\ \A v \in Workers : pc[v] = "release" /\ task[v] = c => s \notin ToSet(succs[v]))
             <=>
             (/\ <<c, s>> \notin fired'
              /\ \A v \in Workers : pc'[v] = "release" /\ task'[v] = c => s \notin ToSet(succs'[v]))
  <2>1. CASE c = t
    <3>1. <<c, s>> \in fired' <=> s \in ToSet(succs[w])
      BY <1>1, <1>2, <1>3, <1>5, <2>1
    <3>2. \A v \in Workers : pc[v] = "release" /\ task[v] = c <=> v = w
      BY <1>1, <2>1 DEF Choosing
    <3>3. \A v \in Workers : ~ (pc'[v] = "release" /\ task'[v] = c)
      BY <1>4, <3>2
    <3> QED BY <1>1, <1>5, <2>1, <3>1, <3>2, <3>3
  <2>2. CASE c # t
    <3>1. <<c, s>> \in fired' <=> <<c, s>> \in fired
      BY <1>2, <2>2
    <3> QED BY <1>4, <2>2, <3>1
  <2> QED BY <2>1, <2>2
<1>6. ASSUME NEW c \in DOMAIN branches, NEW o \in DOMAIN branches[c]
      PROVE  Rejected(c, o)' <=> Rejected(c, o)
  <2>1. ToSet(branches[c][o]) \subseteq Nodes
    <3>1. branches[c][o] \in Seq(graph[c].succ) /\ graph[c].succ \subseteq Nodes
      BY GraphFacts DEF ScheduleInv
    <3> QED BY <3>1, LenProperties DEF ToSet
  <2>2. (\A v \in Workers : pc[v] \in {"decrement", "select"} => task[v] # c)
          <=> (\A v \in Workers : pc'[v] \in {"decrement", "select"} => task'[v] # c)
    BY <1>1, <1>4
  <2>3. (\A s \in ToSet(branches[c][o]) :
           /\ <<c, s>> \notin fired
           /\ \A v \in Workers : pc[v] = "release" /\ task[v] = c => s \notin ToSet(succs[v]))
        <=> (\A s \in ToSet(branches[c][o]) :
           /\ <<c, s>> \notin fired'
           /\ \A v \in Workers : pc'[v] = "release" /\ task'[v] = c => s \notin ToSet(succs'[v]))
    BY <1>5, <2>1
  <2> QED BY <1>2, <2>2, <2>3 DEF Rejected
<1>7. Live' = Live
  <2>1. \A v \in Workers : /\ pc'[v] = "decrement" <=> pc[v] = "decrement"
                           /\ pc[v] = "decrement" => task'[v] = task[v]
    BY <1>1, <1>4
  <2>2. Nodes' = Nodes
    BY <1>2 DEF Nodes
  <2>3. Pending' = Pending
    BY <1>2, <2>1, <2>2 DEF Pending
  <2> QED BY <1>2, <1>6, <2>3, DeadSame DEF Live
<1> QED BY <1>1, <1>2, <1>4, <1>7 DEF CounterInv

LEMMA CounterStep ==
  ASSUME NoSubflows, NoRepeats, Apart, ScheduleInv, DecisionInv, CounterInv, [Next]_vars
  PROVE  CounterInv'
<1> USE DEF shared, locals, history, Choosing
<1>1. /\ pc \in [Workers -> QuietLabels] /\ task \in [Workers -> Nodes \cup {NoTask}]
      /\ ready \in [Workers -> Seq(Nodes)] /\ succs \in [Workers -> Seq(Nodes)]
  BY DEF ScheduleInv, TypesInv
<1>2. ASSUME NEW w \in Workers, SubflowStep(w) PROVE FALSE
  BY <1>2, SubflowStepsExcluded
<1>3. ASSUME NEW w \in Workers, TaskStep(w) PROVE CounterInv'
  <2>1. CASE TakeWork(w)
    <3>1. \A v \in Workers \ {w} : succs'[v] = succs[v]
      BY <1>1, <2>1 DEF TakeWork
    <3>2. Live' = Live
      BY <1>1, <2>1, <3>1, LiveSame DEF TakeWork
    <3> QED BY <1>1, <2>1, <3>2 DEF TakeWork, CounterInv
  <2>2. CASE RunNothing(w)
    BY <2>2, CounterVisit DEF RunNothing
  <2>3. CASE RunStatic(w)
    BY <2>3, CounterVisit DEF RunStatic
  <2>4. CASE RunCondition(w)
    BY <2>4, CounterVisit DEF RunCondition
  <2>5. CASE RunPanicking(w)
    <3>1. Live' = Live
      BY <1>1, <2>5, LiveSame DEF RunPanicking
    <3> QED BY <1>1, <2>5, <3>1 DEF RunPanicking, CounterInv
  <2>6. CASE Decrement(w)
    BY <2>6, CounterDecrement
  <2>7. CASE SelectBranch(w)
    BY <2>7, CounterSelect
  <2>8. CASE Release(w)
    BY <2>8, ReleaseSimple, CounterRelease
  <2>9. CASE PushReady(w)
    <3>1. Live' = Live
      BY <1>1, <2>9, LiveSame DEF PushReady, EndIteration
    <3> QED BY <1>1, <2>9, <3>1 DEF PushReady, EndIteration, CounterInv
  <2>10. CASE NotifyReady(w)
    <3>1. Live' = Live
      BY <1>1, <2>10, LiveSame DEF NotifyReady
    <3> QED BY <1>1, <2>10, <3>1 DEF NotifyReady, CounterInv
  <2> QED
    BY <1>3, <2>1, <2>2, <2>3, <2>4, <2>5, <2>6, <2>7, <2>8, <2>9, <2>10 DEF TaskStep
<1>4. ASSUME NEW w \in Workers, WakeSpuriously(w) PROVE CounterInv'
  <2>1. Live' = Live
    BY <1>1, <1>4, LiveSame DEF WakeSpuriously
  <2> QED BY <1>1, <1>4, <2>1 DEF WakeSpuriously, CounterInv
<1>5. CASE MainNotify
  <2>1. Live' = Live
    BY <1>1, <1>5, LiveSame DEF MainNotify
  <2> QED BY <1>1, <1>5, <2>1 DEF MainNotify, CounterInv
<1>6. CASE MainReturn
  <2>1. Live' = Live
    BY <1>1, <1>6, LiveSame DEF MainReturn
  <2> QED BY <1>1, <1>6, <2>1 DEF MainReturn, CounterInv
<1>7. CASE UNCHANGED vars
  <2>1. Live' = Live
    BY <1>1, <1>7, LiveSame DEF vars
  <2> QED BY <1>1, <1>7, <2>1 DEF vars, CounterInv
<1> QED
  BY <1>2, <1>3, <1>4, <1>5, <1>6, <1>7, CounterQueueStep DEF Next, WorkerStep, Halted

LEMMA CounterAlways ==
  ASSUME NoSubflows, NoRepeats, Decisive, Apart
  PROVE  Spec => [](ScheduleInv /\ AccountInv /\ CounterInv)
<1>1. Init => ScheduleInv /\ AccountInv /\ DecisionInv /\ CounterInv
  BY ScheduleInit, AccountInit, DecisionInit, CounterInit
<1>2. ScheduleInv /\ AccountInv /\ DecisionInv /\ CounterInv /\ [Next]_vars
        => (ScheduleInv /\ AccountInv /\ DecisionInv /\ CounterInv)'
  BY ScheduleStep, AccountStep, DecisionStep, CounterStep
<1> QED BY <1>1, <1>2, PTL DEF Spec

\* Tasks in sight are on the counter.
LEMMA InSight ==
  ASSUME NoSubflows, NoRepeats, Apart, ScheduleInv
  PROVE  /\ ToSet(queue) \subseteq Live
         /\ \A w \in Workers : /\ pc[w] \in Executing \cup {"take"} => task[w] \in Live
                               /\ ToSet(ready[w]) \subseteq Live
<1>1. /\ PlacesInv /\ LocalsInv /\ ReleasedInv /\ pc \in [Workers -> QuietLabels]
      /\ queue \in Seq(Nodes) /\ ready \in [Workers -> Seq(Nodes)]
  BY DEF ScheduleInv, TypesInv
<1>2. ToSet(queue) \subseteq Nodes /\ \A w \in Workers : ToSet(ready[w]) \subseteq Nodes
  BY <1>1, LenProperties DEF ToSet
<1>3. \A t \in Pending : Unreleased(t) = {} => t \in Live
  BY DeadBlocked DEF Live
<1>4. ASSUME NEW w \in Workers, pc[w] \in Executing \cup {"take"}
      PROVE  task[w] \in Live
  <2>1. pc[w] \in {"take", "run", "decrement"}
    BY <1>1, <1>4 DEF Executing, QuietLabels
  <2>2. /\ task[w] \in Nodes /\ (pc[w] \in {"take", "run"} => task[w] \notin finished)
        /\ Unreleased(task[w]) = {}
    BY <1>1, <2>1 DEF LocalsInv, PlacesInv, ReleasedInv, Held
  <2> QED BY <1>3, <2>1, <2>2 DEF Pending
<1>5. ASSUME NEW w \in Workers PROVE ToSet(ready[w]) \subseteq Live
  BY <1>1, <1>2, <1>3 DEF Pending, PlacesInv, ReleasedInv
<1>6. ToSet(queue) \subseteq Live
  BY <1>1, <1>2, <1>3 DEF Pending, PlacesInv, ReleasedInv
<1> QED BY <1>4, <1>5, <1>6

\* tasks_remaining (executor.rs, lines 57, 417-418 and 438-441) never
\* undercounts the work queued, ready or executing and never exceeds the
\* graph: it does not wrap, not even when a condition subtracts the tasks
\* behind the branches that it does not take.
THEOREM CounterExact ==
  ASSUME NoSubflows, NoRepeats, Decisive, Apart
  PROVE  Spec => []CounterCoversWork
<1>1. ScheduleInv /\ CounterInv => CounterCoversWork
  <2> SUFFICES ASSUME ScheduleInv, CounterInv PROVE CounterCoversWork
    OBVIOUS
  <2> DEFINE seen == ToSet(queue) \cup Holding(Executing \cup {"take"})
                       \cup UNION {ToSet(ready[w]) : w \in Workers}
  <2>1. seen \subseteq Live
    BY InSight DEF Holding
  <2>2. Cardinality(seen) <= Cardinality(Live)
    BY <2>1, LiveFacts, FS_Subset
  <2>3. /\ remaining = Cardinality(Live) /\ remaining \in Nat /\ remaining <= Len(graph)
    BY LiveFacts DEF CounterInv
  <2>4. Cardinality(seen) \in Nat
    BY <2>1, LiveFacts, FS_Subset, FS_CardinalityType
  <2> QED BY <2>2, <2>3, <2>4 DEF CounterCoversWork
<1> QED BY <1>1, CounterAlways, PTL

\* The first worker that sees an empty queue and a zero counter raises the flag
\* (lines 333-340); no task is left anywhere at that moment or later.
THEOREM ShutdownInTime ==
  ASSUME NoSubflows, NoRepeats, Decisive, Apart
  PROVE  Spec => []NoEarlyShutdown
<1>1. ScheduleInv /\ CounterInv => NoEarlyShutdown
  <2> SUFFICES ASSUME ScheduleInv, CounterInv, shutdown
               PROVE  /\ queue = <<>>
                      /\ \A w \in Workers : pc[w] \notin Executing \cup {"take", "push"}
    BY DEF NoEarlyShutdown
  <2>1. Live = {}
    BY DEF CounterInv
  <2>2. queue \in Seq(Nodes) /\ ready \in [Workers -> Seq(Nodes)]
    BY DEF ScheduleInv, TypesInv
  <2>3. \A s \in Seq(Nodes) : ToSet(s) = {} => s = <<>>
    <3> SUFFICES ASSUME NEW s \in Seq(Nodes), s # <<>> PROVE s[1] \in ToSet(s)
      OBVIOUS
    <3>1. Len(s) \in Nat /\ Len(s) # 0 /\ DOMAIN s = 1 .. Len(s)
      BY EmptySeq, LenProperties
    <3> QED BY <3>1 DEF ToSet
  <2>4. queue = <<>>
    BY <2>1, <2>2, <2>3, InSight
  <2>5. \A w \in Workers : pc[w] \notin Executing \cup {"take"}
    BY <2>1, InSight
  <2>6. \A w \in Workers : pc[w] # "push"
    BY <2>1, <2>2, <2>3, InSight DEF CounterInv
  <2> QED BY <2>4, <2>5, <2>6
<1> QED BY <1>1, CounterAlways, PTL

\* When TaskflowFuture::wait returns without a panic, every closure of the
\* graph has been executed, cycles included: a cyclic graph never returns.
THEOREM Completion ==
  ASSUME NoSubflows, NoRepeats, Decisive, Apart
  PROVE  Spec => []CompleteOnReturn
<1>1. ScheduleInv /\ CounterInv => CompleteOnReturn
  <2> SUFFICES ASSUME ScheduleInv, CounterInv, \A w \in Workers : pc[w] = "done",
                      DOMAIN branches = {}
               PROVE  DOMAIN graph \subseteq finished
    BY DEF CompleteOnReturn
  <2>1. PICK w \in Workers : pc[w] = "done"
    BY ExecutorAssumption
  <2>2. Live = {}
    BY <2>1 DEF CounterInv
  <2> QED BY <2>2 DEF Live, Dead, Pending, Nodes
<1> QED BY <1>1, CounterAlways, PTL

\* With branches as well, only tasks behind a branch that its condition did not
\* take are left when wait returns without a panic.
THEOREM OnlyBranchesSkipped ==
  ASSUME NoSubflows, NoRepeats, Decisive, Apart
  PROVE  Spec => [](main = "returned" /\ (\A w \in Workers : pc[w] = "done")
                      => DOMAIN graph \ finished \subseteq Dead)
<1>1. CounterInv => (main = "returned" /\ (\A w \in Workers : pc[w] = "done")
                       => DOMAIN graph \ finished \subseteq Dead)
  <2> SUFFICES ASSUME CounterInv, \A w \in Workers : pc[w] = "done"
               PROVE  DOMAIN graph \ finished \subseteq Dead
    OBVIOUS
  <2>1. PICK w \in Workers : pc[w] = "done"
    BY ExecutorAssumption
  <2>2. Live = {}
    BY <2>1 DEF CounterInv
  <2> QED BY <2>2 DEF Live, Pending, Nodes
<1> QED BY <1>1, CounterAlways, PTL

=============================================================================
