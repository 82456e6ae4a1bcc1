----------------------------- MODULE AsyncProofs -----------------------------
(***************************************************************************)
(* Proofs about AsyncExecutor, for flows without subflow tasks: the graph  *)
(* stands still while run_async runs on it.                                *)
(***************************************************************************)
EXTENDS AsyncExecutor, DataLemmas

NoSubflows ==
  \A flow \in Flows : \A p \in DOMAIN flow.graph : flow.graph[p].work.kind # "subflow"

\* No branch names a task more than once.  The builder does not ensure it: it is
\* what a program has to respect for the promises below to hold.
NoRepeats ==
  \A flow \in Flows : \A c \in DOMAIN flow.branches :
    \A b \in DOMAIN flow.branches[c] : IsInjective(flow.branches[c][b])

\* Every task with branches is a condition that has its closure (or panics) and
\* returns registered branches only.
Decisive ==
  \A flow \in Flows : \A c \in DOMAIN flow.branches :
    /\ ~flow.spent
    /\ flow.graph[c].work.kind \in {"condition", "faulty"}
    /\ flow.graph[c].work.kind = "condition" =>
         flow.graph[c].work.returns \subseteq DOMAIN flow.branches[c]

\* No branch starts behind another, no task is behind two branches of which
\* neither may be taken, and what is behind branches of two conditions has one
\* of these behind a branch of the other: no task is subtracted twice, and none
\* that may run.
Apart ==
  \A flow \in Flows :
    LET Behind(c, o) == Reach(flow.graph, ToSet(flow.branches[c][o]))
    IN  \A c \in DOMAIN flow.branches :
          /\ \A b, o \in DOMAIN flow.branches[c] :
               b # o => ToSet(flow.branches[c][b]) \cap Behind(c, o) = {}
          /\ \A b, o, x \in DOMAIN flow.branches[c] :
               b # o /\ b # x /\ o # x => Behind(c, o) \cap Behind(c, x) = {}
          /\ \A d \in DOMAIN flow.branches \ {c} :
               \A o \in DOMAIN flow.branches[c], x \in DOMAIN flow.branches[d] :
                 Behind(c, o) \cap Behind(d, x) # {} => d \in Behind(c, o) \/ c \in Behind(d, x)

\* A flow without branches is both.
LEMMA PlainFlows ==
  ASSUME \A flow \in Flows : DOMAIN flow.branches = {}
  PROVE  Decisive /\ Apart
BY DEF Decisive, Apart

Nodes == DOMAIN graph

\* Labels of a job that has work to do, and of one whose closure has returned.
Held == {"take", "run", "decrement", "select", "lockDeps", "release"}
Visited == {"decrement", "select", "lockDeps", "release", "ended"}

Job ==
  [task : Nodes, pc : Held \cup {"ended", "panicked"},
   work : {NoWork} \cup {graph[p].work : p \in Nodes},
   branch : 0 .. NoBranch, succs : Seq(Nodes), sub : {NoSub}]

Spawned == {jobs[i].task : i \in DOMAIN jobs}

Unreleased(t) == {d \in graph[t].deps : <<d, t>> \notin fired}

FlowInv == \E flow \in Flows : graph = flow.graph /\ branches = flow.branches

TypesInv ==
  /\ taken \subseteq Nodes /\ finished \subseteq Nodes /\ fired \subseteq Nodes \X Nodes
  /\ depCount \in [Nodes -> 0 .. UsizeMod - 1]
  /\ queue \in Seq(Nodes)
  /\ remaining \in 0 .. UsizeMod - 1
  /\ jobs \in Seq(Job)
  /\ joinSet \subseteq DOMAIN jobs
  /\ driver \in {"spawn", "join", "check", "drain", "returned"}

\* What a job still has to release is among the successors of its task; a task
\* without registered branches leaves none of them out.
SuccsInv ==
  \A i \in DOMAIN jobs :
    /\ jobs[i].pc \in Held \ {"take"} =>
         /\ IsInjective(jobs[i].succs)
         /\ ToSet(jobs[i].succs) \subseteq graph[jobs[i].task].succ
    /\ jobs[i].pc = "select" => jobs[i].task \in DOMAIN branches
    /\ jobs[i].pc = "ended" => jobs[i].succs = <<>>
    /\ jobs[i].pc \in {"run"} \cup Visited /\ jobs[i].task \notin DOMAIN branches =>
         \A s \in graph[jobs[i].task].succ :
           s \in ToSet(jobs[i].succs) \/ <<jobs[i].task, s>> \in fired

\* A dependency count is the number of dependencies that have not released the
\* task, and a job releases each successor once.
CountInv ==
  /\ \A t \in Nodes : depCount[t] = Cardinality(Unreleased(t))
  /\ \A i \in DOMAIN jobs : \A t \in Nodes :
       /\ jobs[i].pc \in Held
       /\ jobs[i].pc = "release" => t \in ToSet(jobs[i].succs)
       => <<jobs[i].task, t>> \notin fired
  /\ \A d, t \in Nodes : <<d, t>> \in fired => d \in finished

\* A task is queued, or has been spawned once, exactly when everything it
\* depends on has released it.
PlacesInv ==
  /\ IsInjective(queue)
  /\ ToSet(queue) \cap Spawned = {}
  /\ \A t \in Nodes : Unreleased(t) = {} <=> t \in ToSet(queue) \cup Spawned
  /\ \A i, j \in DOMAIN jobs : jobs[i].task = jobs[j].task => i = j
  /\ finished = At(Visited)

\* The driver forgets no job before it is over, and gives up on an empty join
\* set only when the queue is empty too.
DriverInv ==
  /\ \A i \in DOMAIN jobs \ joinSet : Over(i)
  /\ driver = "join" /\ joinSet = {} => queue = <<>>
  /\ driver = "returned" => joinSet = {}

ScheduleInv == FlowInv /\ TypesInv /\ SuccsInv /\ CountInv /\ PlacesInv /\ DriverInv

\* The graph of this run has no branches, or branches that can be accounted for.
Foreseen == DOMAIN branches = {} \/ (Decisive /\ Apart)

\* The closure of a condition is taken once, by its job, which keeps to its work
\* and then to its choice.
ChoiceInv ==
  Foreseen =>
    /\ \A c \in DOMAIN branches \cap taken :
         \E i \in DOMAIN jobs : jobs[i].task = c /\ jobs[i].pc # "take"
    /\ \A i \in DOMAIN jobs : jobs[i].task \in DOMAIN branches =>
         /\ jobs[i].pc = "run" => jobs[i].work = graph[jobs[i].task].work
         /\ jobs[i].pc \in {"decrement", "select"} =>
              jobs[i].branch \in DOMAIN branches[jobs[i].task] \ {NoBranch}

\* The tasks behind branch o of the condition c.
After(c, o) == Reach(graph, ToSet(branches[c][o]))

\* Labels of a job whose successors have been chosen.
Chosen == {"lockDeps", "release", "ended"}

\* The condition c has chosen, and not branch o.
Rejected(c, o) ==
  \E i \in DOMAIN jobs :
    /\ jobs[i].task = c /\ jobs[i].pc \in Chosen
    /\ \A s \in ToSet(branches[c][o]) : <<c, s>> \notin fired /\ s \notin ToSet(jobs[i].succs)

\* The tasks behind branches that were not taken.
Dead ==
  {t \in Nodes : \E c \in DOMAIN branches : \E o \in DOMAIN branches[c] :
                   Rejected(c, o) /\ t \in After(c, o)}

\* Tasks that nobody has taken off the counter by running them.
Pending == (Nodes \ finished) \cup At({"decrement"})

\* Tasks that the counter still has to account for.
Live == Pending \ Dead

CounterInv ==
  Foreseen =>
    /\ remaining = Cardinality(Live)
    /\ driver \in {"drain", "returned"} =>
         Live = {} \/ (queue = <<>> /\ \A i \in DOMAIN jobs : Over(i))

-----------------------------------------------------------------------------
(* The graph and the jobs.                                                 *)

\* What the assumption on flows says of the graph of a run.
LEMMA GraphFacts ==
  ASSUME NoSubflows, NoRepeats, FlowInv
  PROVE  /\ Len(graph) \in Nat /\ Len(graph) < UsizeMod
         /\ Nodes = 1 .. Len(graph) /\ IsFiniteSet(Nodes)
         /\ Cardinality(Nodes) = Len(graph)
         /\ \A p \in Nodes :
              /\ graph[p].id = p
              /\ Position(p) = p
              /\ graph[p].succ \subseteq Nodes /\ IsFiniteSet(graph[p].succ)
              /\ graph[p].deps = {q \in Nodes : p \in graph[q].succ}
              /\ IsFiniteSet(graph[p].deps)
              /\ graph[p].work.kind \in WorkKinds \ {"subflow"}
              /\ graph[p].work.kind = "condition" =>
                   graph[p].work.returns \subseteq 0 .. UsizeMod - 1
         /\ \A c \in DOMAIN branches :
              /\ c \in Nodes
              /\ IsFiniteSet(DOMAIN branches[c])
              /\ \A b \in DOMAIN branches[c] : /\ branches[c][b] \in Seq(graph[c].succ)
                                               /\ IsInjective(branches[c][b])
<1>1. PICK flow \in Flows : graph = flow.graph /\ branches = flow.branches
  BY DEF FlowInv
<1>2. WellFormed(flow)
  BY AsyncAssumption
<1>3. /\ graph \in Seq({graph[p] : p \in Nodes})
      /\ Len(graph) < UsizeMod
      /\ \A p \in Nodes :
           /\ graph[p].id = p
           /\ graph[p].succ \subseteq Nodes
           /\ graph[p].work.kind \in WorkKinds
           /\ graph[p].work.kind = "condition" =>
                graph[p].work.returns \subseteq 0 .. UsizeMod - 1
           /\ graph[p].deps = {q \in Nodes : p \in graph[q].succ}
      /\ \A c \in DOMAIN branches :
           /\ c \in Nodes
           /\ IsFiniteSet(DOMAIN branches[c])
           /\ \A b \in DOMAIN branches[c] : /\ branches[c][b] \in Seq(graph[c].succ)
                                            /\ IsInjective(branches[c][b])
  BY <1>1, <1>2 DEF WellFormed, Nodes, NoRepeats
<1>4. Len(graph) \in Nat /\ Nodes = 1 .. Len(graph)
  BY <1>3, LenProperties DEF Nodes
<1>5. IsFiniteSet(Nodes) /\ Cardinality(Nodes) = Len(graph)
  BY <1>4, IntervalSize
<1>6. ASSUME NEW p \in Nodes
      PROVE  /\ Position(p) = p
             /\ IsFiniteSet(graph[p].deps) /\ IsFiniteSet(graph[p].succ)
             /\ graph[p].work.kind # "subflow"
  <2>1. Position(p) = p
    <3>1. \A q \in Nodes : graph[q].id = p <=> q = p
      BY <1>3, <1>6
    <3>2. p <= p
      BY <1>4, <1>6
    <3> QED BY <3>1, <3>2, <1>6 DEF Position, Nodes
  <2>2. IsFiniteSet(graph[p].deps) /\ IsFiniteSet(graph[p].succ)
    BY <1>3, <1>5, <1>6, FS_Subset
  <2>3. graph[p].work.kind # "subflow"
    BY <1>1, <1>6 DEF NoSubflows, Nodes
  <2> QED BY <2>1, <2>2, <2>3
<1> QED BY <1>3, <1>4, <1>5, <1>6

\* A step of one job leaves the others and all the tasks where they are.
LEMMA JobMoves ==
  ASSUME jobs \in Seq(Job), graph' = graph, NEW i \in DOMAIN jobs, NEW job \in Job,
         job.task = jobs[i].task, jobs' = [jobs EXCEPT ![i] = job]
  PROVE  /\ jobs' \in Seq(Job') /\ DOMAIN jobs' = DOMAIN jobs
         /\ jobs'[i] = job /\ \A j \in DOMAIN jobs \ {i} : jobs'[j] = jobs[j]
         /\ \A j \in DOMAIN jobs : jobs'[j].task = jobs[j].task
         /\ Spawned' = Spawned
<1>1. jobs \in [1 .. Len(jobs) -> Job] /\ Len(jobs) \in Nat /\ DOMAIN jobs = 1 .. Len(jobs)
  BY LenProperties
<1>2. Job' = Job
  BY DEF Job, Nodes
<1>3. jobs' \in [1 .. Len(jobs) -> Job]
  BY <1>1
<1>4. jobs' \in Seq(Job)
  BY <1>1, <1>3, SeqDef
<1>5. /\ DOMAIN jobs' = DOMAIN jobs
      /\ jobs'[i] = job /\ \A j \in DOMAIN jobs \ {i} : jobs'[j] = jobs[j]
  BY <1>1
<1>6. \A j \in DOMAIN jobs : jobs'[j].task = jobs[j].task
  BY <1>5
<1>7. Spawned' = Spawned
  BY <1>5, <1>6 DEF Spawned
<1> QED BY <1>2, <1>4, <1>5, <1>6, <1>7

\* The fields of a job.
LEMMA JobFacts ==
  ASSUME TypesInv, NEW i \in DOMAIN jobs
  PROVE  /\ jobs \in Seq(Job) /\ jobs[i] \in Job
         /\ jobs[i].task \in Nodes /\ jobs[i].pc \in Held \cup {"ended", "panicked"}
         /\ jobs[i].work \in {NoWork} \cup {graph[p].work : p \in Nodes}
         /\ jobs[i].branch \in 0 .. NoBranch /\ jobs[i].succs \in Seq(Nodes)
         /\ ToSet(jobs[i].succs) \subseteq Nodes
         /\ jobs[i].sub = NoSub
         /\ jobs[i].task \in Spawned
<1>1. jobs \in Seq(Job)
  BY DEF TypesInv
<1>2. jobs[i] \in Job
  BY <1>1, LenProperties
<1>3. /\ jobs[i].task \in Nodes /\ jobs[i].pc \in Held \cup {"ended", "panicked"}
      /\ jobs[i].work \in {NoWork} \cup {graph[p].work : p \in Nodes}
      /\ jobs[i].branch \in 0 .. NoBranch /\ jobs[i].succs \in Seq(Nodes)
      /\ jobs[i].sub = NoSub
  BY <1>2 DEF Job
<1>4. ToSet(jobs[i].succs) \subseteq Nodes
  BY <1>3, LenProperties DEF ToSet
<1> QED BY <1>1, <1>2, <1>3, <1>4 DEF Spawned

LEMMA EmptyFacts == /\ IsInjective(<<>>) /\ ToSet(<<>>) = {}
                    /\ \A S : <<>> \in Seq(S)
                    /\ \A S : \A s \in Seq(S) : ToSet(s) = {} <=> s = <<>>
BY EmptySeq, LenProperties DEF IsInjective, ToSet

-----------------------------------------------------------------------------
(* The scheduling invariant: the initial state.                            *)

LEMMA ScheduleInit ==
  ASSUME NoSubflows, NoRepeats, Init
  PROVE  ScheduleInv
<1>1. PICK flow \in Flows :
        /\ graph = flow.graph
        /\ branches = flow.branches
        /\ taken = IF flow.spent THEN DOMAIN flow.graph ELSE {}
        /\ depCount = [p \in DOMAIN flow.graph |-> Cardinality(flow.graph[p].deps)]
        /\ \E roots \in SetToSeqs({p \in DOMAIN flow.graph : flow.graph[p].deps = {}}) :
              queue = roots
        /\ remaining = Len(flow.graph)
  BY DEF Init
<1>2. jobs = <<>> /\ joinSet = {} /\ driver = "spawn" /\ finished = {} /\ fired = {}
  BY DEF Init
<1>3. FlowInv
  BY <1>1 DEF FlowInv
<1>4. /\ Len(graph) \in Nat /\ Len(graph) < UsizeMod /\ Cardinality(Nodes) = Len(graph)
      /\ IsFiniteSet(Nodes)
      /\ \A p \in Nodes : graph[p].deps \subseteq Nodes /\ IsFiniteSet(graph[p].deps)
  BY <1>3, GraphFacts
<1>5. \A t \in Nodes : Unreleased(t) = graph[t].deps
  BY <1>2 DEF Unreleased
<1>6. DOMAIN jobs = {} /\ Spawned = {} /\ At(Visited) = {} /\ jobs \in Seq(Job)
  BY <1>2, EmptySeq DEF Spawned, At
<1> DEFINE roots == {p \in Nodes : graph[p].deps = {}}
<1>7. queue \in Seq(Nodes) /\ IsInjective(queue) /\ ToSet(queue) = roots
  <2>1. queue \in SetToSeqs(roots)
    BY <1>1 DEF Nodes
  <2>2. IsFiniteSet(roots)
    BY <1>4, FS_Subset
  <2>3. queue \in Seq(roots) /\ IsInjective(queue) /\ ToSet(queue) = roots
    BY <2>1, <2>2, ListingFacts
  <2> QED BY <2>3, SeqMonotonic
<1>8. depCount = [t \in Nodes |-> Cardinality(graph[t].deps)] /\ UsizeMod \in Nat
  BY <1>1, AsyncAssumption DEF Nodes
<1>9. ASSUME NEW t \in Nodes PROVE Cardinality(graph[t].deps) \in 0 .. UsizeMod - 1
  <2>1. Cardinality(graph[t].deps) \in Nat /\ Cardinality(graph[t].deps) <= Len(graph)
    BY <1>4, <1>9, FS_Subset, FS_CardinalityType
  <2> QED BY <1>4, <1>8, <2>1
<1>10. TypesInv
  <2>1. depCount \in [Nodes -> 0 .. UsizeMod - 1]
    BY <1>8, <1>9
  <2>2. remaining \in 0 .. UsizeMod - 1
    BY <1>1, <1>4, <1>8
  <2>3. taken \subseteq Nodes
    BY <1>1 DEF Nodes
  <2> QED BY <1>2, <1>6, <1>7, <2>1, <2>2, <2>3 DEF TypesInv
<1>11. SuccsInv
  BY <1>6 DEF SuccsInv
<1>12. CountInv
  BY <1>2, <1>5, <1>6, <1>8 DEF CountInv
<1>13. PlacesInv
  BY <1>2, <1>5, <1>6, <1>7 DEF PlacesInv
<1>14. DriverInv
  BY <1>2, <1>6 DEF DriverInv
<1> QED BY <1>3, <1>10, <1>11, <1>12, <1>13, <1>14 DEF ScheduleInv

-----------------------------------------------------------------------------
(* The scheduling invariant: a job that releases nothing.                  *)

LEMMA ScheduleMove ==
  ASSUME ScheduleInv, NEW i \in DOMAIN jobs, NEW job \in Job,
         jobs[i].pc \in Held, job.task = jobs[i].task,
         jobs' = [jobs EXCEPT ![i] = job],
         taken' \subseteq Nodes, remaining' \in 0 .. UsizeMod - 1,
         finished' = finished \cup (IF job.pc \in Visited THEN {job.task} ELSE {}),
         jobs[i].pc \in Visited => job.pc \in Visited,
         jobs[i].pc = "release" => job.pc = "ended",
         job.pc \in Held \ {"take"} =>
           IsInjective(job.succs) /\ ToSet(job.succs) \subseteq graph[job.task].succ,
         job.pc = "select" => job.task \in DOMAIN branches,
         job.pc = "ended" => job.succs = <<>>,
         job.pc \in {"run"} \cup Visited /\ job.task \notin DOMAIN branches =>
           \A s \in graph[job.task].succ : s \in ToSet(job.succs) \/ <<job.task, s>> \in fired,
         UNCHANGED <<graph, branches, depCount, queue, fired, control>>
  PROVE  ScheduleInv'
<1> USE DEF control
<1>1. /\ FlowInv /\ TypesInv /\ SuccsInv /\ CountInv /\ PlacesInv /\ DriverInv
      /\ jobs \in Seq(Job)
  BY DEF ScheduleInv, TypesInv
<1>2. /\ jobs' \in Seq(Job') /\ DOMAIN jobs' = DOMAIN jobs
      /\ jobs'[i] = job /\ \A j \in DOMAIN jobs \ {i} : jobs'[j] = jobs[j]
      /\ \A j \in DOMAIN jobs : jobs'[j].task = jobs[j].task
      /\ Spawned' = Spawned
  BY <1>1, JobMoves
<1>3. job.task \in Nodes /\ Nodes' = Nodes /\ \A t : Unreleased(t)' = Unreleased(t)
  BY <1>1, JobFacts DEF Nodes, Unreleased
<1>4. FlowInv'
  BY <1>1 DEF FlowInv
<1>5. TypesInv'
  <2>1. finished' \subseteq Nodes
    BY <1>1, <1>3 DEF TypesInv
  <2> QED BY <1>1, <1>2, <1>3, <2>1 DEF TypesInv
<1>6. SuccsInv'
  <2> SUFFICES ASSUME NEW j \in DOMAIN jobs
               PROVE  /\ jobs'[j].pc \in Held \ {"take"} =>
                           /\ IsInjective(jobs'[j].succs)
                           /\ ToSet(jobs'[j].succs) \subseteq graph[jobs'[j].task].succ
                      /\ jobs'[j].pc = "select" => jobs'[j].task \in DOMAIN branches
                      /\ jobs'[j].pc = "ended" => jobs'[j].succs = <<>>
                      /\ jobs'[j].pc \in {"run"} \cup Visited
                           /\ jobs'[j].task \notin DOMAIN branches =>
                             \A s \in graph[jobs'[j].task].succ :
                               s \in ToSet(jobs'[j].succs) \/ <<jobs'[j].task, s>> \in fired
    BY <1>2 DEF SuccsInv
  <2>1. CASE j = i
    BY <1>2, <2>1
  <2>2. CASE j # i
    BY <1>1, <1>2, <2>2 DEF SuccsInv
  <2> QED BY <2>1, <2>2
<1>7. CountInv'
  <2>1. ASSUME NEW j \in DOMAIN jobs, NEW t \in Nodes, jobs'[j].pc \in Held,
               jobs'[j].pc = "release" => t \in ToSet(jobs'[j].succs)
        PROVE  <<jobs'[j].task, t>> \notin fired
    <3>1. CASE j = i
      <4>1. jobs[i].pc # "release"
        BY <1>2, <2>1, <3>1 DEF Held
      <4> QED BY <1>1, <1>2, <2>1, <3>1, <4>1 DEF CountInv
    <3>2. CASE j # i
      BY <1>1, <1>2, <2>1, <3>2 DEF CountInv
    <3> QED BY <3>1, <3>2
  <2>2. \A t \in Nodes : depCount[t] = Cardinality(Unreleased(t)')
    BY <1>1, <1>3 DEF CountInv
  <2>3. \A d, t \in Nodes : <<d, t>> \in fired => d \in finished'
    BY <1>1 DEF CountInv
  <2> QED BY <1>2, <1>3, <2>1, <2>2, <2>3 DEF CountInv
<1>8. PlacesInv'
  <2>1. At(Visited)' = finished'
    <3>1. ASSUME NEW t \in At(Visited)' PROVE t \in finished'
      <4>1. PICK j \in DOMAIN jobs : jobs'[j].pc \in Visited /\ t = jobs'[j].task
        BY <1>2, <3>1 DEF At
      <4>2. CASE j = i
        BY <1>2, <4>1, <4>2
      <4>3. CASE j # i
        BY <1>1, <1>2, <4>1, <4>3 DEF PlacesInv, At
      <4> QED BY <4>2, <4>3
    <3>2. ASSUME NEW t \in finished' PROVE t \in At(Visited)'
      <4>1. CASE t \in finished
        <5>1. PICK j \in DOMAIN jobs : jobs[j].pc \in Visited /\ t = jobs[j].task
          BY <1>1, <4>1 DEF PlacesInv, At
        <5>2. jobs'[j].pc \in Visited /\ jobs'[j].task = t
          BY <1>2, <5>1
        <5> QED BY <1>2, <5>2 DEF At
      <4>2. CASE t \notin finished
        <5>1. job.pc \in Visited /\ t = job.task
          BY <3>2, <4>2
        <5> QED BY <1>2, <5>1 DEF At
      <4> QED BY <4>1, <4>2
    <3> QED BY <3>1, <3>2
  <2>2. \A j, k \in DOMAIN jobs : jobs'[j].task = jobs'[k].task => j = k
    BY <1>1, <1>2 DEF PlacesInv
  <2> QED BY <1>1, <1>2, <1>3, <2>1, <2>2 DEF PlacesInv
<1>9. DriverInv'
  <2>1. i \in joinSet
    BY <1>1 DEF DriverInv, Over, Held
  <2>2. \A j \in DOMAIN jobs \ joinSet : jobs'[j].pc \in {"ended", "panicked"}
    BY <1>1, <1>2, <2>1 DEF DriverInv, Over
  <2> QED BY <1>1, <1>2, <2>1, <2>2 DEF DriverInv, Over
<1> QED BY <1>4, <1>5, <1>6, <1>7, <1>8, <1>9 DEF ScheduleInv

LEMMA ScheduleTakeWork ==
  ASSUME NoSubflows, NoRepeats, ScheduleInv, NEW i \in DOMAIN jobs, TakeWork(i)
  PROVE  ScheduleInv'
<1> DEFINE t == jobs[i].task
<1>1. /\ TypesInv /\ FlowInv /\ t \in Nodes /\ jobs[i] \in Job /\ jobs[i].pc = "take"
      /\ jobs \in Seq(Job)
  BY JobFacts DEF ScheduleInv, TakeWork
<1>2. /\ Position(t) = t /\ graph[t].succ \subseteq Nodes /\ IsFiniteSet(graph[t].succ)
  BY <1>1, GraphFacts
<1>3. PICK order \in SetToSeqs(graph[t].succ) :
        jobs' = [jobs EXCEPT ![i].pc = "run", ![i].succs = order,
                             ![i].work = IF t \in taken THEN NoWork ELSE graph[t].work]
  BY <1>2 DEF TakeWork
<1>4. order \in Seq(Nodes) /\ IsInjective(order) /\ ToSet(order) = graph[t].succ
  BY <1>2, <1>3, ListingFacts, SeqMonotonic
<1> DEFINE job == [jobs[i] EXCEPT !.pc = "run", !.succs = order,
                                  !.work = IF t \in taken THEN NoWork ELSE graph[t].work]
<1>5. /\ job \in Job /\ job.task = t /\ job.pc = "run" /\ job.succs = order
  BY <1>1, <1>4 DEF Job, Held
<1>6. jobs' = [jobs EXCEPT ![i] = job]
  BY <1>1, <1>3
<1>7. /\ taken' \subseteq Nodes /\ remaining' \in 0 .. UsizeMod - 1
      /\ UNCHANGED <<graph, branches, depCount, queue, remaining, fired, finished, control>>
  BY <1>1, <1>2 DEF TakeWork, TypesInv, history
<1> HIDE DEF job
<1> QED BY <1>1, <1>4, <1>5, <1>6, <1>7, ScheduleMove DEF Held, Visited

\* The end of a closure of whatever kind.
LEMMA ScheduleVisit ==
  ASSUME NoSubflows, NoRepeats, ScheduleInv, NEW i \in DOMAIN jobs, NEW b \in 0 .. NoBranch,
         jobs[i].pc = "run",
         jobs' = [jobs EXCEPT ![i] = [jobs[i] EXCEPT !.pc = "decrement", !.branch = b]],
         finished' = finished \cup {Position(jobs[i].task)},
         UNCHANGED <<shared, control, fired>>
  PROVE  ScheduleInv'
<1> DEFINE job == [jobs[i] EXCEPT !.pc = "decrement", !.branch = b]
<1>1. /\ TypesInv /\ FlowInv /\ SuccsInv /\ jobs[i].task \in Nodes /\ jobs[i] \in Job
      /\ jobs \in Seq(Job)
  BY JobFacts DEF ScheduleInv
<1>2. Position(jobs[i].task) = jobs[i].task
  BY <1>1, GraphFacts
<1>3. /\ job \in Job /\ job.task = jobs[i].task /\ job.pc = "decrement"
      /\ job.succs = jobs[i].succs
  BY <1>1 DEF Job, Held
<1>4. /\ IsInjective(jobs[i].succs) /\ ToSet(jobs[i].succs) \subseteq graph[jobs[i].task].succ
      /\ jobs[i].task \notin DOMAIN branches =>
           \A s \in graph[jobs[i].task].succ :
             s \in ToSet(jobs[i].succs) \/ <<jobs[i].task, s>> \in fired
  BY <1>1 DEF SuccsInv, Held
<1>5. /\ taken' \subseteq Nodes /\ remaining' \in 0 .. UsizeMod - 1
      /\ UNCHANGED <<graph, branches, depCount, queue, fired, control>>
  BY <1>1 DEF TypesInv, shared
<1> HIDE DEF job
<1>6. jobs' = [jobs EXCEPT ![i] = job]
  BY DEF job
<1>7. finished' = finished \cup (IF job.pc \in Visited THEN {job.task} ELSE {})
  BY <1>2, <1>3 DEF Visited
<1> QED BY <1>1, <1>3, <1>4, <1>5, <1>6, <1>7, ScheduleMove DEF Held, Visited

LEMMA ScheduleRun ==
  ASSUME NoSubflows, NoRepeats, ScheduleInv, NEW i \in DOMAIN jobs,
         RunClosure(i) \/ RunCondition(i) \/ RunPanicking(i)
  PROVE  ScheduleInv'
<1>1. /\ TypesInv /\ FlowInv /\ SuccsInv /\ jobs[i].task \in Nodes /\ jobs[i] \in Job
      /\ jobs \in Seq(Job) /\ jobs[i].branch \in 0 .. NoBranch
      /\ jobs[i].work \in {NoWork} \cup {graph[p].work : p \in Nodes}
  BY JobFacts DEF ScheduleInv
<1>2. CASE RunClosure(i)
  <2>1. jobs' = [jobs EXCEPT ![i] = [jobs[i] EXCEPT !.pc = "decrement",
                                                    !.branch = jobs[i].branch]]
    BY <1>1, <1>2 DEF RunClosure, Job
  <2> QED BY <1>1, <1>2, <2>1, ScheduleVisit DEF RunClosure
<1>3. CASE RunCondition(i)
  <2>1. PICK b \in jobs[i].work.returns :
          jobs' = [jobs EXCEPT ![i].pc = "decrement", ![i].branch = b]
    BY <1>3 DEF RunCondition
  <2>2. b \in 0 .. NoBranch
    <3>1. jobs[i].work.kind = "condition" /\ NoWork.kind # "condition"
      BY <1>3 DEF RunCondition, NoWork
    <3>2. PICK p \in Nodes : jobs[i].work = graph[p].work
      BY <1>1, <3>1
    <3>3. b \in 0 .. UsizeMod - 1
      BY <1>1, <2>1, <3>1, <3>2, GraphFacts
    <3> QED BY <3>3, AsyncAssumption DEF NoBranch
  <2>3. jobs' = [jobs EXCEPT ![i] = [jobs[i] EXCEPT !.pc = "decrement", !.branch = b]]
    BY <1>1, <2>1
  <2> QED BY <1>3, <2>2, <2>3, ScheduleVisit DEF RunCondition
<1>4. CASE RunPanicking(i)
  <2> DEFINE job == [jobs[i] EXCEPT !.pc = "panicked"]
  <2>1. job \in Job /\ job.task = jobs[i].task /\ job.pc = "panicked"
    BY <1>1 DEF Job
  <2>2. /\ taken' \subseteq Nodes /\ remaining' \in 0 .. UsizeMod - 1
        /\ UNCHANGED <<graph, branches, depCount, queue, fired, finished, control>>
        /\ jobs[i].pc = "run"
    BY <1>1, <1>4 DEF TypesInv, shared, history, RunPanicking
  <2>3. jobs' = [jobs EXCEPT ![i] = job]
    BY <1>4 DEF RunPanicking
  <2> HIDE DEF job
  <2> QED BY <1>1, <2>1, <2>2, <2>3, ScheduleMove DEF Held, Visited
<1> QED BY <1>2, <1>3, <1>4

\* Wrapping subtraction stays within the machine word.
LEMMA MinusType ==
  ASSUME NEW n \in 0 .. UsizeMod - 1, NEW k \in 0 .. UsizeMod - 1
  PROVE  Minus(n, k) \in 0 .. UsizeMod - 1
BY AsyncAssumption DEF Minus

LEMMA ScheduleDecrement ==
  ASSUME ScheduleInv, NEW i \in DOMAIN jobs, Decrement(i)
  PROVE  ScheduleInv'
<1> DEFINE label == IF jobs[i].branch # NoBranch /\ jobs[i].task \in DOMAIN branches
                    THEN "select" ELSE "lockDeps"
<1> DEFINE job == [jobs[i] EXCEPT !.pc = label]
<1>1. /\ TypesInv /\ SuccsInv /\ PlacesInv /\ jobs[i] \in Job /\ jobs \in Seq(Job)
      /\ jobs[i].pc = "decrement"
  BY JobFacts DEF ScheduleInv, Decrement
<1>2. /\ job \in Job /\ job.task = jobs[i].task /\ job.pc = label /\ job.succs = jobs[i].succs
  BY <1>1 DEF Job, Held
<1>3. jobs' = [jobs EXCEPT ![i] = job]
  BY DEF Decrement
<1>4. /\ IsInjective(jobs[i].succs) /\ ToSet(jobs[i].succs) \subseteq graph[jobs[i].task].succ
      /\ jobs[i].task \notin DOMAIN branches =>
           \A s \in graph[jobs[i].task].succ :
             s \in ToSet(jobs[i].succs) \/ <<jobs[i].task, s>> \in fired
  BY <1>1 DEF SuccsInv, Held, Visited
<1>5. remaining' \in 0 .. UsizeMod - 1
  <2>1. remaining' = Minus(remaining, 1) /\ remaining \in 0 .. UsizeMod - 1
    BY <1>1 DEF Decrement, TypesInv
  <2> QED BY <2>1, AsyncAssumption DEF Minus
<1>6. /\ taken' \subseteq Nodes
      /\ UNCHANGED <<graph, branches, depCount, queue, fired, finished, control>>
  BY <1>1 DEF Decrement, TypesInv, history
<1>7. jobs[i].task \in finished
  BY <1>1 DEF PlacesInv, At, Visited
<1>8. label \in {"select", "lockDeps"} /\ (label = "select" => jobs[i].task \in DOMAIN branches)
  OBVIOUS
<1> HIDE DEF job, label
<1> QED BY <1>1, <1>2, <1>3, <1>4, <1>5, <1>6, <1>7, <1>8, ScheduleMove DEF Held, Visited

\* The number of tasks behind the branches not taken is a number.
LEMMA UnreachableType ==
  ASSUME NoSubflows, NoRepeats, FlowInv, NEW c \in DOMAIN branches, NEW b
  PROVE  UnreachableCount(c, b) \in Nat
<1> DEFINE others == DOMAIN branches[c] \ {b}
<1> DEFINE reached == UNION {{o} \X Reachable(ToSet(branches[c][o])) : o \in others}
<1>1. /\ IsFiniteSet(others) /\ IsFiniteSet(Nodes)
      /\ \A p \in Nodes : graph[p].succ \subseteq Nodes
      /\ \A o \in others : branches[c][o] \in Seq(graph[c].succ)
      /\ c \in Nodes
  BY GraphFacts, FS_Subset
<1>2. ASSUME NEW o \in others PROVE Reachable(ToSet(branches[c][o])) \subseteq Nodes
  <2>1. ToSet(branches[c][o]) \subseteq Nodes
    <3>1. branches[c][o] \in Seq(Nodes)
      BY <1>1, <1>2, SeqMonotonic
    <3> QED BY <3>1, LenProperties DEF ToSet
  <2>2. UNION {graph[p].succ : p \in DOMAIN graph} \subseteq Nodes
    BY <1>1 DEF Nodes
  <2> QED BY <2>1, <2>2 DEF Reachable
<1>3. reached \subseteq others \X Nodes
  BY <1>2
<1>4. IsFiniteSet(others \X Nodes)
  BY <1>1, FS_Product
<1> QED BY <1>3, <1>4, FS_Subset, FS_CardinalityType DEF UnreachableCount

LEMMA ScheduleSelect ==
  ASSUME NoSubflows, NoRepeats, ScheduleInv, NEW i \in DOMAIN jobs, SelectBranch(i)
  PROVE  ScheduleInv'
<1> DEFINE t == jobs[i].task
<1> DEFINE b == jobs[i].branch
<1> DEFINE chosen == IF b \in DOMAIN branches[t] THEN branches[t][b] ELSE jobs[i].succs
<1> DEFINE job == [jobs[i] EXCEPT !.pc = "lockDeps", !.succs = chosen]
<1>1. /\ TypesInv /\ FlowInv /\ PlacesInv /\ jobs[i] \in Job /\ jobs \in Seq(Job)
      /\ t \in Nodes /\ jobs[i].succs \in Seq(Nodes)
      /\ jobs[i].pc = "select" /\ t \in DOMAIN branches
      /\ IsInjective(jobs[i].succs) /\ ToSet(jobs[i].succs) \subseteq graph[t].succ
  BY JobFacts DEF ScheduleInv, SuccsInv, SelectBranch, Held
<1>2. chosen \in Seq(Nodes) /\ IsInjective(chosen) /\ ToSet(chosen) \subseteq graph[t].succ
  <2>1. CASE b \in DOMAIN branches[t]
    <3>1. /\ branches[t][b] \in Seq(graph[t].succ) /\ IsInjective(branches[t][b])
          /\ graph[t].succ \subseteq Nodes
      BY <1>1, <2>1, GraphFacts
    <3>2. branches[t][b] \in Seq(Nodes)
      BY <3>1, SeqMonotonic
    <3>3. ToSet(branches[t][b]) \subseteq graph[t].succ
      BY <3>1, LenProperties DEF ToSet
    <3> QED BY <2>1, <3>1, <3>2, <3>3
  <2>2. CASE b \notin DOMAIN branches[t]
    BY <1>1, <2>2
  <2> QED BY <2>1, <2>2
<1> HIDE DEF chosen
<1>3. job \in Job /\ job.task = t /\ job.pc = "lockDeps" /\ job.succs = chosen
  BY <1>1, <1>2 DEF Job, Held
<1>4. jobs' = [jobs EXCEPT ![i] = job]
  BY <1>1 DEF SelectBranch, chosen
<1>5. remaining' \in 0 .. UsizeMod - 1
  <2>1. UnreachableCount(t, b) \in Nat
    BY <1>1, UnreachableType
  <2>2. UnreachableCount(t, b) % UsizeMod \in 0 .. UsizeMod - 1
    BY <2>1, AsyncAssumption
  <2>3. remaining \in 0 .. UsizeMod - 1
    BY <1>1 DEF TypesInv
  <2> QED BY <2>2, <2>3, MinusType DEF SelectBranch
<1>6. /\ taken' \subseteq Nodes
      /\ UNCHANGED <<graph, branches, depCount, queue, fired, finished, control>>
  BY <1>1 DEF SelectBranch, TypesInv, history
<1>7. t \in finished
  BY <1>1 DEF PlacesInv, At, Visited
<1> HIDE DEF job
<1> QED BY <1>1, <1>2, <1>3, <1>4, <1>5, <1>6, <1>7, ScheduleMove DEF Held, Visited

LEMMA ScheduleLockOrEnd ==
  ASSUME ScheduleInv, NEW i \in DOMAIN jobs, LockDeps(i) \/ EndJob(i)
  PROVE  ScheduleInv'
<1>1. /\ TypesInv /\ SuccsInv /\ PlacesInv /\ jobs[i] \in Job /\ jobs \in Seq(Job)
      /\ jobs[i].task \in Nodes /\ jobs[i].succs \in Seq(Nodes)
      /\ jobs[i].pc \in {"lockDeps", "release"}
  BY JobFacts DEF ScheduleInv, LockDeps, EndJob
<1>2. /\ IsInjective(jobs[i].succs) /\ ToSet(jobs[i].succs) \subseteq graph[jobs[i].task].succ
      /\ jobs[i].task \notin DOMAIN branches =>
           \A s \in graph[jobs[i].task].succ :
             s \in ToSet(jobs[i].succs) \/ <<jobs[i].task, s>> \in fired
  BY <1>1 DEF SuccsInv, Held, Visited
<1>3. jobs[i].task \in finished
  BY <1>1 DEF PlacesInv, At, Visited
<1>4. /\ taken' \subseteq Nodes /\ remaining' \in 0 .. UsizeMod - 1
      /\ UNCHANGED <<graph, branches, depCount, queue, fired, finished, control>>
  BY <1>1 DEF LockDeps, EndJob, TypesInv, shared, history
<1>5. CASE LockDeps(i)
  <2> DEFINE job == [jobs[i] EXCEPT !.pc = "release"]
  <2>1. /\ job \in Job /\ job.task = jobs[i].task /\ job.pc = "release"
        /\ job.succs = jobs[i].succs
    BY <1>1 DEF Job, Held
  <2>2. jobs' = [jobs EXCEPT ![i] = job] /\ jobs[i].pc = "lockDeps"
    BY <1>5 DEF LockDeps
  <2> HIDE DEF job
  <2> QED BY <1>1, <1>2, <1>3, <1>4, <2>1, <2>2, ScheduleMove DEF Held, Visited
<1>6. CASE EndJob(i)
  <2> DEFINE job == [NewJob(jobs[i].task) EXCEPT !.pc = "ended"]
  <2>1. job \in Job /\ job.task = jobs[i].task /\ job.pc = "ended" /\ job.succs = <<>>
    <3>1. NoBranch \in 0 .. NoBranch
      BY AsyncAssumption DEF NoBranch
    <3> QED BY <1>1, <3>1, EmptyFacts DEF Job, NewJob
  <2>2. jobs' = [jobs EXCEPT ![i] = job] /\ jobs[i].succs = <<>> /\ jobs[i].pc = "release"
    BY <1>6 DEF EndJob
  <2> HIDE DEF job
  <2> QED BY <1>1, <1>2, <1>3, <1>4, <2>1, <2>2, ScheduleMove DEF Held, Visited
<1> QED BY <1>5, <1>6

-----------------------------------------------------------------------------
(* The scheduling invariant: the release of a successor.                   *)

\* What the release of one successor does to the dependency counts.
LEMMA ReleaseFacts ==
  ASSUME NoSubflows, NoRepeats, ScheduleInv, NEW i \in DOMAIN jobs, ReleaseOne(i)
  PROVE  \E t, s \in Nodes :
           /\ t = jobs[i].task /\ s = Head(jobs[i].succs)
           /\ s \in graph[t].succ /\ s \in ToSet(jobs[i].succs)
           /\ Tail(jobs[i].succs) \in Seq(Nodes) /\ IsInjective(Tail(jobs[i].succs))
           /\ ToSet(Tail(jobs[i].succs)) = ToSet(jobs[i].succs) \ {s}
           /\ fired' = fired \cup {<<t, s>>}
           /\ t \in Unreleased(s) /\ Unreleased(s)' = Unreleased(s) \ {t}
           /\ \A u \in Nodes \ {s} : Unreleased(u)' = Unreleased(u)
           /\ depCount' \in [Nodes -> 0 .. UsizeMod - 1]
           /\ \A u \in Nodes : depCount'[u] = Cardinality(Unreleased(u)')
           /\ queue' = IF Unreleased(s)' = {} THEN Append(queue, s) ELSE queue
<1>0. PICK t, s : t = jobs[i].task /\ s = Head(jobs[i].succs)
  OBVIOUS
<1>1. /\ TypesInv /\ FlowInv /\ SuccsInv /\ CountInv /\ t \in Nodes
      /\ jobs[i].succs \in Seq(Nodes) /\ jobs[i].pc = "release" /\ jobs[i].succs # <<>>
      /\ IsInjective(jobs[i].succs) /\ ToSet(jobs[i].succs) \subseteq graph[t].succ
      /\ depCount \in [Nodes -> 0 .. UsizeMod - 1]
  BY <1>0, JobFacts DEF ScheduleInv, SuccsInv, TypesInv, ReleaseOne, Held
<1>2. /\ s \in ToSet(jobs[i].succs) /\ s \in Nodes /\ s \in graph[t].succ
      /\ Tail(jobs[i].succs) \in Seq(Nodes) /\ IsInjective(Tail(jobs[i].succs))
      /\ ToSet(Tail(jobs[i].succs)) = ToSet(jobs[i].succs) \ {s}
  BY <1>0, <1>1, TailFacts
<1>3. /\ depCount' = [depCount EXCEPT ![s] = Minus(depCount[s], 1)]
      /\ queue' = IF depCount[s] = 1 THEN Append(queue, s) ELSE queue
      /\ fired' = fired \cup {<<t, s>>} /\ graph' = graph
  BY <1>0, <1>1, <1>2 DEF ReleaseOne
<1>4. <<t, s>> \notin fired
  BY <1>0, <1>1, <1>2 DEF CountInv, Held
<1>5. /\ IsFiniteSet(graph[s].deps) /\ t \in graph[s].deps
  BY <1>1, <1>2, GraphFacts
<1>6. t \in Unreleased(s) /\ Unreleased(s)' = Unreleased(s) \ {t}
  <2>1. \A d : <<d, s>> \in fired' <=> <<d, s>> \in fired \/ d = t
    BY <1>3
  <2> QED BY <1>3, <1>4, <1>5, <2>1 DEF Unreleased
<1>7. ASSUME NEW u \in Nodes \ {s} PROVE Unreleased(u)' = Unreleased(u)
  BY <1>3 DEF Unreleased
<1>8. /\ Cardinality(Unreleased(s)') = depCount[s] - 1 /\ depCount[s] - 1 \in Nat
      /\ depCount[s] = 1 <=> Unreleased(s)' = {}
  <2>1. IsFiniteSet(Unreleased(s))
    BY <1>5, FS_Subset DEF Unreleased
  <2>2. depCount[s] = Cardinality(Unreleased(s)) /\ depCount[s] \in 0 .. UsizeMod - 1
    BY <1>1, <1>2 DEF CountInv
  <2>3. IsFiniteSet(Unreleased(s) \ {t}) /\ Cardinality(Unreleased(s) \ {t}) = depCount[s] - 1
    <3>1. t \in Unreleased(s)
      BY <1>6
    <3> QED BY <2>1, <2>2, <3>1, FS_RemoveElement
  <2>4. depCount[s] - 1 \in Nat
    BY <2>3, FS_CardinalityType
  <2>5. depCount[s] - 1 = 0 <=> Unreleased(s) \ {t} = {}
    BY <2>3, FS_EmptySet
  <2>6. Cardinality(Unreleased(s)') = depCount[s] - 1
    BY <1>6, <2>3
  <2>7. depCount[s] = 1 <=> Unreleased(s)' = {}
    BY <1>6, <2>2, <2>5, AsyncAssumption
  <2> QED BY <2>4, <2>6, <2>7
<1>9. depCount'[s] = depCount[s] - 1 /\ depCount[s] - 1 \in 0 .. UsizeMod - 1
  BY <1>1, <1>2, <1>3, <1>8, AsyncAssumption DEF Minus
<1>10. \A u \in Nodes \ {s} : depCount'[u] = depCount[u]
  BY <1>1, <1>3
<1>11. depCount' \in [Nodes -> 0 .. UsizeMod - 1]
  <2>1. DOMAIN depCount' = Nodes /\ depCount' = [u \in Nodes |-> depCount'[u]]
    BY <1>1, <1>3
  <2> QED BY <1>1, <1>9, <1>10, <2>1
<1>12. \A u \in Nodes : depCount'[u] = Cardinality(Unreleased(u)')
  BY <1>1, <1>7, <1>8, <1>9, <1>10 DEF CountInv
<1> QED BY <1>0, <1>1, <1>2, <1>3, <1>6, <1>7, <1>8, <1>11, <1>12

LEMMA ScheduleRelease ==
  ASSUME NoSubflows, NoRepeats, ScheduleInv, NEW i \in DOMAIN jobs, ReleaseOne(i)
  PROVE  ScheduleInv'
<1> DEFINE job == [jobs[i] EXCEPT !.succs = Tail(jobs[i].succs)]
<1>1. PICK t, s \in Nodes :
      /\ t = jobs[i].task /\ s = Head(jobs[i].succs)
      /\ s \in graph[t].succ /\ s \in ToSet(jobs[i].succs)
      /\ Tail(jobs[i].succs) \in Seq(Nodes) /\ IsInjective(Tail(jobs[i].succs))
      /\ ToSet(Tail(jobs[i].succs)) = ToSet(jobs[i].succs) \ {s}
      /\ fired' = fired \cup {<<t, s>>}
      /\ t \in Unreleased(s) /\ Unreleased(s)' = Unreleased(s) \ {t}
      /\ \A u \in Nodes \ {s} : Unreleased(u)' = Unreleased(u)
      /\ depCount' \in [Nodes -> 0 .. UsizeMod - 1]
      /\ \A u \in Nodes : depCount'[u] = Cardinality(Unreleased(u)')
      /\ queue' = IF Unreleased(s)' = {} THEN Append(queue, s) ELSE queue
  BY ReleaseFacts
<1>2. /\ FlowInv /\ TypesInv /\ SuccsInv /\ CountInv /\ PlacesInv /\ DriverInv
      /\ jobs \in Seq(Job) /\ jobs[i] \in Job /\ jobs[i].pc = "release"
      /\ queue \in Seq(Nodes) /\ IsInjective(queue)
  BY JobFacts DEF ScheduleInv, TypesInv, PlacesInv, ReleaseOne
<1>3. /\ jobs' = [jobs EXCEPT ![i] = job]
      /\ UNCHANGED <<graph, branches, taken, remaining, joinSet, driver, finished>>
  BY <1>2 DEF ReleaseOne, control
<1>4. /\ job \in Job /\ job.task = t /\ job.pc = "release"
      /\ job.succs = Tail(jobs[i].succs)
  BY <1>1, <1>2 DEF Job
<1> HIDE DEF job
<1>5. /\ jobs' \in Seq(Job') /\ DOMAIN jobs' = DOMAIN jobs
      /\ jobs'[i] = job /\ \A j \in DOMAIN jobs \ {i} : jobs'[j] = jobs[j]
      /\ \A j \in DOMAIN jobs : jobs'[j].task = jobs[j].task
      /\ Spawned' = Spawned
  BY <1>1, <1>2, <1>3, <1>4, JobMoves
<1>6. \A j \in DOMAIN jobs : jobs'[j].pc = jobs[j].pc
  BY <1>2, <1>4, <1>5
<1>7. t \in finished
  BY <1>1, <1>2 DEF PlacesInv, At, Visited
<1>8. /\ s \notin ToSet(queue) \cup Spawned
      /\ queue' \in Seq(Nodes) /\ IsInjective(queue')
      /\ ToSet(queue') = ToSet(queue) \cup (IF Unreleased(s)' = {} THEN {s} ELSE {})
  <2>1. s \notin ToSet(queue) \cup Spawned
    BY <1>1, <1>2 DEF PlacesInv
  <2>2. CASE Unreleased(s)' = {}
    BY <1>1, <1>2, <2>1, <2>2, AppendFacts
  <2>3. CASE Unreleased(s)' # {}
    BY <1>1, <1>2, <2>1, <2>3
  <2> QED BY <2>1, <2>2, <2>3
<1>9. Nodes' = Nodes
  BY <1>3 DEF Nodes
<1>10. FlowInv'
  BY <1>2, <1>3 DEF FlowInv
<1>11. TypesInv'
  <2>1. fired' \subseteq Nodes \X Nodes
    BY <1>1, <1>2 DEF TypesInv
  <2> QED BY <1>1, <1>2, <1>3, <1>5, <1>8, <1>9, <2>1 DEF TypesInv
<1>12. SuccsInv'
  <2> SUFFICES ASSUME NEW j \in DOMAIN jobs
               PROVE  /\ jobs'[j].pc \in Held \ {"take"} =>
                           /\ IsInjective(jobs'[j].succs)
                           /\ ToSet(jobs'[j].succs) \subseteq graph[jobs'[j].task].succ
                      /\ jobs'[j].pc = "select" => jobs'[j].task \in DOMAIN branches
                      /\ jobs'[j].pc = "ended" => jobs'[j].succs = <<>>
                      /\ jobs'[j].pc \in {"run"} \cup Visited
                           /\ jobs'[j].task \notin DOMAIN branches =>
                             \A u \in graph[jobs'[j].task].succ :
                               u \in ToSet(jobs'[j].succs) \/ <<jobs'[j].task, u>> \in fired'
    BY <1>3, <1>5 DEF SuccsInv
  <2>1. CASE j = i
    <3>1. ToSet(jobs[i].succs) \subseteq graph[t].succ
      BY <1>1, <1>2 DEF SuccsInv, Held
    <3>2. t \notin DOMAIN branches =>
            \A u \in graph[t].succ : u \in ToSet(jobs[i].succs) \/ <<t, u>> \in fired
      BY <1>1, <1>2 DEF SuccsInv, Visited
    <3> QED BY <1>1, <1>4, <1>5, <2>1, <3>1, <3>2
  <2>2. CASE j # i
    <3>1. jobs'[j] = jobs[j]
      BY <1>5, <2>2
    <3>2. \A p : p \in fired => p \in fired'
      BY <1>1
    <3> QED BY <1>2, <3>1, <3>2 DEF SuccsInv
  <2> QED BY <2>1, <2>2
<1>13. CountInv'
  <2>1. ASSUME NEW j \in DOMAIN jobs, NEW u \in Nodes, jobs'[j].pc \in Held,
               jobs'[j].pc = "release" => u \in ToSet(jobs'[j].succs)
        PROVE  <<jobs'[j].task, u>> \notin fired'
    <3>1. CASE j = i
      <4>1. u \in ToSet(jobs[i].succs) /\ u # s
        BY <1>1, <1>4, <1>5, <2>1, <3>1
      <4>2. <<t, u>> \notin fired
        BY <1>1, <1>2, <4>1, <2>1 DEF CountInv, Held
      <4> QED BY <1>1, <1>4, <1>5, <3>1, <4>1, <4>2
    <3>2. CASE j # i
      <4>1. jobs'[j] = jobs[j] /\ jobs[j].task # t
        BY <1>1, <1>2, <1>5, <3>2 DEF PlacesInv
      <4>2. <<jobs[j].task, u>> \notin fired
        BY <1>2, <2>1, <4>1 DEF CountInv
      <4> QED BY <1>1, <4>1, <4>2
    <3> QED BY <3>1, <3>2
  <2>2. \A d, u \in Nodes : <<d, u>> \in fired' => d \in finished
    BY <1>1, <1>2, <1>7 DEF CountInv
  <2> QED BY <1>1, <1>3, <1>5, <1>9, <2>1, <2>2 DEF CountInv
<1>14. PlacesInv'
  <2>1. At(Visited)' = At(Visited)
    BY <1>5, <1>6 DEF At
  <2>2. \A u \in Nodes : Unreleased(u)' = {} <=> u \in ToSet(queue') \cup Spawned
    BY <1>1, <1>2, <1>8 DEF PlacesInv
  <2>3. ToSet(queue') \cap Spawned = {}
    BY <1>2, <1>8 DEF PlacesInv
  <2>4. \A j, k \in DOMAIN jobs : jobs'[j].task = jobs'[k].task => j = k
    BY <1>2, <1>5 DEF PlacesInv
  <2>5. finished = At(Visited)
    BY <1>2 DEF PlacesInv
  <2> QED BY <1>3, <1>5, <1>8, <1>9, <2>1, <2>2, <2>3, <2>4, <2>5 DEF PlacesInv
<1>15. DriverInv'
  <2>1. i \in joinSet
    BY <1>2 DEF DriverInv, Over
  <2>2. \A j \in DOMAIN jobs \ joinSet : jobs'[j].pc \in {"ended", "panicked"}
    BY <1>2, <1>6 DEF DriverInv, Over
  <2> QED BY <1>2, <1>3, <1>5, <2>1, <2>2 DEF DriverInv, Over
<1> QED BY <1>10, <1>11, <1>12, <1>13, <1>14, <1>15 DEF ScheduleInv

-----------------------------------------------------------------------------
(* The scheduling invariant: the driver.                                   *)

LEMMA ScheduleSpawn ==
  ASSUME ScheduleInv, Spawn
  PROVE  ScheduleInv'
<1> DEFINE t == Head(queue)
<1> DEFINE n == Len(jobs) + 1
<1>1. /\ FlowInv /\ TypesInv /\ SuccsInv /\ CountInv /\ PlacesInv /\ DriverInv
      /\ queue \in Seq(Nodes) /\ queue # <<>> /\ IsInjective(queue)
      /\ jobs \in Seq(Job)
  BY DEF ScheduleInv, TypesInv, PlacesInv, Spawn
<1>2. /\ t \in ToSet(queue) /\ t \in Nodes
      /\ Tail(queue) \in Seq(Nodes) /\ IsInjective(Tail(queue))
      /\ ToSet(Tail(queue)) = ToSet(queue) \ {t}
  BY <1>1, TailFacts
<1>3. /\ jobs' = Append(jobs, NewJob(t)) /\ joinSet' = joinSet \cup {n} /\ queue' = Tail(queue)
      /\ driver = "spawn"
      /\ UNCHANGED <<graph, branches, taken, depCount, remaining, driver, finished, fired>>
  BY DEF Spawn, history
<1>4. NewJob(t) \in Job /\ NewJob(t).task = t /\ NewJob(t).pc = "take"
  <2>1. NoBranch \in 0 .. NoBranch
    BY AsyncAssumption DEF NoBranch
  <2> QED BY <1>2, <2>1, EmptyFacts DEF Job, NewJob, Held
<1>5. /\ jobs' \in Seq(Job) /\ Len(jobs) \in Nat /\ DOMAIN jobs = 1 .. Len(jobs)
      /\ DOMAIN jobs' = 1 .. n
      /\ \A j \in DOMAIN jobs : jobs'[j] = jobs[j]
      /\ jobs'[n] = NewJob(t)
  BY <1>1, <1>3, <1>4, AppendProperties, LenProperties
<1> HIDE DEF t
<1>6. DOMAIN jobs' = DOMAIN jobs \cup {n} /\ n \notin DOMAIN jobs
  BY <1>5
<1> HIDE DEF n
<1>7. Spawned' = Spawned \cup {t}
  BY <1>4, <1>5, <1>6 DEF Spawned
<1>8. Job' = Job /\ Nodes' = Nodes /\ \A u : Unreleased(u)' = Unreleased(u)
  BY <1>3 DEF Job, Nodes, Unreleased
<1>9. /\ t \notin Spawned /\ Unreleased(t) = {} /\ t \notin finished
  <2>1. t \notin Spawned /\ Unreleased(t) = {} /\ finished = At(Visited)
    BY <1>1, <1>2 DEF PlacesInv
  <2> QED BY <2>1 DEF At, Spawned
<1>10. FlowInv'
  BY <1>1, <1>3 DEF FlowInv
<1>11. TypesInv'
  <2>1. joinSet' \subseteq DOMAIN jobs'
    BY <1>1, <1>3, <1>6 DEF TypesInv
  <2> QED BY <1>1, <1>2, <1>3, <1>5, <1>8, <2>1 DEF TypesInv
<1>12. SuccsInv'
  <2> SUFFICES ASSUME NEW j \in DOMAIN jobs \cup {n}
               PROVE  /\ jobs'[j].pc \in Held \ {"take"} =>
                           /\ IsInjective(jobs'[j].succs)
                           /\ ToSet(jobs'[j].succs) \subseteq graph[jobs'[j].task].succ
                      /\ jobs'[j].pc = "select" => jobs'[j].task \in DOMAIN branches
                      /\ jobs'[j].pc = "ended" => jobs'[j].succs = <<>>
                      /\ jobs'[j].pc \in {"run"} \cup Visited
                           /\ jobs'[j].task \notin DOMAIN branches =>
                             \A s \in graph[jobs'[j].task].succ :
                               s \in ToSet(jobs'[j].succs) \/ <<jobs'[j].task, s>> \in fired
    BY <1>3, <1>6 DEF SuccsInv
  <2>1. CASE j = n
    BY <1>4, <1>5, <2>1 DEF Visited
  <2>2. CASE j # n
    <3>1. j \in DOMAIN jobs /\ jobs'[j] = jobs[j]
      BY <1>5, <2>2
    <3> QED BY <1>1, <3>1 DEF SuccsInv
  <2> QED BY <2>1, <2>2
<1>13. CountInv'
  <2>1. ASSUME NEW j \in DOMAIN jobs \cup {n}, NEW u \in Nodes, jobs'[j].pc \in Held,
               jobs'[j].pc = "release" => u \in ToSet(jobs'[j].succs)
        PROVE  <<jobs'[j].task, u>> \notin fired
    <3>1. CASE j = n
      BY <1>1, <1>2, <1>4, <1>5, <1>9, <3>1 DEF CountInv
    <3>2. CASE j # n
      <4>1. j \in DOMAIN jobs /\ jobs'[j] = jobs[j]
        BY <1>5, <3>2
      <4> QED BY <1>1, <2>1, <4>1 DEF CountInv
    <3> QED BY <3>1, <3>2
  <2>2. \A u \in Nodes : depCount[u] = Cardinality(Unreleased(u)')
    BY <1>1, <1>8 DEF CountInv
  <2>3. \A d, u \in Nodes : <<d, u>> \in fired => d \in finished
    BY <1>1 DEF CountInv
  <2> QED BY <1>3, <1>6, <1>8, <2>1, <2>2, <2>3 DEF CountInv
<1>14. PlacesInv'
  <2>1. At(Visited)' = At(Visited)
    <3>1. ASSUME NEW u \in At(Visited)' PROVE u \in At(Visited)
      <4>1. PICK j \in DOMAIN jobs \cup {n} : jobs'[j].pc \in Visited /\ u = jobs'[j].task
        BY <1>6, <3>1 DEF At
      <4>2. j \in DOMAIN jobs /\ jobs'[j] = jobs[j]
        BY <1>4, <1>5, <4>1 DEF Visited
      <4> QED BY <4>1, <4>2 DEF At
    <3>2. ASSUME NEW u \in At(Visited) PROVE u \in At(Visited)'
      <4>1. PICK j \in DOMAIN jobs : jobs[j].pc \in Visited /\ u = jobs[j].task
        BY <3>2 DEF At
      <4>2. jobs'[j] = jobs[j] /\ j \in DOMAIN jobs'
        BY <1>5, <1>6, <4>1
      <4> QED BY <4>1, <4>2 DEF At
    <3> QED BY <3>1, <3>2
  <2>2. \A j, k \in DOMAIN jobs \cup {n} : jobs'[j].task = jobs'[k].task => j = k
    <3>1. \A j \in DOMAIN jobs : jobs'[j].task \in Spawned /\ jobs'[j].task # t
      BY <1>5, <1>9 DEF Spawned
    <3>2. jobs'[n].task = t
      BY <1>4, <1>5
    <3>3. \A j, k \in DOMAIN jobs : jobs'[j].task = jobs'[k].task => j = k
      BY <1>1, <1>5 DEF PlacesInv
    <3> QED BY <3>1, <3>2, <3>3
  <2>3. \A u \in Nodes : Unreleased(u)' = {} <=> u \in ToSet(queue') \cup Spawned'
    BY <1>1, <1>2, <1>3, <1>7, <1>8 DEF PlacesInv
  <2>4. ToSet(queue') \cap Spawned' = {} /\ IsInjective(queue')
    BY <1>1, <1>2, <1>3, <1>7 DEF PlacesInv
  <2>5. finished = At(Visited)
    BY <1>1 DEF PlacesInv
  <2> QED BY <1>3, <1>6, <1>8, <2>1, <2>2, <2>3, <2>4, <2>5 DEF PlacesInv
<1>15. DriverInv'
  <2>1. \A j \in DOMAIN jobs' \ joinSet' : j \in DOMAIN jobs \ joinSet /\ jobs'[j] = jobs[j]
    BY <1>3, <1>5, <1>6
  <2>2. \A j \in DOMAIN jobs' \ joinSet' : jobs'[j].pc \in {"ended", "panicked"}
    BY <1>1, <2>1 DEF DriverInv, Over
  <2> QED BY <1>3, <2>2 DEF DriverInv, Over
<1> QED BY <1>10, <1>11, <1>12, <1>13, <1>14, <1>15 DEF ScheduleInv

\* The other steps of the driver leave the jobs and what they share alone.
LEMMA ScheduleDriver ==
  ASSUME ScheduleInv, UNCHANGED <<shared, jobs, history>>,
         joinSet' \subseteq joinSet, \A i \in joinSet \ joinSet' : Over(i),
         driver' \in {"spawn", "join", "check", "drain", "returned"},
         driver' = "join" /\ joinSet' = {} => queue = <<>>,
         driver' = "returned" => joinSet' = {}
  PROVE  ScheduleInv'
<1> USE DEF shared, history
<1>1. /\ FlowInv /\ TypesInv /\ SuccsInv /\ CountInv /\ PlacesInv /\ DriverInv
  BY DEF ScheduleInv
<1>2. /\ Nodes' = Nodes /\ Job' = Job /\ Spawned' = Spawned
      /\ \A t : Unreleased(t)' = Unreleased(t)
      /\ At(Visited)' = At(Visited)
  BY DEF Nodes, Job, Spawned, Unreleased, At
<1>3. FlowInv'
  BY <1>1 DEF FlowInv
<1>4. TypesInv'
  BY <1>1, <1>2 DEF TypesInv
<1>5. SuccsInv'
  BY <1>1 DEF SuccsInv
<1>6. CountInv'
  BY <1>1, <1>2 DEF CountInv
<1>7. PlacesInv'
  BY <1>1, <1>2 DEF PlacesInv
<1>8. DriverInv'
  BY <1>1 DEF DriverInv, Over
<1> QED BY <1>3, <1>4, <1>5, <1>6, <1>7, <1>8 DEF ScheduleInv

-----------------------------------------------------------------------------
(* The scheduling invariant holds always.                                  *)

\* No job gets to the steps of a subflow task.
LEMMA SubflowStepsExcluded ==
  ASSUME NoSubflows, NoRepeats, ScheduleInv, NEW i \in DOMAIN jobs, SubflowStep(i)
  PROVE  FALSE
<1>1. /\ jobs[i].pc \in Held \cup {"ended", "panicked"}
      /\ jobs[i].work \in {NoWork} \cup {graph[p].work : p \in Nodes}
  BY JobFacts DEF ScheduleInv
<1>2. jobs[i].work.kind # "subflow"
  <2>1. NoWork.kind # "subflow"
    BY DEF NoWork
  <2>2. \A p \in Nodes : graph[p].work.kind # "subflow"
    BY GraphFacts DEF ScheduleInv
  <2> QED BY <1>1, <2>1, <2>2
<1> QED
  BY <1>1, <1>2 DEF SubflowStep, SubflowNextId, SubflowBase, SubflowEmplace,
     SubflowPrecede, SubflowCount, SubflowAnnounce, SubflowRegister, Held

LEMMA ScheduleStep ==
  ASSUME NoSubflows, NoRepeats, ScheduleInv, [Next]_vars
  PROVE  ScheduleInv'
<1>1. DriverInv /\ joinSet \subseteq DOMAIN jobs
      /\ driver \in {"spawn", "join", "check", "drain", "returned"}
  BY DEF ScheduleInv, TypesInv
<1>2. CASE Driver
  <2>1. CASE Spawn
    BY <2>1, ScheduleSpawn
  <2>2. CASE SpawnedAll
    BY <1>1, <2>2, ScheduleDriver DEF SpawnedAll
  <2>3. CASE Join
    BY <1>1, <2>3, ScheduleDriver DEF Join
  <2>4. CASE JoinNone
    BY <1>1, <2>4, ScheduleDriver DEF JoinNone
  <2>5. CASE Check
    BY <1>1, <2>5, ScheduleDriver DEF Check
  <2>6. CASE Drain
    BY <1>1, <2>6, ScheduleDriver DEF Drain
  <2> QED BY <1>2, <2>1, <2>2, <2>3, <2>4, <2>5, <2>6 DEF Driver
<1>3. ASSUME NEW i \in DOMAIN jobs, JobStep(i) PROVE ScheduleInv'
  BY <1>3, ScheduleTakeWork, ScheduleRun, SubflowStepsExcluded, ScheduleDecrement,
     ScheduleSelect, ScheduleLockOrEnd, ScheduleRelease DEF JobStep
<1>4. CASE UNCHANGED vars
  BY <1>1, <1>4, ScheduleDriver DEF vars, control, DriverInv
<1> QED BY <1>2, <1>3, <1>4 DEF Next, Pool, Returned

LEMMA ScheduleAlways ==
  ASSUME NoSubflows, NoRepeats
  PROVE  Spec => []ScheduleInv
<1>1. Init => ScheduleInv
  BY ScheduleInit
<1>2. ScheduleInv /\ [Next]_vars => ScheduleInv'
  BY ScheduleStep
<1> QED BY <1>1, <1>2, PTL DEF Spec

\* Type correctness of every run of run_async on flows without subflow tasks and
\* without a task twice in a branch:
\* no dependency count or task counter leaves the machine word, and the driver
\* awaits only jobs it has spawned.
THEOREM TypeCorrect ==
  ASSUME NoSubflows, NoRepeats
  PROVE  Spec => []TypeOK
<1>1. ScheduleInv => TypeOK
  <2> SUFFICES ASSUME ScheduleInv PROVE TypeOK
    OBVIOUS
  <2>1. TypesInv /\ Nodes = 1 .. Len(graph) /\ Len(graph) \in Nat
    BY GraphFacts DEF ScheduleInv
  <2>2. Nodes \subseteq Nat \ {0}
    BY <2>1
  <2>3. Seq(Nodes) \subseteq Seq(Nat \ {0})
    BY <2>2, SeqMonotonic
  <2>4. taken \subseteq Nat /\ finished \subseteq Nat /\ fired \subseteq Nat \X Nat
    BY <2>1, <2>2 DEF TypesInv
  <2>5. /\ DOMAIN depCount \subseteq Nat \ {0}
        /\ \A t \in DOMAIN depCount : depCount[t] \in 0 .. UsizeMod - 1
        /\ queue \in Seq(Nat \ {0})
    BY <2>1, <2>2, <2>3 DEF TypesInv
  <2>6. ASSUME NEW i \in DOMAIN jobs
        PROVE  /\ jobs[i].task \in Nat \ {0}
               /\ jobs[i].pc \in Executing \cup {"take", "select", "lockDeps", "release",
                                                "ended", "panicked"}
               /\ jobs[i].branch \in 0 .. NoBranch
               /\ jobs[i].succs \in Seq(Nat \ {0})
    BY <2>1, <2>2, <2>3, JobFacts DEF Held, Executing
  <2> QED BY <2>1, <2>4, <2>5, <2>6 DEF TypesInv, TypeOK
<1> QED BY <1>1, ScheduleAlways, PTL

-----------------------------------------------------------------------------
(* The counter of outstanding tasks.                                       *)

\* Where a job may go from each label, when its task is no subflow.
Transitions ==
  {<<"take", "run">>, <<"run", "decrement">>, <<"run", "panicked">>,
   <<"decrement", "select">>, <<"decrement", "lockDeps">>, <<"select", "lockDeps">>,
   <<"lockDeps", "release">>, <<"release", "release">>, <<"release", "ended">>}

Moves(i) ==
  /\ DOMAIN jobs' = DOMAIN jobs
  /\ \A j \in DOMAIN jobs \ {i} : jobs'[j] = jobs[j]
  /\ jobs'[i].task = jobs[i].task
  /\ <<jobs[i].pc, jobs'[i].pc>> \in Transitions

LEMMA StepMoves ==
  ASSUME NoSubflows, NoRepeats, ScheduleInv, NEW i \in DOMAIN jobs, JobStep(i)
  PROVE  Moves(i) /\ UNCHANGED <<graph, branches, control>>
<1>1. /\ jobs \in Seq(Job) /\ DOMAIN jobs = 1 .. Len(jobs) /\ jobs[i] \in Job
      /\ jobs[i].task \in Nodes
  BY JobFacts, LenProperties DEF ScheduleInv
<1>2. ~SubflowStep(i)
  BY SubflowStepsExcluded
<1> USE DEF Moves, Transitions, Job, shared, history
<1>3. CASE TakeWork(i)
  <2>1. PICK order : jobs' = [jobs EXCEPT ![i].pc = "run", ![i].succs = order,
                        ![i].work = IF Position(jobs[i].task) \in taken THEN NoWork
                                    ELSE graph[Position(jobs[i].task)].work]
    BY <1>3 DEF TakeWork
  <2> QED BY <1>1, <1>3, <2>1 DEF TakeWork
<1>4. CASE RunClosure(i)
  BY <1>1, <1>4 DEF RunClosure
<1>5. CASE RunCondition(i)
  <2>1. PICK b : jobs' = [jobs EXCEPT ![i].pc = "decrement", ![i].branch = b]
    BY <1>5 DEF RunCondition
  <2> QED BY <1>1, <1>5, <2>1 DEF RunCondition
<1>6. CASE RunPanicking(i)
  BY <1>1, <1>6 DEF RunPanicking
<1>7. CASE Decrement(i)
  BY <1>1, <1>7 DEF Decrement
<1>8. CASE SelectBranch(i)
  BY <1>1, <1>8 DEF SelectBranch
<1>9. CASE LockDeps(i)
  BY <1>1, <1>9 DEF LockDeps
<1>10. CASE ReleaseOne(i)
  BY <1>1, <1>10 DEF ReleaseOne
<1>11. CASE EndJob(i)
  BY <1>1, <1>11 DEF EndJob, NewJob
<1> QED
  BY <1>2, <1>3, <1>4, <1>5, <1>6, <1>7, <1>8, <1>9, <1>10, <1>11 DEF JobStep, SubflowStep

\* The tasks of the jobs at some labels, after one job has moved.
LEMMA AtMoves ==
  ASSUME ScheduleInv, NEW i \in DOMAIN jobs, Moves(i), NEW labels
  PROVE  At(labels)' = IF jobs'[i].pc \in labels THEN At(labels) \cup {jobs[i].task}
                       ELSE At(labels) \ {jobs[i].task}
<1>1. \A j \in DOMAIN jobs \ {i} : jobs[j].task # jobs[i].task
  BY DEF ScheduleInv, PlacesInv
<1>2. /\ DOMAIN jobs' = DOMAIN jobs /\ jobs'[i].task = jobs[i].task
      /\ \A j \in DOMAIN jobs \ {i} : jobs'[j] = jobs[j]
  BY DEF Moves
<1>3. \A t : t \in At(labels) <=> \E j \in DOMAIN jobs : jobs[j].pc \in labels /\ jobs[j].task = t
  BY DEF At
<1>4. \A t : t \in At(labels)' <=>
        \E j \in DOMAIN jobs : jobs'[j].pc \in labels /\ jobs'[j].task = t
  BY <1>2 DEF At
<1>5. ASSUME NEW t, t # jobs[i].task PROVE t \in At(labels)' <=> t \in At(labels)
  BY <1>2, <1>3, <1>4, <1>5
<1>6. jobs[i].task \in At(labels)' <=> jobs'[i].pc \in labels
  BY <1>1, <1>2, <1>4
<1> QED BY <1>5, <1>6

\* A task is at the labels of its job.
LEMMA AtFacts ==
  ASSUME ScheduleInv, NEW i \in DOMAIN jobs
  PROVE  \A labels : jobs[i].task \in At(labels) <=> jobs[i].pc \in labels
BY DEF ScheduleInv, PlacesInv, At

\* A job starts before its work is taken.
LEMMA AtSpawn ==
  ASSUME ScheduleInv, Spawn, NEW labels, "take" \notin labels
  PROVE  At(labels)' = At(labels)
<1>1. /\ jobs' = Append(jobs, NewJob(Head(queue))) /\ jobs \in Seq(Job)
      /\ queue \in Seq(Nodes) /\ queue # <<>>
  BY DEF Spawn, ScheduleInv, TypesInv
<1>2. NewJob(Head(queue)) \in Job /\ NewJob(Head(queue)).pc = "take"
  <2>1. Head(queue) \in Nodes /\ NoBranch \in 0 .. NoBranch
    BY <1>1, HeadTailProperties, AsyncAssumption DEF NoBranch
  <2> QED BY <2>1, EmptyFacts DEF Job, NewJob, Held
<1>3. /\ Len(jobs) \in Nat /\ DOMAIN jobs = 1 .. Len(jobs)
      /\ DOMAIN jobs' = 1 .. Len(jobs) + 1
      /\ \A j \in DOMAIN jobs : jobs'[j] = jobs[j]
      /\ jobs'[Len(jobs) + 1].pc = "take"
  BY <1>1, <1>2, AppendProperties, LenProperties
<1>4. \A j \in DOMAIN jobs' : jobs'[j].pc \in labels => j \in DOMAIN jobs
  BY <1>3
<1> QED BY <1>3, <1>4 DEF At

-----------------------------------------------------------------------------
(* The choice of a condition.                                              *)

LEMMA ChoiceInit ==
  ASSUME Init
  PROVE  ChoiceInv
<1>1. PICK flow \in Flows :
        /\ branches = flow.branches
        /\ taken = IF flow.spent THEN DOMAIN flow.graph ELSE {}
  BY DEF Init
<1>2. DOMAIN jobs = {}
  BY EmptySeq DEF Init
<1>3. Foreseen => DOMAIN branches \cap taken = {}
  BY <1>1 DEF Foreseen, Decisive
<1> QED BY <1>2, <1>3 DEF ChoiceInv

LEMMA DecisionFacts ==
  ASSUME Foreseen, FlowInv
  PROVE  \A c \in DOMAIN branches :
           /\ graph[c].work.kind \in {"condition", "faulty"}
           /\ graph[c].work.kind = "condition" =>
                graph[c].work.returns \subseteq DOMAIN branches[c] \ {NoBranch}
<1>1. PICK flow \in Flows : graph = flow.graph /\ branches = flow.branches
  BY DEF FlowInv
<1>2. WellFormed(flow) /\ UsizeMod \in Nat
  BY AsyncAssumption
<1> TAKE c \in DOMAIN branches
<1>3. c \in Nodes
  BY <1>1, <1>2 DEF WellFormed, Nodes
<1>4. /\ graph[c].work.kind \in {"condition", "faulty"}
      /\ graph[c].work.kind = "condition" => graph[c].work.returns \subseteq DOMAIN branches[c]
  BY <1>1 DEF Decisive, Foreseen
<1>5. graph[c].work.kind = "condition" => graph[c].work.returns \subseteq 0 .. UsizeMod - 1
  BY <1>1, <1>2, <1>3 DEF WellFormed, Nodes
<1>6. NoBranch \notin 0 .. UsizeMod - 1
  BY <1>2 DEF NoBranch
<1> QED BY <1>4, <1>5, <1>6

\* What the step that leads to a label leaves in the job.
LEMMA ChoiceHere ==
  ASSUME NoSubflows, NoRepeats, ScheduleInv, ChoiceInv, Foreseen, NEW i \in DOMAIN jobs, JobStep(i),
         NEW t, t = jobs[i].task, t \in DOMAIN branches
  PROVE  /\ jobs'[i].pc = "run" => jobs'[i].work = graph[t].work
         /\ jobs'[i].pc \in {"decrement", "select"} =>
              jobs'[i].branch \in DOMAIN branches[t] \ {NoBranch}
<1>1. /\ jobs \in Seq(Job) /\ DOMAIN jobs = 1 .. Len(jobs) /\ jobs[i] \in Job
      /\ t \in Nodes /\ Position(t) = t
  BY JobFacts, LenProperties, GraphFacts DEF ScheduleInv
<1>2. ~SubflowStep(i) /\ <<jobs[i].pc, jobs'[i].pc>> \in Transitions
  BY SubflowStepsExcluded, StepMoves DEF Moves
<1>3. /\ jobs[i].pc = "run" => jobs[i].work = graph[t].work
      /\ jobs[i].pc \in {"decrement", "select"} =>
           jobs[i].branch \in DOMAIN branches[t] \ {NoBranch}
  BY DEF ChoiceInv
<1>4. CASE TakeWork(i)
  <2>1. jobs[i].pc = "take"
    BY <1>4 DEF TakeWork
  <2>2. t \notin taken
    <3> SUFFICES ASSUME t \in taken PROVE FALSE
      OBVIOUS
    <3>1. PICK j \in DOMAIN jobs : jobs[j].task = t /\ jobs[j].pc # "take"
      BY DEF ChoiceInv
    <3> QED BY <2>1, <3>1 DEF ScheduleInv, PlacesInv
  <2>3. PICK order : jobs' = [jobs EXCEPT ![i].pc = "run", ![i].succs = order,
                                          ![i].work = graph[t].work]
    BY <1>1, <1>4, <2>2 DEF TakeWork
  <2> QED BY <1>1, <2>3 DEF Job
<1>5. CASE RunClosure(i)
  BY <1>3, <1>5, DecisionFacts DEF RunClosure, ScheduleInv
<1>6. CASE RunCondition(i)
  <2>1. jobs[i].pc = "run" /\ jobs[i].work.kind = "condition"
    BY <1>6 DEF RunCondition
  <2>2. jobs[i].work.returns \subseteq DOMAIN branches[t] \ {NoBranch}
    BY <1>3, <2>1, DecisionFacts DEF ScheduleInv
  <2>3. PICK b \in jobs[i].work.returns : jobs' = [jobs EXCEPT ![i].pc = "decrement", ![i].branch = b]
    BY <1>6 DEF RunCondition
  <2>4. jobs'[i].branch = b /\ jobs'[i].pc = "decrement"
    BY <1>1, <2>3 DEF Job
  <2> QED BY <2>2, <2>4
<1>7. CASE Decrement(i)
  <2>1. jobs[i].pc = "decrement" /\ jobs'[i].branch = jobs[i].branch
    BY <1>1, <1>7 DEF Decrement, Job
  <2> QED BY <1>2, <1>3, <2>1 DEF Transitions
<1>8. CASE RunPanicking(i)
  <2>1. jobs'[i].pc = "panicked"
    BY <1>1, <1>8 DEF RunPanicking, Job
  <2> QED BY <2>1
<1>9. CASE SelectBranch(i) \/ LockDeps(i) \/ ReleaseOne(i) \/ EndJob(i)
  <2>1. jobs[i].pc \in {"select", "lockDeps", "release"}
    BY <1>9 DEF SelectBranch, LockDeps, ReleaseOne, EndJob
  <2> QED BY <1>2, <2>1 DEF Transitions
<1> QED BY <1>2, <1>4, <1>5, <1>6, <1>7, <1>8, <1>9 DEF JobStep

LEMMA ChoiceJobStep ==
  ASSUME NoSubflows, NoRepeats, ScheduleInv, ChoiceInv, NEW i \in DOMAIN jobs, JobStep(i)
  PROVE  ChoiceInv'
<1> DEFINE t == jobs[i].task
<1>1. Moves(i) /\ UNCHANGED <<graph, branches>>
  BY StepMoves
<1> SUFFICES ASSUME Foreseen
             PROVE  /\ \A c \in DOMAIN branches \cap taken' :
                         \E j \in DOMAIN jobs : jobs'[j].task = c /\ jobs'[j].pc # "take"
                    /\ \A j \in DOMAIN jobs : jobs'[j].task \in DOMAIN branches =>
                         /\ jobs'[j].pc = "run" => jobs'[j].work = graph[jobs'[j].task].work
                         /\ jobs'[j].pc \in {"decrement", "select"} =>
                              jobs'[j].branch \in DOMAIN branches[jobs'[j].task] \ {NoBranch}
  <2>1. DOMAIN jobs' = DOMAIN jobs /\ (Foreseen' <=> Foreseen)
    BY <1>1 DEF Moves, Foreseen
  <2> QED BY <1>1, <2>1 DEF ChoiceInv
<1>2. /\ \A j \in DOMAIN jobs \ {i} : jobs'[j] = jobs[j]
      /\ jobs'[i].task = t /\ jobs'[i].pc # "take"
  BY <1>1 DEF Moves, Transitions
<1>3. taken' \subseteq taken \cup {t}
  <2>1. ~SubflowStep(i) /\ Position(t) = t
    BY SubflowStepsExcluded, GraphFacts, JobFacts DEF ScheduleInv
  <2> QED BY <2>1 DEF JobStep, TakeWork, RunClosure, RunCondition, RunPanicking, Decrement,
         SelectBranch, LockDeps, ReleaseOne, EndJob, shared
<1>4. ASSUME NEW c \in DOMAIN branches \cap taken'
      PROVE  \E j \in DOMAIN jobs : jobs'[j].task = c /\ jobs'[j].pc # "take"
  <2>1. CASE c = t
    BY <1>2, <2>1
  <2>2. CASE c # t
    <3>1. PICK j \in DOMAIN jobs : jobs[j].task = c /\ jobs[j].pc # "take"
      BY <1>3, <1>4, <2>2 DEF ChoiceInv
    <3> QED BY <1>2, <2>2, <3>1
  <2> QED BY <2>1, <2>2
<1>5. ASSUME NEW j \in DOMAIN jobs, jobs'[j].task \in DOMAIN branches
      PROVE  /\ jobs'[j].pc = "run" => jobs'[j].work = graph[jobs'[j].task].work
             /\ jobs'[j].pc \in {"decrement", "select"} =>
                  jobs'[j].branch \in DOMAIN branches[jobs'[j].task] \ {NoBranch}
  <2>1. CASE j = i
    BY <1>2, <1>5, <2>1, ChoiceHere
  <2>2. CASE j # i
    BY <1>2, <1>5, <2>2 DEF ChoiceInv
  <2> QED BY <2>1, <2>2
<1> QED BY <1>4, <1>5

\* A new job is before everything.
LEMMA SpawnFacts ==
  ASSUME ScheduleInv, Spawn
  PROVE  /\ DOMAIN jobs \subseteq DOMAIN jobs'
         /\ \A j \in DOMAIN jobs : jobs'[j] = jobs[j]
         /\ \A j \in DOMAIN jobs' \ DOMAIN jobs : jobs'[j].pc = "take"
<1>1. jobs' = Append(jobs, NewJob(Head(queue))) /\ jobs \in Seq(Job) /\ queue \in Seq(Nodes)
      /\ queue # <<>>
  BY DEF Spawn, ScheduleInv, TypesInv
<1>2. NewJob(Head(queue)) \in Job /\ NewJob(Head(queue)).pc = "take"
  <2>1. Head(queue) \in Nodes /\ NoBranch \in 0 .. NoBranch
    BY <1>1, HeadTailProperties, AsyncAssumption DEF NoBranch
  <2> QED BY <2>1, EmptyFacts DEF Job, NewJob, Held
<1>3. /\ Len(jobs) \in Nat /\ DOMAIN jobs = 1 .. Len(jobs)
      /\ DOMAIN jobs' = 1 .. Len(jobs) + 1
      /\ \A j \in DOMAIN jobs : jobs'[j] = jobs[j]
      /\ jobs'[Len(jobs) + 1].pc = "take"
  BY <1>1, <1>2, AppendProperties, LenProperties
<1>4. \A j \in DOMAIN jobs' \ DOMAIN jobs : j = Len(jobs) + 1
  BY <1>3
<1> QED BY <1>3, <1>4

LEMMA ChoiceStep ==
  ASSUME NoSubflows, NoRepeats, ScheduleInv, ChoiceInv, [Next]_vars
  PROVE  ChoiceInv'
<1>1. ASSUME NEW i \in DOMAIN jobs, JobStep(i) PROVE ChoiceInv'
  BY <1>1, ChoiceJobStep
<1>2. CASE Spawn
  <2>1. UNCHANGED <<graph, branches, taken>> /\ (Foreseen' <=> Foreseen)
    BY <1>2 DEF Spawn, Foreseen
  <2>2. /\ DOMAIN jobs \subseteq DOMAIN jobs'
        /\ \A j \in DOMAIN jobs : jobs'[j] = jobs[j]
        /\ \A j \in DOMAIN jobs' \ DOMAIN jobs : jobs'[j].pc = "take"
    BY <1>2, SpawnFacts
  <2> QED BY <2>1, <2>2 DEF ChoiceInv
<1>3. CASE UNCHANGED <<shared, jobs>>
  BY <1>3 DEF ChoiceInv, Foreseen, shared
<1>4. CASE SpawnedAll \/ Join \/ JoinNone \/ Check \/ Drain \/ UNCHANGED vars
  BY <1>3, <1>4 DEF SpawnedAll, Join, JoinNone, Check, Drain, vars
<1> QED BY <1>1, <1>2, <1>4 DEF Next, Driver, Pool, Returned

-----------------------------------------------------------------------------
(* The branches that are not taken.                                        *)

\* Reach is the least set of nodes closed under successors, and it is what
\* count_reachable_tasks visits.
LEMMA ReachFacts ==
  ASSUME NoSubflows, NoRepeats, FlowInv, NEW start \in SUBSET Nodes
  PROVE  /\ Reachable(start) = Reach(graph, start)
         /\ Reach(graph, start) \subseteq Nodes
         /\ \A S \in SUBSET Nodes :
              start \subseteq S /\ (\A p \in S : graph[p].succ \subseteq S)
                => Reach(graph, start) \subseteq S
<1>1. \A p \in Nodes : Position(p) = p /\ graph[p].succ \subseteq Nodes
  BY GraphFacts
<1>2. \A p \in Nodes : Successors(p) = graph[p].succ
  BY <1>1 DEF Successors, Nodes
<1> DEFINE all == start \cup UNION {graph[p].succ : p \in DOMAIN graph}
<1>3. all \subseteq Nodes /\ \A p \in Nodes : graph[p].succ \subseteq all
  BY <1>1 DEF Nodes
<1>4. Reachable(start) =
        {t \in all : \A S \in SUBSET all :
           start \subseteq S /\ (\A p \in S : Successors(p) \subseteq S) => t \in S}
  BY DEF Reachable
<1>5. Reach(graph, start) =
        {t \in Nodes : \A S \in SUBSET Nodes :
           start \subseteq S /\ (\A p \in S : graph[p].succ \subseteq S) => t \in S}
  BY DEF Reach, Nodes
<1>6. start \subseteq all
  OBVIOUS
<1> HIDE DEF all
<1>7. ASSUME NEW t \in Reachable(start), NEW S \in SUBSET Nodes,
             start \subseteq S, \A p \in S : graph[p].succ \subseteq S
      PROVE  t \in S
  <2>1. /\ S \cap all \in SUBSET all /\ start \subseteq S \cap all
        /\ \A p \in S \cap all : Successors(p) \subseteq S \cap all
    BY <1>2, <1>3, <1>6, <1>7
  <2> QED BY <1>4, <1>7, <2>1
<1>8. ASSUME NEW t \in Reach(graph, start), NEW S \in SUBSET all,
             start \subseteq S, \A p \in S : Successors(p) \subseteq S
      PROVE  t \in S
  <2>1. S \in SUBSET Nodes /\ \A p \in S : graph[p].succ \subseteq S
    BY <1>2, <1>3, <1>8
  <2> QED BY <1>5, <1>8, <2>1
<1>9. Reach(graph, start) \subseteq all
  <2>1. all \in SUBSET Nodes /\ \A p \in all : graph[p].succ \subseteq all
    BY <1>3
  <2> QED BY <1>5, <1>6, <2>1
<1>10. Reachable(start) \subseteq Nodes
  BY <1>3, <1>4
<1>11. Reachable(start) = Reach(graph, start)
  BY <1>4, <1>5, <1>7, <1>8, <1>9, <1>10
<1>12. ASSUME NEW S \in SUBSET Nodes, start \subseteq S, \A p \in S : graph[p].succ \subseteq S
       PROVE  Reach(graph, start) \subseteq S
  BY <1>5, <1>12
<1> QED BY <1>5, <1>11, <1>12

\* What the assumptions on flows say of the branches of a run.
LEMMA BranchFacts ==
  ASSUME NoSubflows, NoRepeats, Foreseen, FlowInv
  PROVE  \A c \in DOMAIN branches :
           /\ c \in Nodes /\ IsFiniteSet(DOMAIN branches[c])
           /\ \A o \in DOMAIN branches[c] :
                /\ ToSet(branches[c][o]) \subseteq graph[c].succ
                /\ ToSet(branches[c][o]) \in SUBSET Nodes
                /\ Reachable(ToSet(branches[c][o])) = After(c, o)
                /\ After(c, o) \subseteq Nodes
           /\ \A b, o \in DOMAIN branches[c] :
                b # o => ToSet(branches[c][b]) \cap After(c, o) = {}
           /\ \A b, o, x \in DOMAIN branches[c] :
                b # o /\ b # x /\ o # x => After(c, o) \cap After(c, x) = {}
           /\ \A d \in DOMAIN branches \ {c} :
                \A o \in DOMAIN branches[c], x \in DOMAIN branches[d] :
                  After(c, o) \cap After(d, x) # {} => d \in After(c, o) \/ c \in After(d, x)
<1>1. PICK flow \in Flows : graph = flow.graph /\ branches = flow.branches
  BY DEF FlowInv
<1> TAKE c \in DOMAIN branches
<1>2. /\ c \in Nodes /\ IsFiniteSet(DOMAIN branches[c]) /\ graph[c].succ \subseteq Nodes
      /\ \A b \in DOMAIN branches[c] : branches[c][b] \in Seq(graph[c].succ)
  BY GraphFacts
<1>3. \A o \in DOMAIN branches[c] :
         ToSet(branches[c][o]) \subseteq graph[c].succ /\ ToSet(branches[c][o]) \in SUBSET Nodes
  BY <1>2, LenProperties DEF ToSet
<1>4. \A o \in DOMAIN branches[c] :
         /\ Reachable(ToSet(branches[c][o])) = After(c, o)
         /\ After(c, o) \subseteq Nodes
  BY <1>3, ReachFacts DEF After
<1>0. Apart
  BY DEF Foreseen
<1>5. ASSUME NEW b \in DOMAIN branches[c], NEW o \in DOMAIN branches[c], b # o
      PROVE  ToSet(branches[c][b]) \cap After(c, o) = {}
  BY <1>0, <1>1, <1>5 DEF Apart, After
<1>6. ASSUME NEW b \in DOMAIN branches[c], NEW o \in DOMAIN branches[c],
             NEW x \in DOMAIN branches[c], b # o, b # x, o # x
      PROVE  After(c, o) \cap After(c, x) = {}
  BY <1>0, <1>1, <1>6 DEF Apart, After
<1>7. ASSUME NEW d \in DOMAIN branches \ {c}, NEW o \in DOMAIN branches[c],
             NEW x \in DOMAIN branches[d], After(c, o) \cap After(d, x) # {}
      PROVE  d \in After(c, o) \/ c \in After(d, x)
  BY <1>0, <1>1, <1>7 DEF Apart, After
<1> QED BY <1>2, <1>3, <1>4, <1>5, <1>6, <1>7

\* A finished task has been released by everything it depends on.
LEMMA FinishedReleased ==
  ASSUME ScheduleInv, NEW t \in finished
  PROVE  t \in Nodes /\ Unreleased(t) = {}
<1>1. PICK i \in DOMAIN jobs : jobs[i].task = t
  BY DEF ScheduleInv, PlacesInv, At
<1>2. t \in Nodes /\ t \in Spawned
  BY <1>1, JobFacts DEF ScheduleInv
<1> QED BY <1>2 DEF ScheduleInv, PlacesInv

\* Whatever is behind a task that waits for one of its dependencies waits too.
LEMMA BlockedBehind ==
  ASSUME NoSubflows, NoRepeats, ScheduleInv, NEW start \in SUBSET Nodes,
         \A s \in start : Unreleased(s) # {}
  PROVE  \A t \in Reach(graph, start) : Unreleased(t) # {}
<1> DEFINE Blocked == {t \in Nodes : Unreleased(t) # {}}
<1>1. start \subseteq Blocked
  OBVIOUS
<1>2. ASSUME NEW p \in Blocked, NEW s \in graph[p].succ PROVE s \in Blocked
  <2>1. s \in Nodes /\ p \in graph[s].deps
    BY <1>2, GraphFacts DEF ScheduleInv
  <2>2. <<p, s>> \notin fired
    BY <1>2, <2>1, FinishedReleased DEF ScheduleInv, CountInv
  <2> QED BY <2>1, <2>2 DEF Unreleased
<1>3. Blocked \in SUBSET Nodes /\ \A p \in Blocked : graph[p].succ \subseteq Blocked
  BY <1>2
<1> HIDE DEF Blocked
<1>4. Reach(graph, start) \subseteq Blocked
  BY <1>1, <1>3, ReachFacts DEF ScheduleInv
<1> QED BY <1>4 DEF Blocked

\* The tasks behind a branch none of whose tasks has been released wait.
LEMMA BranchBlocked ==
  ASSUME NoSubflows, NoRepeats, Foreseen, ScheduleInv, NEW c \in DOMAIN branches,
         NEW o \in DOMAIN branches[c], \A s \in ToSet(branches[c][o]) : <<c, s>> \notin fired
  PROVE  /\ \A t \in After(c, o) : t \in Nodes /\ Unreleased(t) # {}
         /\ ToSet(branches[c][o]) \subseteq After(c, o)
<1> DEFINE start == ToSet(branches[c][o])
<1>1. c \in Nodes /\ start \subseteq graph[c].succ /\ start \in SUBSET Nodes
      /\ After(c, o) \subseteq Nodes
  BY BranchFacts DEF ScheduleInv
<1>2. ASSUME NEW s \in start PROVE Unreleased(s) # {}
  <2>1. c \in graph[s].deps
    BY <1>1, <1>2, GraphFacts DEF ScheduleInv
  <2> QED BY <1>2, <2>1 DEF Unreleased
<1>3. start \subseteq Reach(graph, start)
  BY <1>1 DEF Reach, Nodes
<1> HIDE DEF start
<1>4. \A t \in Reach(graph, start) : Unreleased(t) # {}
  BY <1>1, <1>2, BlockedBehind
<1> QED BY <1>1, <1>3, <1>4 DEF After, start

\* A task behind a branch that was not taken is nowhere in sight, and stays so.
LEMMA DeadBlocked ==
  ASSUME NoSubflows, NoRepeats, Foreseen, ScheduleInv
  PROVE  Dead \subseteq Nodes /\ \A t \in Dead : Unreleased(t) # {} /\ t \notin finished
<1>1. Dead \subseteq Nodes
  BY DEF Dead
<1>2. ASSUME NEW t \in Dead PROVE Unreleased(t) # {}
  <2>1. PICK c \in DOMAIN branches : \E o \in DOMAIN branches[c] : Rejected(c, o) /\ t \in After(c, o)
    BY <1>2 DEF Dead
  <2>2. PICK o \in DOMAIN branches[c] : Rejected(c, o) /\ t \in After(c, o)
    BY <2>1
  <2>3. \A s \in ToSet(branches[c][o]) : <<c, s>> \notin fired
    BY <2>2 DEF Rejected
  <2> QED BY <2>2, <2>3, BranchBlocked
<1> QED BY <1>1, <1>2, FinishedReleased

LEMMA LiveFacts ==
  ASSUME NoSubflows, NoRepeats, ScheduleInv
  PROVE  /\ IsFiniteSet(Live) /\ Live \subseteq Nodes
         /\ Cardinality(Live) \in Nat /\ (Cardinality(Live) = 0 <=> Live = {})
<1>1. IsFiniteSet(Nodes)
  BY GraphFacts DEF ScheduleInv
<1>2. Live \subseteq Nodes
  BY JobFacts DEF Live, Pending, At, ScheduleInv
<1> QED BY <1>1, <1>2, FS_Subset, FS_CardinalityType, FS_EmptySet

\* The dead tasks change only when a condition becomes or ceases to be decided.
LEMMA DeadSame ==
  ASSUME graph' = graph, branches' = branches,
         \A c \in DOMAIN branches : \A o \in DOMAIN branches[c] :
           Rejected(c, o)' <=> Rejected(c, o)
  PROVE  Dead' = Dead
<1>1. \A c, o : After(c, o)' = After(c, o)
  BY DEF After
<1>2. ASSUME NEW t \in Nodes
      PROVE  (\E c \in DOMAIN branches : \E o \in DOMAIN branches[c] :
                Rejected(c, o)' /\ t \in After(c, o))
             <=> (\E c \in DOMAIN branches : \E o \in DOMAIN branches[c] :
                Rejected(c, o) /\ t \in After(c, o))
  OBVIOUS
<1> QED BY <1>1, <1>2 DEF Dead, Nodes

\* Whether the condition of job i has left out a branch can be read off that job.
LEMMA RejectedHere ==
  ASSUME ScheduleInv, NEW i \in DOMAIN jobs, Moves(i), branches' = branches,
         NEW t, t = jobs[i].task, NEW o
  PROVE  /\ Rejected(t, o) <=>
              /\ jobs[i].pc \in Chosen
              /\ \A s \in ToSet(branches[t][o]) : <<t, s>> \notin fired /\ s \notin ToSet(jobs[i].succs)
         /\ Rejected(t, o)' <=>
              /\ jobs'[i].pc \in Chosen
              /\ \A s \in ToSet(branches[t][o]) :
                   <<t, s>> \notin fired' /\ s \notin ToSet(jobs'[i].succs)
<1>1. \A j \in DOMAIN jobs : jobs[j].task = t => j = i
  BY DEF ScheduleInv, PlacesInv
<1>2. /\ DOMAIN jobs' = DOMAIN jobs /\ jobs'[i].task = t
      /\ \A j \in DOMAIN jobs \ {i} : jobs'[j] = jobs[j]
  BY DEF Moves
<1>3. \A j \in DOMAIN jobs : jobs'[j].task = t => j = i
  BY <1>1, <1>2
<1> QED BY <1>1, <1>2, <1>3 DEF Rejected

\* The step of another job does not matter to a condition.
LEMMA RejectedElsewhere ==
  ASSUME ScheduleInv, NEW i \in DOMAIN jobs, Moves(i), branches' = branches,
         NEW c, c # jobs[i].task, NEW o,
         \A s : <<c, s>> \in fired' <=> <<c, s>> \in fired
  PROVE  Rejected(c, o)' <=> Rejected(c, o)
<1>1. /\ DOMAIN jobs' = DOMAIN jobs /\ jobs'[i].task = jobs[i].task
      /\ \A j \in DOMAIN jobs \ {i} : jobs'[j] = jobs[j]
  BY DEF Moves
<1> QED BY <1>1 DEF Rejected

\* Only the choice itself leaves out tasks.
LEMMA DeadKept ==
  ASSUME NoSubflows, NoRepeats, ScheduleInv, ChoiceInv, Foreseen, NEW i \in DOMAIN jobs, JobStep(i),
         ~SelectBranch(i)
  PROVE  Dead' = Dead
<1>0. PICK t \in Nodes : t = jobs[i].task
  BY JobFacts DEF ScheduleInv
<1>1. Moves(i) /\ UNCHANGED <<graph, branches>> /\ ~SubflowStep(i)
  BY StepMoves, SubflowStepsExcluded
<1>2. /\ jobs \in Seq(Job) /\ DOMAIN jobs = 1 .. Len(jobs) /\ jobs[i] \in Job
  BY JobFacts, LenProperties DEF ScheduleInv
<1>3. /\ \A c : c # t => \A s : <<c, s>> \in fired' <=> <<c, s>> \in fired
      /\ ReleaseOne(i) \/ fired' = fired
  <2>1. CASE ReleaseOne(i)
    <3>1. PICK u, s \in Nodes : u = jobs[i].task /\ fired' = fired \cup {<<u, s>>}
      BY <2>1, ReleaseFacts
    <3> QED BY <1>0, <2>1, <3>1
  <2>2. CASE ~ReleaseOne(i)
    <3>1. fired' = fired
      BY <1>1, <2>2 DEF JobStep, TakeWork, RunClosure, RunCondition, RunPanicking, Decrement,
         LockDeps, EndJob, history
    <3> QED BY <3>1
  <2> QED BY <2>1, <2>2
<1>4. ASSUME NEW o, t \in DOMAIN branches PROVE Rejected(t, o)' <=> Rejected(t, o)
  <2>1. /\ Rejected(t, o) <=>
              /\ jobs[i].pc \in Chosen
              /\ \A s \in ToSet(branches[t][o]) : <<t, s>> \notin fired /\ s \notin ToSet(jobs[i].succs)
        /\ Rejected(t, o)' <=>
              /\ jobs'[i].pc \in Chosen
              /\ \A s \in ToSet(branches[t][o]) :
                   <<t, s>> \notin fired' /\ s \notin ToSet(jobs'[i].succs)
    BY <1>0, <1>1, RejectedHere
  <2>2. CASE jobs[i].pc \notin Chosen
    <3>1. jobs'[i].pc \notin Chosen
      <4>1. jobs[i].pc = "decrement" => jobs'[i].pc = "select"
        <5> SUFFICES ASSUME jobs[i].pc = "decrement" PROVE jobs'[i].pc = "select"
          OBVIOUS
        <5>1. Decrement(i)
          BY <1>1 DEF JobStep, TakeWork, RunClosure, RunCondition, RunPanicking, SelectBranch,
             LockDeps, ReleaseOne, EndJob
        <5>2. jobs[i].branch # NoBranch
          BY <1>0, <1>4 DEF ChoiceInv
        <5> QED BY <1>0, <1>2, <1>4, <5>1, <5>2 DEF Decrement, Job
      <4>2. jobs[i].pc # "select"
        BY <1>1 DEF JobStep, TakeWork, RunClosure, RunCondition, RunPanicking, Decrement,
           LockDeps, ReleaseOne, EndJob
      <4> QED BY <1>1, <2>2, <4>1, <4>2 DEF Moves, Transitions, Chosen
    <3> QED BY <2>1, <2>2, <3>1
  <2>3. CASE LockDeps(i)
    <3>1. /\ jobs[i].pc = "lockDeps" /\ jobs'[i].pc = "release" /\ jobs'[i].succs = jobs[i].succs
          /\ fired' = fired
      BY <1>2, <2>3 DEF LockDeps, Job, history
    <3> QED BY <2>1, <3>1 DEF Chosen
  <2>4. CASE ReleaseOne(i)
    <3>1. PICK u, s \in Nodes :
            /\ u = jobs[i].task /\ s = Head(jobs[i].succs) /\ s \in ToSet(jobs[i].succs)
            /\ ToSet(Tail(jobs[i].succs)) = ToSet(jobs[i].succs) \ {s}
            /\ fired' = fired \cup {<<u, s>>}
      BY <2>4, ReleaseFacts
    <3>2. /\ jobs[i].pc = "release" /\ jobs'[i].pc = "release"
          /\ jobs'[i].succs = Tail(jobs[i].succs)
      BY <1>2, <2>4 DEF ReleaseOne, Job
    <3>3. \A x : (<<t, x>> \notin fired /\ x \notin ToSet(jobs[i].succs)) <=>
                 (<<t, x>> \notin fired' /\ x \notin ToSet(jobs'[i].succs))
      BY <1>0, <3>1, <3>2
    <3> QED BY <2>1, <3>2, <3>3 DEF Chosen
  <2>5. CASE EndJob(i)
    <3>1. /\ jobs[i].pc = "release" /\ jobs'[i].pc = "ended"
          /\ jobs[i].succs = <<>> /\ jobs'[i].succs = <<>> /\ fired' = fired
      BY <1>2, <2>5 DEF EndJob, NewJob, Job, history
    <3> QED BY <2>1, <3>1 DEF Chosen
  <2> QED
    <3>1. jobs[i].pc \in Chosen => LockDeps(i) \/ ReleaseOne(i) \/ EndJob(i)
      BY <1>1 DEF JobStep, TakeWork, RunClosure, RunCondition, RunPanicking, Decrement,
         SelectBranch, Chosen
    <3> QED BY <2>2, <2>3, <2>4, <2>5, <3>1
<1>5. ASSUME NEW c \in DOMAIN branches, NEW o \in DOMAIN branches[c]
      PROVE  Rejected(c, o)' <=> Rejected(c, o)
  <2>1. CASE c = t
    BY <1>4, <2>1
  <2>2. CASE c # t
    BY <1>0, <1>1, <1>3, <2>2, RejectedElsewhere
  <2> QED BY <2>1, <2>2
<1> QED BY <1>1, <1>5, DeadSame

-----------------------------------------------------------------------------
(* The counter.                                                            *)

LEMMA CounterInit ==
  ASSUME NoSubflows, NoRepeats, Init
  PROVE  CounterInv
<1>1. remaining = Len(graph) /\ driver = "spawn" /\ finished = {} /\ DOMAIN jobs = {}
  BY EmptySeq DEF Init
<1>2. Cardinality(Nodes) = Len(graph)
  BY ScheduleInit, GraphFacts DEF ScheduleInv
<1>3. Live = Nodes
  BY <1>1 DEF Live, Pending, At, Dead, Rejected
<1> QED BY <1>1, <1>2, <1>3 DEF CounterInv

LEMMA CounterJobStep ==
  ASSUME NoSubflows, NoRepeats, ScheduleInv, ChoiceInv, CounterInv, NEW i \in DOMAIN jobs, JobStep(i),
         ~SelectBranch(i)
  PROVE  CounterInv'
<1> DEFINE t == jobs[i].task
<1>1. Moves(i) /\ UNCHANGED <<graph, branches, joinSet, driver>>
  BY StepMoves DEF control
<1> SUFFICES ASSUME Foreseen
             PROVE  /\ remaining' = Cardinality(Live')
                    /\ driver \in {"drain", "returned"} =>
                         Live' = {} \/ (queue' = <<>> /\ \A j \in DOMAIN jobs' : Over(j)')
  <2>1. Foreseen' <=> Foreseen
    BY <1>1 DEF Foreseen
  <2> QED BY <1>1, <2>1 DEF CounterInv, Over
<1>2. /\ t \in Nodes /\ TypesInv /\ PlacesInv /\ ~Over(i)
      /\ remaining = Cardinality(Live) /\ remaining \in 0 .. UsizeMod - 1
      /\ driver \in {"drain", "returned"} => Live = {}
      /\ IsFiniteSet(Live)
  <2>1. t \in Nodes /\ TypesInv /\ PlacesInv /\ remaining \in 0 .. UsizeMod - 1
    BY JobFacts DEF ScheduleInv, TypesInv
  <2>2. ~Over(i)
    BY <1>1 DEF Over, Moves, Transitions
  <2> QED BY <2>1, <2>2, LiveFacts DEF CounterInv
<1>3. At({"decrement"})' = IF jobs'[i].pc = "decrement" THEN At({"decrement"}) \cup {t}
                           ELSE At({"decrement"}) \ {t}
  BY <1>1, AtMoves
<1>4. t \in At({"decrement"}) <=> jobs[i].pc = "decrement"
  BY AtFacts
<1>5. t \in finished <=> jobs[i].pc \in Visited
  BY <1>2, AtFacts DEF PlacesInv
<1>6. Nodes' = Nodes /\ Dead' = Dead
  BY <1>1, DeadKept DEF Nodes
<1>7. CASE jobs[i].pc = "run" /\ jobs'[i].pc = "decrement"
  <2>1. remaining' = remaining /\ finished' = finished \cup {t}
    <3>1. RunClosure(i) \/ RunCondition(i)
      <4>1. ~SubflowStep(i)
        BY SubflowStepsExcluded
      <4>2. ASSUME RunPanicking(i) PROVE FALSE
        <5>1. jobs \in Seq(Job) /\ jobs[i] \in Job /\ DOMAIN jobs = 1 .. Len(jobs)
          BY <1>2, JobFacts, LenProperties
        <5>2. jobs'[i].pc = "panicked"
          BY <4>2, <5>1 DEF RunPanicking, Job
        <5> QED BY <1>7, <5>2
      <4> QED BY <1>7, <4>1, <4>2 DEF JobStep, TakeWork, Decrement, SelectBranch, LockDeps,
             ReleaseOne, EndJob
    <3>2. Position(t) = t
      BY <1>2, GraphFacts DEF ScheduleInv
    <3> QED BY <3>1, <3>2 DEF RunClosure, RunCondition, shared
  <2>2. Pending' = Pending
    BY <1>2, <1>3, <1>5, <1>6, <1>7, <2>1 DEF Pending, Visited
  <2>3. Live' = Live
    BY <1>6, <2>2 DEF Live
  <2> QED BY <1>2, <2>1, <2>3
<1>8. CASE jobs[i].pc = "decrement"
  <2>1. /\ remaining' = Minus(remaining, 1) /\ finished' = finished
        /\ jobs'[i].pc # "decrement"
    <3>1. Decrement(i)
      <4>1. ~SubflowStep(i)
        BY SubflowStepsExcluded
      <4> QED BY <1>8, <4>1 DEF JobStep, TakeWork, RunClosure, RunCondition, RunPanicking,
             SelectBranch, LockDeps, ReleaseOne, EndJob
    <3>2. jobs'[i].pc # "decrement"
      BY <1>1, <1>8 DEF Moves, Transitions
    <3> QED BY <3>1, <3>2 DEF Decrement, history
  <2>2. t \in Pending /\ t \in finished
    BY <1>4, <1>5, <1>8 DEF Pending, Visited
  <2>3. t \in Live
    BY <2>2, DeadBlocked DEF Live
  <2>4. Pending' = Pending \ {t}
    BY <1>3, <1>6, <2>1, <2>2 DEF Pending
  <2>5. Live' = Live \ {t}
    BY <1>6, <2>4 DEF Live
  <2>6. Cardinality(Live \ {t}) = remaining - 1 /\ remaining - 1 \in Nat
    <3>1. Cardinality(Live \ {t}) = remaining - 1 /\ IsFiniteSet(Live \ {t})
      BY <1>2, <2>3, FS_RemoveElement
    <3> QED BY <3>1, FS_CardinalityType
  <2>7. remaining' = remaining - 1
    BY <1>2, <2>1, <2>6, AsyncAssumption DEF Minus
  <2> QED BY <1>2, <2>3, <2>5, <2>6, <2>7
<1>9. CASE jobs[i].pc # "decrement" /\ jobs'[i].pc # "decrement"
  <2>1. remaining' = remaining /\ finished' = finished
    <3>1. ~SubflowStep(i)
      BY SubflowStepsExcluded
    <3>2. /\ ~RunClosure(i) /\ ~RunCondition(i) /\ ~Decrement(i)
      <4>1. jobs \in Seq(Job) /\ jobs[i] \in Job /\ DOMAIN jobs = 1 .. Len(jobs)
        BY <1>2, JobFacts, LenProperties
      <4>2. ASSUME RunClosure(i) PROVE jobs'[i].pc = "decrement"
        BY <4>1, <4>2 DEF RunClosure, Job
      <4>3. ASSUME RunCondition(i) PROVE jobs'[i].pc = "decrement"
        <5>1. PICK b : jobs' = [jobs EXCEPT ![i].pc = "decrement", ![i].branch = b]
          BY <4>3 DEF RunCondition
        <5> QED BY <4>1, <5>1 DEF Job
      <4> QED BY <1>9, <4>2, <4>3 DEF Decrement
    <3> QED BY <3>1, <3>2 DEF JobStep, TakeWork, RunPanicking, LockDeps, ReleaseOne,
           EndJob, shared, history
  <2>2. Live' = Live
    BY <1>3, <1>4, <1>6, <1>9, <2>1 DEF Live, Pending
  <2> QED BY <1>2, <2>1, <2>2
<1> QED BY <1>1, <1>7, <1>8, <1>9 DEF Moves, Transitions

\* What the executor subtracts for the branches other than b is the number of
\* tasks behind them.
LEMMA BehindOthers ==
  ASSUME NoSubflows, NoRepeats, Foreseen, FlowInv, NEW c \in DOMAIN branches, NEW b \in DOMAIN branches[c],
         NEW behind, behind = UNION {After(c, o) : o \in DOMAIN branches[c] \ {b}}
  PROVE  behind \subseteq Nodes /\ UnreachableCount(c, b) = Cardinality(behind)
<1> DEFINE others == DOMAIN branches[c] \ {b}
<1>1. /\ IsFiniteSet(others) /\ IsFiniteSet(Nodes)
      /\ \A o \in others : /\ Reachable(ToSet(branches[c][o])) = After(c, o)
                           /\ After(c, o) \subseteq Nodes
      /\ \A o, x \in others : o # x => After(c, o) \cap After(c, x) = {}
  BY BranchFacts, GraphFacts, FS_Subset
<1>2. PICK f : f = [o \in others |-> After(c, o)]
  OBVIOUS
<1>3. f \in [others -> SUBSET Nodes] /\ \A o \in others : f[o] = After(c, o)
  BY <1>1, <1>2
<1>4. \A o, x \in others : o # x => f[o] \cap f[x] = {}
  BY <1>1, <1>3
<1>5. /\ UNION {{o} \X Reachable(ToSet(branches[c][o])) : o \in others}
           = UNION {{o} \X f[o] : o \in others}
      /\ behind = UNION {f[o] : o \in others}
  BY <1>1, <1>3
<1>6. UnreachableCount(c, b) = Cardinality(UNION {{o} \X f[o] : o \in others})
  BY <1>5 DEF UnreachableCount
<1> HIDE DEF others
<1>7. UnreachableCount(c, b) = Cardinality(behind)
  BY <1>1, <1>3, <1>4, <1>5, <1>6, DisjointUnion
<1> QED BY <1>3, <1>5, <1>7

\* A condition takes the tasks behind its other branches off the counter: none
\* of them has run, and none has been taken off before.
LEMMA CounterSelect ==
  ASSUME NoSubflows, NoRepeats, ScheduleInv, ChoiceInv, CounterInv, NEW i \in DOMAIN jobs, SelectBranch(i)
  PROVE  CounterInv'
<1>0. Moves(i) /\ UNCHANGED <<graph, branches, driver>>
  BY StepMoves DEF control, JobStep
<1> SUFFICES ASSUME Foreseen
             PROVE  /\ remaining' = Cardinality(Live')
                    /\ driver \in {"drain", "returned"} => Live' = {}
  <2>1. Foreseen' <=> Foreseen
    BY <1>0 DEF Foreseen
  <2> QED BY <1>0, <2>1 DEF CounterInv
<1>1. PICK t, b, behind : /\ t = jobs[i].task /\ b = jobs[i].branch
                          /\ behind = UNION {After(t, o) : o \in DOMAIN branches[t] \ {b}}
  OBVIOUS
<1>2. /\ jobs \in Seq(Job) /\ DOMAIN jobs = 1 .. Len(jobs) /\ jobs[i] \in Job
      /\ jobs[i].pc = "select" /\ t \in Nodes /\ t \in finished
      /\ t \in DOMAIN branches /\ b \in DOMAIN branches[t]
      /\ remaining \in 0 .. UsizeMod - 1
      /\ \A s \in Nodes : <<t, s>> \notin fired
  <2>1. /\ jobs \in Seq(Job) /\ DOMAIN jobs = 1 .. Len(jobs) /\ jobs[i] \in Job
        /\ jobs[i].pc = "select" /\ t \in Nodes /\ remaining \in 0 .. UsizeMod - 1
    BY <1>1, JobFacts, LenProperties DEF ScheduleInv, TypesInv, SelectBranch
  <2>2. t \in DOMAIN branches
    BY <1>1, <2>1 DEF ScheduleInv, SuccsInv
  <2>3. b \in DOMAIN branches[t]
    BY <1>1, <2>1, <2>2 DEF ChoiceInv
  <2>4. \A s \in Nodes : <<t, s>> \notin fired
    BY <1>1, <2>1 DEF ScheduleInv, CountInv, Held
  <2>5. t \in finished
    BY <1>1, <2>1 DEF ScheduleInv, PlacesInv, At, Visited
  <2> QED BY <2>1, <2>2, <2>3, <2>4, <2>5
<1>3. /\ remaining' = Minus(remaining, UnreachableCount(t, b) % UsizeMod)
      /\ jobs'[i].pc = "lockDeps" /\ jobs'[i].succs = branches[t][b]
      /\ UNCHANGED <<graph, branches, finished, fired>>
  BY <1>1, <1>2 DEF SelectBranch, history, Job
<1>4. behind \subseteq Nodes /\ UnreachableCount(t, b) = Cardinality(behind)
  BY <1>1, <1>2, BehindOthers DEF ScheduleInv
<1>5. ASSUME NEW o \in DOMAIN branches[t] \ {b}
      PROVE  /\ ToSet(branches[t][o]) \cap ToSet(branches[t][b]) = {}
             /\ \A x \in After(t, o) : Unreleased(x) # {}
  <2>1. ToSet(branches[t][o]) \subseteq Nodes /\ ToSet(branches[t][b]) \cap After(t, o) = {}
    BY <1>2, BranchFacts DEF ScheduleInv
  <2>2. /\ \A x \in After(t, o) : Unreleased(x) # {}
        /\ ToSet(branches[t][o]) \subseteq After(t, o)
    BY <1>2, <2>1, BranchBlocked
  <2> QED BY <2>1, <2>2
<1>6. behind \subseteq Pending
  BY <1>1, <1>4, <1>5, FinishedReleased DEF Pending
<1>7. ASSUME NEW o
      PROVE  /\ ~Rejected(t, o)
             /\ Rejected(t, o)' <=>
                  \A s \in ToSet(branches[t][o]) : <<t, s>> \notin fired /\ s \notin ToSet(branches[t][b])
  <2>1. /\ Rejected(t, o) <=>
              /\ jobs[i].pc \in Chosen
              /\ \A s \in ToSet(branches[t][o]) : <<t, s>> \notin fired /\ s \notin ToSet(jobs[i].succs)
        /\ Rejected(t, o)' <=>
              /\ jobs'[i].pc \in Chosen
              /\ \A s \in ToSet(branches[t][o]) :
                   <<t, s>> \notin fired' /\ s \notin ToSet(jobs'[i].succs)
    BY <1>0, <1>1, RejectedHere
  <2> QED BY <1>2, <1>3, <2>1 DEF Chosen
<1>8. behind \cap Dead = {}
  <2> SUFFICES ASSUME NEW x \in behind, x \in Dead PROVE FALSE
    OBVIOUS
  <2>1. PICK o \in DOMAIN branches[t] \ {b} : x \in After(t, o)
    BY <1>1
  <2>2. PICK d \in DOMAIN branches : \E y \in DOMAIN branches[d] : Rejected(d, y) /\ x \in After(d, y)
    BY DEF Dead
  <2>3. PICK y \in DOMAIN branches[d] : Rejected(d, y) /\ x \in After(d, y)
    BY <2>2
  <2>4. d # t /\ d \in finished
    <3>1. PICK j \in DOMAIN jobs : jobs[j].task = d /\ jobs[j].pc \in Chosen
      BY <2>3 DEF Rejected
    <3>2. d \in finished
      BY <3>1 DEF ScheduleInv, PlacesInv, At, Chosen, Visited
    <3> QED BY <1>7, <2>3, <3>2
  <2>5. d \in After(t, o) \/ t \in After(d, y)
    BY <1>2, <2>1, <2>3, <2>4, BranchFacts DEF ScheduleInv
  <2>6. CASE d \in After(t, o)
    BY <1>5, <2>4, <2>6, FinishedReleased
  <2>7. CASE t \in After(d, y)
    <3>1. t \in Dead
      BY <1>2, <2>3, <2>7 DEF Dead
    <3> QED BY <1>2, <3>1, DeadBlocked
  <2> QED BY <2>5, <2>6, <2>7
<1>9. ASSUME NEW c \in DOMAIN branches, NEW o \in DOMAIN branches[c], c # t
      PROVE  Rejected(c, o)' <=> Rejected(c, o)
  BY <1>0, <1>1, <1>3, <1>9, RejectedElsewhere
<1>10. ASSUME NEW o \in DOMAIN branches[t] \ {b} PROVE Rejected(t, o)'
  <2>1. ToSet(branches[t][o]) \subseteq Nodes
    BY <1>2, BranchFacts DEF ScheduleInv
  <2> QED BY <1>2, <1>5, <1>7, <2>1
<1>11. ASSUME Rejected(t, b)' PROVE After(t, b) = {}
  <2>1. ToSet(branches[t][b]) = {}
    BY <1>7, <1>11
  <2>2. {} \in SUBSET Nodes /\ \A p \in {} : graph[p].succ \subseteq {}
    OBVIOUS
  <2>3. Reach(graph, {}) \subseteq {}
    BY <2>2, ReachFacts DEF ScheduleInv
  <2> QED BY <2>1, <2>3 DEF After
<1>12. Dead' = Dead \cup behind
  <2>1. /\ Nodes' = Nodes /\ DOMAIN branches' = DOMAIN branches
        /\ \A c : DOMAIN branches'[c] = DOMAIN branches[c]
        /\ \A c, o : After(c, o)' = After(c, o)
    BY <1>3 DEF Nodes, After
  <2>2. ASSUME NEW x \in Dead' PROVE x \in Dead \cup behind
    <3>0. PICK c \in DOMAIN branches :
            \E o \in DOMAIN branches[c] : Rejected(c, o)' /\ x \in After(c, o)
      BY <2>1, <2>2 DEF Dead
    <3>1. PICK o \in DOMAIN branches[c] : Rejected(c, o)' /\ x \in After(c, o) /\ x \in Nodes
      BY <2>1, <2>2, <3>0 DEF Dead
    <3>2. CASE c # t
      BY <1>9, <3>1, <3>2 DEF Dead
    <3>3. CASE c = t /\ o = b
      BY <1>11, <3>1, <3>3
    <3>4. CASE c = t /\ o # b
      BY <1>1, <3>1, <3>4
    <3> QED BY <3>2, <3>3, <3>4
  <2>3. ASSUME NEW x \in Dead PROVE x \in Dead'
    <3>0. PICK c \in DOMAIN branches :
            \E o \in DOMAIN branches[c] : Rejected(c, o) /\ x \in After(c, o)
      BY <2>3 DEF Dead
    <3>1. PICK o \in DOMAIN branches[c] : Rejected(c, o) /\ x \in After(c, o) /\ x \in Nodes
      BY <2>3, <3>0 DEF Dead
    <3>2. c # t
      BY <1>7, <3>1
    <3>3. Rejected(c, o)'
      BY <1>9, <3>1, <3>2
    <3> QED BY <2>1, <3>1, <3>3 DEF Dead
  <2>4. ASSUME NEW x \in behind PROVE x \in Dead'
    <3>1. PICK o \in DOMAIN branches[t] \ {b} : x \in After(t, o)
      BY <1>1
    <3>2. Rejected(t, o)'
      BY <1>10, <3>1
    <3> QED BY <1>2, <1>4, <2>1, <3>1, <3>2 DEF Dead
  <2> QED BY <2>2, <2>3, <2>4
<1>13. Live' = Live \ behind
  <2>1. At({"decrement"})' = At({"decrement"})
    <3>1. At({"decrement"})' = At({"decrement"}) \ {t}
      BY <1>0, <1>1, <1>3, AtMoves
    <3>2. t \notin At({"decrement"})
      BY <1>1, <1>2, AtFacts
    <3> QED BY <3>1, <3>2
  <2>2. Pending' = Pending
    BY <1>3, <2>1 DEF Pending, Nodes
  <2> QED BY <1>12, <2>2 DEF Live
<1>14. /\ IsFiniteSet(Live) /\ behind \subseteq Live /\ remaining = Cardinality(Live)
       /\ Cardinality(behind) \in Nat /\ Cardinality(behind) <= remaining
  <2>1. IsFiniteSet(Live) /\ remaining = Cardinality(Live)
    BY LiveFacts DEF CounterInv
  <2>2. behind \subseteq Live
    BY <1>6, <1>8 DEF Live
  <2> QED BY <2>1, <2>2, FS_Subset, FS_CardinalityType
<1>15. Cardinality(Live') = remaining - Cardinality(behind)
  <2>1. Live \cap behind = behind
    BY <1>14
  <2> QED BY <1>13, <1>14, <2>1, FS_Difference
<1>16. remaining' = remaining - Cardinality(behind)
  <2>1. Cardinality(behind) < UsizeMod /\ UsizeMod \in Nat \ {0}
    BY <1>2, <1>14, AsyncAssumption
  <2>2. Cardinality(behind) % UsizeMod = Cardinality(behind)
    BY <1>14, <2>1
  <2> QED BY <1>3, <1>4, <1>14, <2>2 DEF Minus
<1>17. driver \in {"drain", "returned"} => Live = {}
  BY <1>2 DEF CounterInv, Over
<1> QED BY <1>13, <1>15, <1>16, <1>17

LEMMA CounterStep ==
  ASSUME NoSubflows, NoRepeats, ScheduleInv, ChoiceInv, CounterInv, [Next]_vars
  PROVE  CounterInv'
<1>1. ASSUME NEW i \in DOMAIN jobs, JobStep(i) PROVE CounterInv'
  BY <1>1, CounterJobStep, CounterSelect
<1>2. CASE Spawn
  <2>1. UNCHANGED <<graph, branches, remaining, finished, fired, driver>> /\ driver = "spawn"
    BY <1>2 DEF Spawn, history
  <2>2. At({"decrement"})' = At({"decrement"})
    BY <1>2, AtSpawn
  <2>3. \A c, o : Rejected(c, o)' <=> Rejected(c, o)
    <3>1. /\ DOMAIN jobs \subseteq DOMAIN jobs'
          /\ \A j \in DOMAIN jobs : jobs'[j] = jobs[j]
          /\ \A j \in DOMAIN jobs' \ DOMAIN jobs : jobs'[j].pc = "take"
      BY <1>2, SpawnFacts
    <3> QED BY <2>1, <3>1 DEF Rejected, Chosen
  <2>4. Dead' = Dead
    BY <2>1, <2>3, DeadSame
  <2>5. Live' = Live
    BY <2>1, <2>2, <2>4 DEF Live, Pending, Nodes
  <2>6. Foreseen' <=> Foreseen
    BY <2>1 DEF Foreseen
  <2> QED BY <2>1, <2>5, <2>6 DEF CounterInv
<1>3. CASE UNCHANGED <<shared, jobs, history>> /\ (driver' \in {"drain", "returned"} =>
             driver \in {"drain", "returned"} \/ remaining = 0
               \/ (queue = <<>> /\ \A i \in DOMAIN jobs : Over(i)))
  <2>1. UNCHANGED <<graph, branches, remaining, queue, jobs, finished, fired>>
    BY <1>3 DEF shared, history
  <2>2. Live' = Live /\ (\A i : Over(i)' <=> Over(i)) /\ (Foreseen' <=> Foreseen)
    BY <2>1 DEF Live, Pending, Dead, Rejected, After, Nodes, At, Over, Foreseen
  <2>3. Cardinality(Live) = 0 => Live = {}
    BY LiveFacts
  <2> QED BY <1>3, <2>1, <2>2, <2>3 DEF CounterInv
<1>4. ASSUME JoinNone PROVE queue = <<>> /\ \A i \in DOMAIN jobs : Over(i)
  BY <1>4 DEF JoinNone, ScheduleInv, DriverInv
<1>5. CASE SpawnedAll \/ Join \/ JoinNone \/ Check \/ Drain \/ UNCHANGED vars
  BY <1>3, <1>4, <1>5 DEF SpawnedAll, Join, JoinNone, Check, Drain, vars, control
<1> QED BY <1>1, <1>2, <1>5 DEF Next, Driver, Pool, Returned

LEMMA CounterAlways ==
  ASSUME NoSubflows, NoRepeats
  PROVE  Spec => [](ScheduleInv /\ CounterInv)
<1>1. Init => ScheduleInv /\ ChoiceInv /\ CounterInv
  BY ScheduleInit, ChoiceInit, CounterInit
<1>2. ScheduleInv /\ ChoiceInv /\ CounterInv /\ [Next]_vars
        => (ScheduleInv /\ ChoiceInv /\ CounterInv)'
  BY ScheduleStep, ChoiceStep, CounterStep
<1> QED BY <1>1, <1>2, PTL DEF Spec

\* Once the driver only drains, nothing is queued and every job is past its
\* closure: what is queued or running was released, so it is on the counter.
LEMMA Drained ==
  ASSUME NoSubflows, NoRepeats, ScheduleInv, CounterInv, Foreseen, driver \in {"drain", "returned"}
  PROVE  queue = <<>> /\ \A i \in DOMAIN jobs : jobs[i].pc \notin {"take", "run", "decrement"}
<1>1. PlacesInv /\ queue \in Seq(Nodes) /\ ToSet(queue) \subseteq Nodes
  BY LenProperties DEF ScheduleInv, TypesInv, ToSet
<1>2. \A t \in Pending : Unreleased(t) = {} => t \in Live
  BY DeadBlocked DEF Live
<1>3. ToSet(queue) \subseteq Live
  <2>1. finished \subseteq Spawned
    BY <1>1 DEF PlacesInv, At, Spawned
  <2> QED BY <1>1, <1>2, <2>1 DEF PlacesInv, Pending
<1>4. ASSUME NEW i \in DOMAIN jobs, jobs[i].pc \in {"take", "run", "decrement"}
      PROVE  jobs[i].task \in Live
  <2>1. jobs[i].task \in Nodes /\ Unreleased(jobs[i].task) = {}
    BY JobFacts DEF ScheduleInv, PlacesInv
  <2>2. jobs[i].task \in finished <=> jobs[i].pc \in Visited
    BY <1>1, AtFacts DEF PlacesInv
  <2>3. jobs[i].pc = "decrement" => jobs[i].task \in At({"decrement"})
    BY AtFacts
  <2> QED BY <1>2, <1>4, <2>1, <2>2, <2>3 DEF Pending, Visited
<1>5. CASE Live = {}
  BY <1>1, <1>3, <1>4, <1>5, EmptyFacts
<1>6. CASE queue = <<>> /\ \A i \in DOMAIN jobs : Over(i)
  BY <1>6 DEF Over
<1> QED BY <1>5, <1>6 DEF CounterInv

\* run_async (lines 97-138 of async_executor.rs) leaves its loop on a zero
\* counter or an empty join set; nothing is queued then and no job is before
\* its decrement, however the jobs have interleaved with the driver and whatever
\* branches the conditions have taken (execute_task, lines 219-237).
THEOREM NothingLeft ==
  ASSUME NoSubflows, NoRepeats, Decisive, Apart
  PROVE  Spec => []NothingLeftBehind
<1>1. ScheduleInv /\ CounterInv => NothingLeftBehind
  <2> SUFFICES ASSUME ScheduleInv, CounterInv, driver \in {"drain", "returned"}
               PROVE  queue = <<>> /\ At(Executing \cup {"take"}) = {}
    BY DEF NothingLeftBehind
  <2>1. Foreseen
    BY DEF Foreseen
  <2>2. /\ queue = <<>>
        /\ \A i \in DOMAIN jobs : jobs[i].pc \notin {"take", "run", "decrement"}
    BY <2>1, Drained
  <2>3. \A i \in DOMAIN jobs : jobs[i].pc \in Held \cup {"ended", "panicked"}
    BY JobFacts DEF ScheduleInv
  <2> QED BY <2>2, <2>3 DEF At, Executing, Held
<1> QED BY <1>1, CounterAlways, PTL

\* When run_async returns on a graph without registered branches, a task that
\* has not run has panicked or has a dependency that has not run: a panic
\* (a JoinError, lines 122-125) costs nothing but what depends on it.
THEOREM FailureStaysLocal ==
  ASSUME NoSubflows, NoRepeats
  PROVE  Spec => []FailureContained
<1>1. ScheduleInv /\ CounterInv => FailureContained
  <2> SUFFICES ASSUME ScheduleInv, CounterInv, driver = "returned", DOMAIN branches = {},
                      NEW p \in Nodes, p \notin finished, p \notin At({"panicked"})
               PROVE  \E d \in graph[p].deps : d \in Nodes /\ d \notin finished
    <3>1. ASSUME ScheduleInv PROVE \A q \in Nodes : graph[q].id = q /\ Position(q) = q
      BY <3>1, GraphFacts DEF ScheduleInv
    <3> QED BY <3>1 DEF FailureContained, Nodes
  <2>1. \A i \in DOMAIN jobs : jobs[i].pc \in {"ended", "panicked"}
    BY DEF ScheduleInv, DriverInv, Over
  <2>2. queue = <<>>
    BY Drained DEF Foreseen
  <2>3. p \notin Spawned
    <3> SUFFICES ASSUME NEW i \in DOMAIN jobs, jobs[i].task = p PROVE FALSE
      BY DEF Spawned
    <3>1. p \in finished <=> jobs[i].pc \in Visited
      BY AtFacts DEF ScheduleInv, PlacesInv
    <3>2. p \in At({"panicked"}) <=> jobs[i].pc = "panicked"
      BY AtFacts
    <3> QED BY <2>1, <3>1, <3>2 DEF Visited
  <2>4. PICK d \in graph[p].deps : <<d, p>> \notin fired
    <3>1. Unreleased(p) # {}
      BY <2>2, <2>3, EmptyFacts DEF ScheduleInv, PlacesInv
    <3> QED BY <3>1 DEF Unreleased
  <2>5. d \in Nodes /\ p \in graph[d].succ
    BY <2>4, GraphFacts DEF ScheduleInv
  <2>6. ASSUME d \in finished PROVE FALSE
    <3>1. PICK i \in DOMAIN jobs : jobs[i].pc \in Visited /\ jobs[i].task = d
      BY <2>6 DEF ScheduleInv, PlacesInv, At
    <3>2. jobs[i].pc = "ended"
      BY <2>1, <3>1 DEF Visited
    <3>3. p \in ToSet(jobs[i].succs)
      BY <2>4, <2>5, <3>1 DEF ScheduleInv, SuccsInv
    <3>4. jobs[i].succs = <<>>
      BY <3>2 DEF ScheduleInv, SuccsInv
    <3> QED BY <3>3, <3>4, EmptyFacts
  <2> QED BY <2>5, <2>6
<1> QED BY <1>1, CounterAlways, PTL

-----------------------------------------------------------------------------
(* The promise of TaskExecution, step by step.                             *)

\* The dependencies the mapping shows are those of the graph, at every step.
LEMMA MappedDeps ==
  ASSUME NoSubflows, NoRepeats, ScheduleInv
  PROVE  /\ DOMAIN depCount = Nodes
         /\ Promise!Tasks = Nodes
         /\ \A t \in Nodes : /\ Promise!Dependents(t) = graph[t].succ
                             /\ Promise!Runnable(t) <=> Unreleased(t) = {}
<1>1. /\ DOMAIN depCount = Nodes
      /\ \A t \in Nodes : /\ Position(t) = t
                          /\ graph[t].succ \subseteq Nodes
                          /\ graph[t].deps = {q \in Nodes : t \in graph[q].succ}
  BY GraphFacts DEF ScheduleInv, TypesInv
<1>2. Promise!Tasks = Nodes
  BY <1>1 DEF Promise!Tasks
<1>3. ASSUME NEW t \in Nodes PROVE Promise!Dependents(t) = graph[t].succ
  BY <1>1, <1>2 DEF Promise!Dependents
<1>4. ASSUME NEW t \in Nodes PROVE Promise!Runnable(t) <=> Unreleased(t) = {}
  BY <1>1 DEF Promise!Runnable, Unreleased
<1> QED BY <1>1, <1>2, <1>3, <1>4

LEMMA DepsStay ==
  ASSUME graph' = graph, DOMAIN depCount' = DOMAIN depCount
  PROVE  [t \in DOMAIN depCount |-> graph[Position(t)].deps]'
           = [t \in DOMAIN depCount |-> graph[Position(t)].deps]
BY DEF Position

\* Where a task stands after a step of its job.
LEMMA MappedMove ==
  ASSUME NoSubflows, NoRepeats, ScheduleInv, NEW i \in DOMAIN jobs, JobStep(i)
  PROVE  /\ InHand' = IF jobs'[i].pc \in Held \ {"take"} THEN InHand \cup {jobs[i].task}
                      ELSE InHand \ {jobs[i].task}
         /\ At({"panicked"})' = IF jobs'[i].pc = "panicked"
                                THEN At({"panicked"}) \cup {jobs[i].task}
                                ELSE At({"panicked"}) \ {jobs[i].task}
         /\ jobs[i].task \in InHand <=> jobs[i].pc \in Held \ {"take"}
         /\ jobs[i].task \in At({"panicked"}) <=> jobs[i].pc = "panicked"
         /\ jobs[i].task \in finished <=> jobs[i].pc \in Visited
         /\ Unreleased(jobs[i].task) = {} /\ jobs[i].task \in Nodes
         /\ driver # "returned"
         /\ [t \in DOMAIN depCount |-> graph[Position(t)].deps]'
              = [t \in DOMAIN depCount |-> graph[Position(t)].deps]
         /\ UNCHANGED <<graph, branches, driver>>
<1>1. Moves(i) /\ UNCHANGED <<graph, branches, joinSet, driver>>
  BY StepMoves DEF control
<1> DEFINE R == Executing \cup {"select", "lockDeps", "release"}
<1>2. /\ jobs[i].pc \in R <=> jobs[i].pc \in Held \ {"take"}
      /\ jobs'[i].pc \in R <=> jobs'[i].pc \in Held \ {"take"}
  BY <1>1 DEF Moves, Transitions, Executing, Held
<1>3. InHand' = IF jobs'[i].pc \in R THEN InHand \cup {jobs[i].task} ELSE InHand \ {jobs[i].task}
  BY <1>1, AtMoves DEF InHand
<1>4. At({"panicked"})' = IF jobs'[i].pc = "panicked"
                          THEN At({"panicked"}) \cup {jobs[i].task}
                          ELSE At({"panicked"}) \ {jobs[i].task}
  BY <1>1, AtMoves
<1>5. /\ jobs[i].task \in InHand <=> jobs[i].pc \in R
      /\ jobs[i].task \in At({"panicked"}) <=> jobs[i].pc = "panicked"
      /\ jobs[i].task \in At(Visited) <=> jobs[i].pc \in Visited
  BY AtFacts DEF InHand
<1>6. /\ Unreleased(jobs[i].task) = {} /\ jobs[i].task \in Nodes
      /\ finished = At(Visited)
  BY JobFacts DEF ScheduleInv, PlacesInv
<1>7. driver # "returned"
  BY <1>1 DEF ScheduleInv, DriverInv, Over, Moves, Transitions
<1>8. DOMAIN depCount' = DOMAIN depCount
  <2>1. ScheduleInv'
    <3>1. [Next]_vars
      BY DEF Next, Pool
    <3> QED BY <3>1, ScheduleStep
  <2> QED BY <1>1, <2>1 DEF ScheduleInv, TypesInv, Nodes
<1>9. [t \in DOMAIN depCount |-> graph[Position(t)].deps]'
        = [t \in DOMAIN depCount |-> graph[Position(t)].deps]
  BY <1>1, <1>8, DepsStay
<1> QED BY <1>1, <1>2, <1>3, <1>4, <1>5, <1>6, <1>7, <1>9

LEMMA PromiseStart ==
  ASSUME NoSubflows, NoRepeats, ScheduleInv, NEW i \in DOMAIN jobs, TakeWork(i)
  PROVE  Promise!Next
<1>0. PICK t \in Nodes : t = jobs[i].task
  BY JobFacts DEF ScheduleInv
<1>1. JobStep(i)
  BY DEF JobStep
<1>2. jobs[i].pc = "take" /\ jobs'[i].pc = "run"
  <2>1. jobs[i].pc = "take"
    BY DEF TakeWork
  <2> QED BY <1>1, <2>1, StepMoves DEF Moves, Transitions
<1>3. /\ InHand' = InHand \cup {t} /\ t \notin InHand
      /\ At({"panicked"})' = At({"panicked"}) /\ t \notin At({"panicked"})
      /\ t \notin finished /\ Unreleased(t) = {}
      /\ driver # "returned" /\ driver' # "returned" /\ DOMAIN branches' = DOMAIN branches
      /\ [u \in DOMAIN depCount |-> graph[Position(u)].deps]'
           = [u \in DOMAIN depCount |-> graph[Position(u)].deps]
  <2>1. /\ InHand' = InHand \cup {t} /\ t \notin InHand
        /\ At({"panicked"})' = At({"panicked"}) \ {t} /\ t \notin At({"panicked"})
        /\ t \notin finished
    BY <1>0, <1>1, <1>2, MappedMove DEF Held, Visited
  <2>2. Unreleased(t) = {}
    BY <1>0, <1>1, MappedMove
  <2>3. /\ driver # "returned" /\ UNCHANGED <<branches, driver>>
        /\ [u \in DOMAIN depCount |-> graph[Position(u)].deps]'
             = [u \in DOMAIN depCount |-> graph[Position(u)].deps]
    BY <1>1, MappedMove
  <2> QED BY <2>1, <2>2, <2>3
<1>4. finished' = finished /\ fired' = fired
  BY DEF TakeWork, history
<1>5. {u \in finished : u \notin InHand}' = {u \in finished : u \notin InHand}
  BY <1>3, <1>4
<1>6. t \in Promise!Tasks /\ Promise!Runnable(t)
  BY <1>3, MappedDeps
<1>7. Promise!Start(t)
  BY <1>3, <1>4, <1>5, <1>6 DEF Promise!Start
<1> QED BY <1>6, <1>7 DEF Promise!Next

\* From the taking of the work to the release, the promise sees nothing.
LEMMA PromiseStutter ==
  ASSUME NoSubflows, NoRepeats, ScheduleInv, NEW i \in DOMAIN jobs, JobStep(i),
         jobs[i].pc # "take", jobs'[i].pc \in {"decrement", "select", "lockDeps"}
                              \/ (jobs[i].pc = "lockDeps" /\ jobs'[i].pc = "release")
  PROVE  UNCHANGED Promise!avars
<1>0. PICK t \in Nodes : t = jobs[i].task
  BY JobFacts DEF ScheduleInv
<1>1. /\ jobs[i].pc \in {"run", "decrement", "select", "lockDeps"}
      /\ jobs'[i].pc \in Held \ {"take"}
  <2>1. <<jobs[i].pc, jobs'[i].pc>> \in Transitions
    BY StepMoves DEF Moves
  <2> QED BY <2>1 DEF Transitions, Held
<1>2. /\ InHand' = InHand \cup {t} /\ t \in InHand
      /\ At({"panicked"})' = At({"panicked"})
  <2>1. /\ InHand' = InHand \cup {t} /\ t \in InHand
        /\ At({"panicked"})' = At({"panicked"}) \ {t} /\ t \notin At({"panicked"})
    BY <1>0, <1>1, MappedMove DEF Held
  <2> QED BY <2>1
<1>3. /\ UNCHANGED <<branches, driver>>
      /\ [u \in DOMAIN depCount |-> graph[Position(u)].deps]'
           = [u \in DOMAIN depCount |-> graph[Position(u)].deps]
  BY MappedMove
<1>4. fired' = fired /\ (finished' = finished \/ finished' = finished \cup {t})
  <2>1. Position(t) = t /\ ~SubflowStep(i)
    BY GraphFacts, SubflowStepsExcluded DEF ScheduleInv
  <2> QED BY <1>0, <1>1, <2>1 DEF JobStep, TakeWork, RunClosure, RunCondition, RunPanicking,
         Decrement, SelectBranch, LockDeps, ReleaseOne, EndJob, shared, history
<1>5. {u \in finished : u \notin InHand}' = {u \in finished : u \notin InHand}
  BY <1>2, <1>4
<1> QED BY <1>2, <1>3, <1>4, <1>5 DEF Promise!avars

LEMMA PromiseAbort ==
  ASSUME NoSubflows, NoRepeats, ScheduleInv, NEW i \in DOMAIN jobs, RunPanicking(i)
  PROVE  Promise!Next
<1>0. PICK t \in Nodes : t = jobs[i].task
  BY JobFacts DEF ScheduleInv
<1>1. JobStep(i)
  BY DEF JobStep
<1>2. jobs[i].pc = "run" /\ jobs'[i].pc = "panicked"
  <2>1. jobs \in Seq(Job) /\ jobs[i] \in Job /\ DOMAIN jobs = 1 .. Len(jobs)
    BY JobFacts, LenProperties DEF ScheduleInv
  <2> QED BY <2>1 DEF RunPanicking, Job
<1>3. /\ InHand' = InHand \ {t} /\ t \in InHand
      /\ At({"panicked"})' = At({"panicked"}) \cup {t} /\ t \notin finished
  BY <1>0, <1>1, <1>2, MappedMove DEF Held, Visited
<1>4. /\ UNCHANGED <<branches, driver>>
      /\ [u \in DOMAIN depCount |-> graph[Position(u)].deps]'
           = [u \in DOMAIN depCount |-> graph[Position(u)].deps]
  BY <1>1, MappedMove
<1>5. finished' = finished /\ fired' = fired
  BY DEF RunPanicking, history
<1>6. {u \in finished : u \notin InHand}' = {u \in finished : u \notin InHand}
  BY <1>3, <1>5
<1>7. Promise!Abort(t)
  BY <1>3, <1>4, <1>5, <1>6 DEF Promise!Abort
<1> QED BY <1>7, MappedDeps DEF Promise!Next

LEMMA PromiseRelease ==
  ASSUME NoSubflows, NoRepeats, ScheduleInv, NEW i \in DOMAIN jobs, ReleaseOne(i)
  PROVE  Promise!Next
<1>0. PICK t, s \in Nodes :
        /\ t = jobs[i].task /\ s \in graph[t].succ
        /\ fired' = fired \cup {<<t, s>>}
  BY ReleaseFacts
<1>1. JobStep(i)
  BY DEF JobStep
<1>2. jobs[i].pc = "release" /\ jobs'[i].pc = "release"
  <2>1. jobs \in Seq(Job) /\ jobs[i] \in Job /\ DOMAIN jobs = 1 .. Len(jobs)
    BY JobFacts, LenProperties DEF ScheduleInv
  <2> QED BY <2>1 DEF ReleaseOne, Job
<1>3. InHand' = InHand /\ t \in InHand /\ At({"panicked"})' = At({"panicked"})
  <2>1. /\ InHand' = InHand \cup {t} /\ t \in InHand
        /\ At({"panicked"})' = At({"panicked"}) \ {t} /\ t \notin At({"panicked"})
    BY <1>0, <1>1, <1>2, MappedMove DEF Held
  <2> QED BY <2>1
<1>4. /\ UNCHANGED <<branches, driver>>
      /\ [u \in DOMAIN depCount |-> graph[Position(u)].deps]'
           = [u \in DOMAIN depCount |-> graph[Position(u)].deps]
  BY <1>1, MappedMove
<1>5. {u \in finished : u \notin InHand}' = {u \in finished : u \notin InHand}
  BY <1>3 DEF ReleaseOne
<1>6. s \in Promise!Dependents(t)
  BY <1>0, MappedDeps
<1>7. Promise!Release(t, s)
  BY <1>0, <1>3, <1>4, <1>5, <1>6 DEF Promise!Release
<1> QED BY <1>7, MappedDeps DEF Promise!Next

LEMMA PromiseComplete ==
  ASSUME NoSubflows, NoRepeats, ScheduleInv, NEW i \in DOMAIN jobs, EndJob(i)
  PROVE  Promise!Next
<1>0. PICK t \in Nodes : t = jobs[i].task
  BY JobFacts DEF ScheduleInv
<1>1. JobStep(i)
  BY DEF JobStep
<1>2. jobs[i].pc = "release" /\ jobs'[i].pc = "ended" /\ jobs[i].succs = <<>>
  <2>1. jobs \in Seq(Job) /\ jobs[i] \in Job /\ DOMAIN jobs = 1 .. Len(jobs)
    BY JobFacts, LenProperties DEF ScheduleInv
  <2> QED BY <2>1 DEF EndJob, NewJob, Job
<1>3. /\ InHand' = InHand \ {t} /\ t \in InHand /\ t \in finished
      /\ At({"panicked"})' = At({"panicked"})
  <2>1. /\ InHand' = InHand \ {t} /\ t \in InHand /\ t \in finished
        /\ At({"panicked"})' = At({"panicked"}) \ {t} /\ t \notin At({"panicked"})
    BY <1>0, <1>1, <1>2, MappedMove DEF Held, Visited
  <2> QED BY <2>1
<1>4. /\ UNCHANGED <<branches, driver>>
      /\ [u \in DOMAIN depCount |-> graph[Position(u)].deps]'
           = [u \in DOMAIN depCount |-> graph[Position(u)].deps]
  BY <1>1, MappedMove
<1>5. finished' = finished /\ fired' = fired
  BY DEF EndJob, history
<1>6. {u \in finished : u \notin InHand}' = {u \in finished : u \notin InHand} \cup {t}
  BY <1>3, <1>5
<1>7. t \notin DOMAIN branches => \A s \in graph[t].succ : <<t, s>> \in fired
  <2>1. t \notin DOMAIN branches =>
          \A s \in graph[t].succ : s \in ToSet(jobs[i].succs) \/ <<t, s>> \in fired
    BY <1>0, <1>2 DEF ScheduleInv, SuccsInv, Visited
  <2> QED BY <1>2, <2>1, EmptyFacts
<1>8. Promise!Dependents(t) = graph[t].succ
  BY MappedDeps
<1>9. Promise!Complete(t)
  <2>1. \E S \in SUBSET Promise!Dependents(t) : fired' = fired \cup ({t} \X S)
    <3>1. fired' = fired \cup ({t} \X {}) /\ {} \in SUBSET Promise!Dependents(t)
      BY <1>5
    <3> QED BY <3>1
  <2>2. t \notin DOMAIN branches => {t} \X Promise!Dependents(t) \subseteq fired'
    BY <1>5, <1>7, <1>8
  <2> QED BY <1>3, <1>4, <1>5, <1>6, <2>1, <2>2 DEF Promise!Complete
<1> QED BY <1>9, MappedDeps DEF Promise!Next

\* The driver returns when no job is left; by then whatever could start did.
LEMMA PromiseReturn ==
  ASSUME NoSubflows, NoRepeats, ScheduleInv, CounterInv, Foreseen,
         driver = "drain", driver' = "returned", joinSet = {},
         UNCHANGED <<shared, jobs, history>>
  PROVE  Promise!Next
<1>1. \A i \in DOMAIN jobs : jobs[i].pc \in {"ended", "panicked"}
  BY DEF ScheduleInv, DriverInv, Over
<1>2. InHand = {}
  BY <1>1 DEF InHand, At, Executing
<1>3. ASSUME At({"panicked"}) = {}, NEW t \in Nodes, Unreleased(t) = {}
      PROVE  t \in finished
  <2>1. queue = <<>>
    BY Drained
  <2>2. t \in Spawned
    BY <1>3, <2>1, EmptyFacts DEF ScheduleInv, PlacesInv
  <2>3. PICK i \in DOMAIN jobs : jobs[i].task = t
    BY <2>2 DEF Spawned
  <2>4. jobs[i].pc \in Visited
    BY <1>1, <1>3, <2>3 DEF At, Visited
  <2> QED BY <2>3, <2>4 DEF ScheduleInv, PlacesInv, At
<1>4. At({"panicked"}) = {} =>
        \A t \in Promise!Tasks \ {u \in finished : u \notin InHand} : ~Promise!Runnable(t)
  BY <1>2, <1>3, MappedDeps
<1>5. /\ InHand' = InHand /\ At({"panicked"})' = At({"panicked"})
      /\ finished' = finished /\ fired' = fired
      /\ DOMAIN branches' = DOMAIN branches
  BY DEF InHand, At, shared, history
<1>6. [u \in DOMAIN depCount |-> graph[Position(u)].deps]'
        = [u \in DOMAIN depCount |-> graph[Position(u)].deps]
  BY DepsStay DEF shared
<1>7. {u \in finished : u \notin InHand}' = {u \in finished : u \notin InHand}
  BY <1>5
<1>8. Promise!Return
  BY <1>2, <1>4, <1>5, <1>6, <1>7 DEF Promise!Return
<1> QED BY <1>8 DEF Promise!Next

\* Any other step of the driver shows nothing.
LEMMA PromiseIdle ==
  ASSUME UNCHANGED <<graph, branches, depCount, finished, fired>>,
         \A labels : "take" \notin labels => At(labels)' = At(labels),
         driver' = "returned" <=> driver = "returned"
  PROVE  UNCHANGED Promise!avars
<1>1. InHand' = InHand /\ At({"panicked"})' = At({"panicked"})
  BY DEF InHand, Executing
<1>2. {u \in finished : u \notin InHand}' = {u \in finished : u \notin InHand}
  BY <1>1
<1>3. [u \in DOMAIN depCount |-> graph[Position(u)].deps]'
        = [u \in DOMAIN depCount |-> graph[Position(u)].deps]
  BY DepsStay
<1> QED BY <1>1, <1>2, <1>3 DEF Promise!avars

LEMMA PromiseStep ==
  ASSUME NoSubflows, NoRepeats, Decisive, Apart, ScheduleInv, CounterInv, [Next]_vars
  PROVE  Promise!Next \/ UNCHANGED Promise!avars
<1>1. ASSUME NEW i \in DOMAIN jobs, JobStep(i) PROVE Promise!Next \/ UNCHANGED Promise!avars
  <2>1. CASE TakeWork(i)
    BY <2>1, PromiseStart
  <2>2. CASE RunPanicking(i)
    BY <2>2, PromiseAbort
  <2>3. CASE ReleaseOne(i)
    BY <2>3, PromiseRelease
  <2>4. CASE EndJob(i)
    BY <2>4, PromiseComplete
  <2>5. CASE RunClosure(i) \/ RunCondition(i) \/ Decrement(i) \/ SelectBranch(i) \/ LockDeps(i)
    <3>1. /\ jobs[i].pc \in {"run", "decrement", "select", "lockDeps"}
          /\ <<jobs[i].pc, jobs'[i].pc>> \in Transitions
      BY <1>1, <2>5, StepMoves DEF RunClosure, RunCondition, Decrement, SelectBranch, LockDeps,
         Moves
    <3>2. jobs'[i].pc # "panicked"
      <4>1. jobs \in Seq(Job) /\ jobs[i] \in Job /\ DOMAIN jobs = 1 .. Len(jobs)
        BY JobFacts, LenProperties DEF ScheduleInv
      <4>2. RunClosure(i) => jobs'[i].pc = "decrement"
        BY <4>1 DEF RunClosure, Job
      <4>3. ASSUME RunCondition(i) PROVE jobs'[i].pc = "decrement"
        <5>1. PICK b : jobs' = [jobs EXCEPT ![i].pc = "decrement", ![i].branch = b]
          BY <4>3 DEF RunCondition
        <5> QED BY <4>1, <5>1 DEF Job
      <4>4. Decrement(i) \/ SelectBranch(i) \/ LockDeps(i) => jobs[i].pc # "run"
        BY DEF Decrement, SelectBranch, LockDeps
      <4> QED BY <2>5, <3>1, <4>2, <4>3, <4>4 DEF Transitions
    <3> QED BY <1>1, <3>1, <3>2, PromiseStutter DEF Transitions
  <2> QED BY <1>1, <2>1, <2>2, <2>3, <2>4, <2>5, SubflowStepsExcluded DEF JobStep
<1>2. CASE Spawn
  <2>1. \A labels : "take" \notin labels => At(labels)' = At(labels)
    BY <1>2, AtSpawn
  <2> QED BY <1>2, <2>1, PromiseIdle DEF Spawn, history
<1>3. CASE Drain /\ driver' # driver
  <2>1. Foreseen
    BY DEF Foreseen
  <2> QED BY <1>3, <2>1, PromiseReturn DEF Drain
<1>4. CASE SpawnedAll \/ Join \/ JoinNone \/ Check \/ (Drain /\ driver' = driver)
             \/ UNCHANGED vars
  <2>1. UNCHANGED <<shared, jobs, history>> /\ (driver' = "returned" <=> driver = "returned")
    BY <1>4 DEF SpawnedAll, Join, JoinNone, Check, Drain, vars, control
  <2>2. \A labels : At(labels)' = At(labels)
    BY <2>1 DEF At
  <2> QED BY <2>1, <2>2, PromiseIdle DEF shared, history
<1> QED BY <1>1, <1>2, <1>3, <1>4 DEF Next, Driver, Pool, Returned

\* run_async keeps the promise of TaskExecution on every graph without subflow
\* tasks whose branches can be accounted for and name no task twice (a second
\* charge at lines 252-260 of async_executor.rs would release it too early): a
\* task starts once, only when all of its dependencies have finished and released
\* it, and run_async returns when nothing runs and, unless a closure panicked,
\* nothing could still start.
THEOREM PromiseKept ==
  ASSUME NoSubflows, NoRepeats, Decisive, Apart
  PROVE  Spec => KeepsPromise
<1>1. Init => Promise!Init
  <2> SUFFICES ASSUME Init PROVE Promise!Init
    OBVIOUS
  <2>1. /\ jobs = <<>> /\ finished = {} /\ fired = {} /\ driver = "spawn" /\ ScheduleInv
    BY ScheduleInit DEF Init
  <2>2. \A labels : At(labels) = {}
    BY <2>1, EmptySeq DEF At
  <2>3. \A t \in DOMAIN depCount : graph[Position(t)].deps \subseteq DOMAIN depCount
    BY <2>1, GraphFacts DEF ScheduleInv, TypesInv
  <2> QED BY <2>1, <2>2, <2>3 DEF Promise!Init, Promise!Tasks, InHand
<1>2. ScheduleInv /\ CounterInv /\ [Next]_vars => [Promise!Next]_Promise!avars
  BY PromiseStep
<1> QED BY <1>1, <1>2, CounterAlways, PTL DEF Spec, KeepsPromise, Promise!Spec

=============================================================================
