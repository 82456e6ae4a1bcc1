--------------------------- MODULE AsyncExecutor ---------------------------
(***************************************************************************)
(* The Tokio executor of taskflow-rs: run_async and the execute_task jobs  *)
(* it spawns into a JoinSet (src/src/async_executor.rs).                   *)
(*                                                                         *)
(* One behaviour is one call of run_async.  The driver spawns what is      *)
(* ready, waits for any one job and decides whether to go on; the jobs run *)
(* beside it and beside each other.  Init is the state in which run_async  *)
(* has filled the dependency map, the counter and the ready queue.         *)
(***************************************************************************)
EXTENDS TaskGraph

CONSTANT Flows   \* the task graphs a run may be given

ASSUME AsyncAssumption ==
  /\ UsizeMod \in Nat \ {0}
  /\ \A flow \in Flows : WellFormed(flow)

VARIABLES
  taken,       \* positions of the nodes whose work is None
  depCount,    \* dep_count: task id -> dependencies still to be released
  queue,       \* ready_queue
  remaining,   \* tasks_remaining
  jobs,        \* the calls of execute_task, in the order of their spawning
  joinSet,     \* those that join_next has not returned yet
  driver,      \* where run_async is
  finished,    \* history: positions whose closure has returned or was gone
  fired        \* history: pairs <<t, s>> such that t has released s

shared  == <<graph, branches, taken, depCount, queue, remaining>>
control == <<joinSet, driver>>
history == <<finished, fired>>
vars == <<shared, jobs, control, history>>

NewJob(t) ==
  [task |-> t, pc |-> "take", work |-> NoWork, branch |-> NoBranch, succs |-> <<>>,
   sub |-> NoSub]

Init ==
  \E flow \in Flows :
    /\ graph = flow.graph
    /\ branches = flow.branches
    /\ taken = IF flow.spent THEN DOMAIN flow.graph ELSE {}
    /\ depCount = [p \in DOMAIN flow.graph |-> Cardinality(flow.graph[p].deps)]
    /\ \E roots \in SetToSeqs({p \in DOMAIN flow.graph : flow.graph[p].deps = {}}) :
          /\ \A i, j \in DOMAIN roots : i < j => roots[i] < roots[j]
          /\ queue = roots
    /\ remaining = Len(flow.graph)
    /\ jobs = <<>> /\ joinSet = {}
    /\ driver = "spawn"
    /\ finished = {} /\ fired = {}

-----------------------------------------------------------------------------
(* The driver.                                                             *)

\* A job is over when its future has completed or its closure has panicked.
Over(i) == jobs[i].pc \in {"ended", "panicked"}

\* The guard of the ready queue lives as long as the body of the while let.
Spawn ==
  /\ driver = "spawn" /\ queue # <<>>
  /\ jobs' = Append(jobs, NewJob(Head(queue)))
  /\ joinSet' = joinSet \cup {Len(jobs) + 1}
  /\ queue' = Tail(queue)
  /\ UNCHANGED <<graph, branches, taken, depCount, remaining, driver, history>>

SpawnedAll ==
  /\ driver = "spawn" /\ queue = <<>>
  /\ driver' = "join"
  /\ UNCHANGED <<shared, jobs, joinSet, history>>

\* Mutant: the first job that panics ends the loop.
JoinUnlessFailed ==
  /\ driver = "join"
  /\ \E i \in joinSet :
        /\ Over(i)
        /\ joinSet' = joinSet \ {i}
        /\ driver' = IF jobs[i].pc = "panicked" THEN "drain" ELSE "check"
  /\ UNCHANGED <<shared, jobs, history>>

\* join_next yields any job that is over; a JoinError is printed.
Join ==
  /\ driver = "join"
  /\ \E i \in joinSet : Over(i) /\ joinSet' = joinSet \ {i}
  /\ driver' = "check"
  /\ UNCHANGED <<shared, jobs, history>>

\* Mutant: with nothing left to join the loop goes on.
JoinNoneGoesOn ==
  /\ driver = "join" /\ joinSet = {}
  /\ driver' = "check"
  /\ UNCHANGED <<shared, jobs, joinSet, history>>

JoinNone ==
  /\ driver = "join" /\ joinSet = {}
  /\ driver' = "drain"
  /\ UNCHANGED <<shared, jobs, joinSet, history>>

Check ==
  /\ driver = "check"
  /\ driver' = IF remaining = 0 THEN "drain" ELSE "spawn"
  /\ UNCHANGED <<shared, jobs, joinSet, history>>

\* The remaining jobs are joined and nothing is spawned any more.
Drain ==
  /\ driver = "drain"
  /\ \/ /\ \E i \in joinSet : Over(i) /\ joinSet' = joinSet \ {i}
        /\ UNCHANGED driver
     \/ /\ joinSet = {}
        /\ driver' = "returned"
        /\ UNCHANGED joinSet
  /\ UNCHANGED <<shared, jobs, history>>

-----------------------------------------------------------------------------
(* A job: execute_task up to the end of the closure.                       *)

\* The dependency map is locked from LockDeps to the end of the job.
DepMapFree == \A i \in DOMAIN jobs : jobs[i].pc # "release"

\* work.take() and the clone of the successors, under the graph mutex.
TakeWork(i) ==
  LET p == Position(jobs[i].task) IN
  /\ jobs[i].pc = "take"
  /\ taken' = taken \cup {p}
  /\ \E order \in SetToSeqs(graph[p].succ) :
        jobs' = [jobs EXCEPT ![i].pc = "run", ![i].succs = order,
                             ![i].work = IF p \in taken THEN NoWork ELSE graph[p].work]
  /\ UNCHANGED <<graph, branches, depCount, queue, remaining, control, history>>

\* A static closure, a future that is awaited, or nothing if the work is gone.
RunClosure(i) ==
  /\ jobs[i].pc = "run" /\ jobs[i].work.kind \in {"none", "static", "async"}
  /\ jobs' = [jobs EXCEPT ![i].pc = "decrement"]
  /\ finished' = finished \cup {Position(jobs[i].task)}
  /\ UNCHANGED <<shared, control, fired>>

RunCondition(i) ==
  /\ jobs[i].pc = "run" /\ jobs[i].work.kind = "condition"
  /\ \E b \in jobs[i].work.returns :
        jobs' = [jobs EXCEPT ![i].pc = "decrement", ![i].branch = b]
  /\ finished' = finished \cup {Position(jobs[i].task)}
  /\ UNCHANGED <<shared, control, fired>>

\* The panic ends the job; the counter keeps the task.
RunPanicking(i) ==
  /\ jobs[i].pc = "run" /\ jobs[i].work.kind = "faulty"
  /\ jobs' = [jobs EXCEPT ![i].pc = "panicked"]
  /\ UNCHANGED <<shared, control, history>>

\* The first free identifier and the base are read in two critical sections.
SubflowNextId(i) ==
  /\ jobs[i].pc = "run" /\ jobs[i].work.kind = "subflow"
  /\ jobs' = [jobs EXCEPT ![i].pc = "base",
                          ![i].sub = [NoSub EXCEPT !.next = Len(graph) + 1,
                                                   !.first = Len(graph) + 1,
                                                   !.ops = jobs[i].work.ops]]
  /\ UNCHANGED <<shared, control, history>>

SubflowBase(i) ==
  /\ jobs[i].pc = "base"
  /\ jobs' = [jobs EXCEPT ![i].pc = "body", ![i].sub.base = Len(graph)]
  /\ UNCHANGED <<shared, control, history>>

SubflowEmplace(i) ==
  LET op == Head(jobs[i].sub.ops) IN
  /\ jobs[i].pc = "body" /\ jobs[i].sub.ops # <<>>
  /\ op.name = "emplace"
  /\ graph' = Emplaced(jobs[i].sub.next, op.work)
  /\ jobs' = [jobs EXCEPT ![i].sub.next = @ + 1, ![i].sub.ops = Tail(@)]
  /\ UNCHANGED <<branches, taken, depCount, queue, remaining, control, history>>

SubflowPrecede(i) ==
  LET sub == jobs[i].sub
      op == Head(sub.ops)
  IN
  /\ jobs[i].pc = "body" /\ sub.ops # <<>>
  /\ op.name = "precede"
  /\ graph' = Preceding(sub.first + op.from - 1, sub.first + op.to - 1)
  /\ jobs' = [jobs EXCEPT ![i].sub.ops = Tail(@)]
  /\ UNCHANGED <<branches, taken, depCount, queue, remaining, control, history>>

SubflowCount(i) ==
  LET new == Len(graph) - jobs[i].sub.base IN
  /\ jobs[i].pc = "body" /\ jobs[i].sub.ops = <<>>
  /\ jobs' = [jobs EXCEPT ![i].sub.new = new,
                          ![i].pc = IF new > 0 THEN "announce" ELSE "decrement"]
  /\ finished' = finished \cup {Position(jobs[i].task)}
  /\ UNCHANGED <<shared, control, fired>>

\* Mutant: the new tasks are not added to tasks_remaining.
SubflowUnannounced(i) ==
  /\ jobs[i].pc = "announce"
  /\ jobs' = [jobs EXCEPT ![i].pc = "register"]
  /\ UNCHANGED <<shared, control, history>>

SubflowAnnounce(i) ==
  /\ jobs[i].pc = "announce"
  /\ remaining' = Plus(remaining, jobs[i].sub.new)
  /\ jobs' = [jobs EXCEPT ![i].pc = "register"]
  /\ UNCHANGED <<graph, branches, taken, depCount, queue, control, history>>

\* Mutant: the parent is subtracted as a dependency already met.
SubflowRegisterMet(i) ==
  LET sub == jobs[i].sub
      new == SubSeq(graph, sub.base + 1, sub.base + sub.new)
  IN
  /\ jobs[i].pc = "register" /\ DepMapFree
  /\ depCount' = [t \in DOMAIN depCount \cup {node.id : node \in ToSet(new)} |->
                    IF t \in DOMAIN depCount THEN depCount[t]
                    ELSE Cardinality(graph[Position(t)].deps) - 1]
  /\ queue' = queue \o RootsOf(new)
  /\ jobs' = [jobs EXCEPT ![i].pc = "decrement"]
  /\ UNCHANGED <<graph, branches, taken, remaining, control, history>>

\* Under the dependency and graph mutexes; a root that is spawned before they
\* are dropped gets no further than the graph mutex.
SubflowRegister(i) ==
  LET sub == jobs[i].sub
      new == SubSeq(graph, sub.base + 1, sub.base + sub.new)
  IN
  /\ jobs[i].pc = "register" /\ DepMapFree
  /\ depCount' = CountsWith(depCount, new)
  /\ queue' = queue \o RootsOf(new)
  /\ jobs' = [jobs EXCEPT ![i].pc = "decrement"]
  /\ UNCHANGED <<graph, branches, taken, remaining, control, history>>

-----------------------------------------------------------------------------
(* After the closure: the counter, the choice of successors, their release. *)

Decrement(i) ==
  /\ jobs[i].pc = "decrement"
  /\ remaining' = Minus(remaining, 1)
  /\ jobs' = [jobs EXCEPT ![i].pc =
                IF jobs[i].branch # NoBranch /\ jobs[i].task \in DOMAIN branches
                THEN "select" ELSE "lockDeps"]
  /\ UNCHANGED <<graph, branches, taken, depCount, queue, control, history>>

\* The tasks behind the other branches are taken off the counter; a branch
\* nobody registered falls back on all the successors.
SelectBranch(i) ==
  LET t == jobs[i].task
      b == jobs[i].branch
  IN
  /\ jobs[i].pc = "select"
  /\ remaining' = Minus(remaining, UnreachableCount(t, b) % UsizeMod)
  /\ jobs' = [jobs EXCEPT ![i].pc = "lockDeps",
                          ![i].succs = IF b \in DOMAIN branches[t] THEN branches[t][b] ELSE @]
  /\ UNCHANGED <<graph, branches, taken, depCount, queue, control, history>>

LockDeps(i) ==
  /\ jobs[i].pc = "lockDeps" /\ DepMapFree
  /\ jobs' = [jobs EXCEPT ![i].pc = "release"]
  /\ UNCHANGED <<shared, control, history>>

\* Mutant: the dependency count is not looked at.
ReleaseAtOnce(i) ==
  LET s == Head(jobs[i].succs) IN
  /\ jobs[i].pc = "release" /\ jobs[i].succs # <<>>
  /\ depCount' = [depCount EXCEPT ![s] = 0]
  /\ queue' = IF depCount[s] = 0 THEN queue ELSE Append(queue, s)
  /\ fired' = fired \cup {<<jobs[i].task, s>>}
  /\ jobs' = [jobs EXCEPT ![i].succs = Tail(@)]
  /\ UNCHANGED <<graph, branches, taken, remaining, control, finished>>

\* One successor at a time: the driver may spawn it, and it may run, before the
\* next one is looked at.
ReleaseOne(i) ==
  LET s == Head(jobs[i].succs) IN
  /\ jobs[i].pc = "release" /\ jobs[i].succs # <<>>
  /\ IF s \in DOMAIN depCount
     THEN /\ depCount' = [depCount EXCEPT ![s] = Minus(@, 1)]
          /\ queue' = IF depCount[s] = 1 THEN Append(queue, s) ELSE queue
          /\ fired' = fired \cup {<<jobs[i].task, s>>}
     ELSE UNCHANGED <<depCount, queue, fired>>
  /\ jobs' = [jobs EXCEPT ![i].succs = Tail(@)]
  /\ UNCHANGED <<graph, branches, taken, remaining, control, finished>>

EndJob(i) ==
  /\ jobs[i].pc = "release" /\ jobs[i].succs = <<>>
  /\ jobs' = [jobs EXCEPT ![i] = [NewJob(jobs[i].task) EXCEPT !.pc = "ended"]]
  /\ UNCHANGED <<shared, control, history>>

-----------------------------------------------------------------------------

Driver == Spawn \/ SpawnedAll \/ Join \/ JoinNone \/ Check \/ Drain

SubflowStep(i) ==
  \/ SubflowNextId(i) \/ SubflowBase(i) \/ SubflowEmplace(i) \/ SubflowPrecede(i)
  \/ SubflowCount(i) \/ SubflowAnnounce(i) \/ SubflowRegister(i)

JobStep(i) ==
  \/ TakeWork(i) \/ RunClosure(i) \/ RunCondition(i) \/ RunPanicking(i) \/ SubflowStep(i)
  \/ Decrement(i) \/ SelectBranch(i) \/ LockDeps(i) \/ ReleaseOne(i) \/ EndJob(i)

Pool == \E i \in DOMAIN jobs : JobStep(i)

Returned == driver = "returned" /\ UNCHANGED vars

Next == Driver \/ Pool \/ Returned

\* The runtime polls the driver, and some job as long as one can go on: jobs
\* end by themselves, so nothing is assumed of their order.
Fairness == WF_vars(Driver) /\ WF_vars(Pool)

Spec == Init /\ [][Next]_vars /\ Fairness

-----------------------------------------------------------------------------
(* Properties.                                                             *)

Executing == {"run", "base", "body", "announce", "register", "decrement"}

\* The tasks of the jobs at one of the labels.
At(labels) == {jobs[i].task : i \in {j \in DOMAIN jobs : jobs[j].pc \in labels}}

\* Types of the variables.
TypeOK ==
  /\ taken \subseteq Nat /\ finished \subseteq Nat
  /\ DOMAIN depCount \subseteq Nat \ {0}
  /\ \A t \in DOMAIN depCount : depCount[t] \in 0 .. UsizeMod - 1
  /\ queue \in Seq(Nat \ {0})
  /\ remaining \in 0 .. UsizeMod - 1
  /\ \A i \in DOMAIN jobs :
        /\ jobs[i].task \in Nat \ {0}
        /\ jobs[i].pc \in Executing \cup {"take", "select", "lockDeps", "release", "ended",
                                         "panicked"}
        /\ jobs[i].branch \in 0 .. NoBranch
        /\ jobs[i].succs \in Seq(Nat \ {0})
  /\ joinSet \subseteq DOMAIN jobs
  /\ driver \in {"spawn", "join", "check", "drain", "returned"}
  /\ fired \subseteq Nat \X Nat

\* The counter is zero, or the join set empty, only when there is nothing left
\* to spawn: once the driver only drains, no task waits in the ready queue and
\* none is still before its decrement.
NothingLeftBehind ==
  driver \in {"drain", "returned"} =>
    queue = <<>> /\ At(Executing \cup {"take"}) = {}

\* A closure that panics costs its dependents and nothing else: on return every
\* other task has run.
FailureContained ==
  driver = "returned" /\ DOMAIN branches = {} =>
    \A p \in DOMAIN graph :
      \/ p \in finished
      \/ graph[p].id \in At({"panicked"})
      \/ \E d \in graph[p].deps : Position(d) \notin finished

\* run_async returns, whether or not closures panic.
RunReturns == <>(driver = "returned")

\* The promise of TaskExecution, with a task running from the moment its work is
\* taken until its job ends.
InHand == At(Executing \cup {"select", "lockDeps", "release"})

Promise == INSTANCE TaskExecution WITH
  deps <- [t \in DOMAIN depCount |-> graph[Position(t)].deps],
  conditions <- DOMAIN branches,
  running <- InHand,
  done <- {t \in finished : t \notin InHand},
  aborted <- At({"panicked"}),
  released <- fired,
  returned <- (driver = "returned")

KeepsPromise == Promise!Spec

=============================================================================
