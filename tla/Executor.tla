------------------------------ MODULE Executor ------------------------------
(***************************************************************************)
(* The work-queue executor of taskflow-rs: Executor::run and the           *)
(* worker_loop its threads execute (src/src/executor.rs), together with    *)
(* the handles through which a running subflow task grows the graph        *)
(* (src/src/subflow.rs, src/src/task.rs).                                  *)
(*                                                                         *)
(* One behaviour is one call of run on one task graph.  Init is the state  *)
(* in which run has filled the dependency map and the queue and spawned    *)
(* its workers; every later step is one critical section, one atomic       *)
(* instruction or one closure of a worker.                                 *)
(***************************************************************************)
EXTENDS TaskGraph

CONSTANTS
  Workers,      \* the threads spawned by run, num_workers of them
  Flows,        \* the task graphs a run may be given
  MaxSpurious   \* bound: how many waits may return without a notification

ASSUME ExecutorAssumption ==
  /\ Workers # {} /\ IsFiniteSet(Workers)
  /\ UsizeMod \in Nat \ {0}
  /\ MaxSpurious \in Nat
  /\ \A flow \in Flows : WellFormed(flow)

VARIABLES
  taken,        \* positions of the nodes whose work is None
  depCount,     \* dep_count: task id -> dependencies still to be released
  queue,        \* VecDeque of task ids under the queue mutex
  remaining,    \* tasks_remaining
  shutdown,     \* the flag the workers stop on
  spurious,     \* wait returns without notification so far (a bound)
  pc,           \* where each worker is in worker_loop
  task,         \* task_id
  work,         \* work, as taken from the node
  branchTaken,  \* branch_taken
  succs,        \* successors, then successors_to_activate
  ready,        \* ready_tasks
  sub,          \* the locals of the subflow branch
  main,         \* the thread that called run and then wait
  finished,     \* history: positions whose closure has returned or was gone
  fired         \* history: pairs <<t, s>> such that t has released s

shared  == <<graph, branches, taken, depCount, queue, remaining, shutdown>>
locals  == <<task, work, branchTaken, succs, ready, sub>>
history == <<finished, fired>>
vars == <<shared, spurious, pc, locals, main, history>>

-----------------------------------------------------------------------------
(* Locks and notifications.                                                *)

\* Mutant: the counter is read without holding the queue mutex.
QueueUnguarded == TRUE

\* The queue mutex is held between a worker's look at tasks_remaining and its
\* wait on the condition variable.
QueueFree == \A v \in Workers : pc[v] # "checked"

Goto(w, label) == pc' = [pc EXCEPT ![w] = label]

\* condvar.notify_all(): every waiter will contend for the queue mutex again.
NotifyAllThen(w, label) ==
  pc' = [v \in Workers |-> IF v = w THEN label
                           ELSE IF pc[v] = "waiting" THEN "lock" ELSE pc[v]]

-----------------------------------------------------------------------------
(* run: the dependency map, the counter and the initial queue.             *)

Init ==
  \E flow \in Flows :
    /\ graph = flow.graph
    /\ branches = flow.branches
    /\ taken = IF flow.spent THEN DOMAIN flow.graph ELSE {}
    /\ depCount = [p \in DOMAIN flow.graph |-> Cardinality(flow.graph[p].deps)]
    /\ \E roots \in SetToSeqs({p \in DOMAIN flow.graph : flow.graph[p].deps = {}}) :
          /\ \A i, j \in DOMAIN roots : i < j => roots[i] < roots[j]
          /\ queue = roots
    /\ remaining = Len(flow.graph)
    /\ shutdown = FALSE
    /\ spurious = 0
    /\ pc = [w \in Workers |-> "lock"]
    /\ task = [w \in Workers |-> NoTask]
    /\ work = [w \in Workers |-> NoWork]
    /\ branchTaken = [w \in Workers |-> NoBranch]
    /\ succs = [w \in Workers |-> <<>>]
    /\ ready = [w \in Workers |-> <<>>]
    /\ sub = [w \in Workers |-> NoSub]
    /\ main = "notify"
    /\ finished = {}
    /\ fired = {}

\* run wakes the workers once they are spawned.
MainNotify ==
  /\ main = "notify"
  /\ main' = "join"
  /\ pc' = [v \in Workers |-> IF pc[v] = "waiting" THEN "lock" ELSE pc[v]]
  /\ UNCHANGED <<shared, spurious, locals, history>>

\* Mutant: wait joins one handle only.
MainReturnEarly ==
  /\ main = "join"
  /\ \E w \in Workers : pc[w] \in {"done", "panicked"}
  /\ main' = "returned"
  /\ UNCHANGED <<shared, spurious, pc, locals, history>>

\* TaskflowFuture::wait joins every worker and ignores how it ended.
MainReturn ==
  /\ main = "join"
  /\ \A w \in Workers : pc[w] \in {"done", "panicked"}
  /\ main' = "returned"
  /\ UNCHANGED <<shared, spurious, pc, locals, history>>

-----------------------------------------------------------------------------
(* The loop around the queue.                                              *)

\* Mutant: front() in the place of pop_front().
PopFront(w) ==
  /\ pc[w] = "lock" /\ QueueFree
  /\ queue # <<>>
  /\ task' = [task EXCEPT ![w] = Head(queue)]
  /\ Goto(w, "take")
  /\ UNCHANGED <<shared, spurious, work, branchTaken, succs, ready, sub, main, history>>

Pop(w) ==
  /\ pc[w] = "lock" /\ QueueFree
  /\ queue # <<>>
  /\ task' = [task EXCEPT ![w] = Head(queue)]
  /\ queue' = Tail(queue)
  /\ Goto(w, "take")
  /\ UNCHANGED <<graph, branches, taken, depCount, remaining, shutdown, spurious,
                 work, branchTaken, succs, ready, sub, main, history>>

ExitOnShutdown(w) ==
  /\ pc[w] = "lock" /\ QueueFree
  /\ queue = <<>> /\ shutdown
  /\ Goto(w, "done")
  /\ UNCHANGED <<shared, spurious, locals, main, history>>

\* Mutant: an empty queue is taken for the end of the run.
DetectEmptyQueue(w) ==
  /\ pc[w] = "lock" /\ QueueFree
  /\ queue = <<>> /\ ~shutdown
  /\ shutdown' = TRUE
  /\ Goto(w, "notifyExit")
  /\ UNCHANGED <<graph, branches, taken, depCount, queue, remaining, spurious,
                 locals, main, history>>

\* Nothing queued and nothing outstanding: raise the flag under the mutex,
\* drop it, and wake the others in a step of its own.
DetectCompletion(w) ==
  /\ pc[w] = "lock" /\ QueueFree
  /\ queue = <<>> /\ ~shutdown
  /\ remaining = 0
  /\ shutdown' = TRUE
  /\ Goto(w, "notifyExit")
  /\ UNCHANGED <<graph, branches, taken, depCount, queue, remaining, spurious,
                 locals, main, history>>

\* Mutant: the flag goes up and nobody is told.
NotifyExitSilently(w) ==
  /\ pc[w] = "notifyExit"
  /\ Goto(w, "done")
  /\ UNCHANGED <<shared, spurious, locals, main, history>>

NotifyExit(w) ==
  /\ pc[w] = "notifyExit"
  /\ NotifyAllThen(w, "done")
  /\ UNCHANGED <<shared, spurious, locals, main, history>>

\* tasks_remaining is read here and may change before the wait begins: only
\* the queue is protected by the mutex this worker holds.
SeeOutstanding(w) ==
  /\ pc[w] = "lock" /\ QueueFree
  /\ queue = <<>> /\ ~shutdown
  /\ remaining # 0
  /\ Goto(w, "checked")
  /\ UNCHANGED <<shared, spurious, locals, main, history>>

Wait(w) ==
  /\ pc[w] = "checked"
  /\ Goto(w, "waiting")
  /\ UNCHANGED <<shared, spurious, locals, main, history>>

\* Condvar::wait may return without a notification.
WakeSpuriously(w) ==
  /\ pc[w] = "waiting"
  /\ spurious < MaxSpurious
  /\ spurious' = spurious + 1
  /\ Goto(w, "lock")
  /\ UNCHANGED <<shared, locals, main, history>>

\* The graph mutex covers work.take() and the clone of the successor set,
\* whose iteration order is unspecified.
TakeWork(w) ==
  LET p == Position(task[w]) IN
  /\ pc[w] = "take"
  /\ work' = [work EXCEPT ![w] = IF p \in taken THEN NoWork ELSE graph[p].work]
  /\ taken' = taken \cup {p}
  /\ \E order \in SetToSeqs(graph[p].succ) : succs' = [succs EXCEPT ![w] = order]
  /\ Goto(w, "run")
  /\ UNCHANGED <<graph, branches, depCount, queue, remaining, shutdown, spurious,
                 task, branchTaken, ready, sub, main, history>>

-----------------------------------------------------------------------------
(* The closure, outside every lock.                                        *)

\* The work was gone already: the task counts as a static one that does nothing.
RunNothing(w) ==
  /\ pc[w] = "run" /\ work[w].kind = "none"
  /\ finished' = finished \cup {Position(task[w])}
  /\ Goto(w, "decrement")
  /\ UNCHANGED <<shared, spurious, locals, main, fired>>

RunStatic(w) ==
  /\ pc[w] = "run" /\ work[w].kind = "static"
  /\ finished' = finished \cup {Position(task[w])}
  /\ Goto(w, "decrement")
  /\ UNCHANGED <<shared, spurious, locals, main, fired>>

RunCondition(w) ==
  /\ pc[w] = "run" /\ work[w].kind = "condition"
  /\ \E b \in work[w].returns : branchTaken' = [branchTaken EXCEPT ![w] = b]
  /\ finished' = finished \cup {Position(task[w])}
  /\ Goto(w, "decrement")
  /\ UNCHANGED <<shared, spurious, task, work, succs, ready, sub, main, fired>>

\* An async task panics in this executor, and a closure that panics takes its
\* worker thread with it.
RunPanicking(w) ==
  /\ pc[w] = "run" /\ work[w].kind \in {"async", "faulty"}
  /\ Goto(w, "panicked")
  /\ UNCHANGED <<shared, spurious, locals, main, history>>

\* The first free identifier and the base of the new nodes are read in two
\* separate critical sections.
SubflowNextId(w) ==
  /\ pc[w] = "run" /\ work[w].kind = "subflow"
  /\ sub' = [sub EXCEPT ![w] = [NoSub EXCEPT !.next  = Len(graph) + 1,
                                             !.first = Len(graph) + 1,
                                             !.ops   = work[w].ops]]
  /\ Goto(w, "base")
  /\ UNCHANGED <<shared, spurious, task, work, branchTaken, succs, ready, main, history>>

\* Mutant: the first free identifier is taken for the number of nodes.
SubflowBaseFromId(w) ==
  /\ pc[w] = "base"
  /\ sub' = [sub EXCEPT ![w].base = sub[w].next]
  /\ Goto(w, "body")
  /\ UNCHANGED <<shared, spurious, task, work, branchTaken, succs, ready, main, history>>

SubflowBase(w) ==
  /\ pc[w] = "base"
  /\ sub' = [sub EXCEPT ![w].base = Len(graph)]
  /\ Goto(w, "body")
  /\ UNCHANGED <<shared, spurious, task, work, branchTaken, succs, ready, main, history>>

\* Subflow::emplace and its variants: an identifier from the subflow's own
\* counter, then a push under the graph mutex.
SubflowEmplace(w) ==
  LET op == Head(sub[w].ops) IN
  /\ pc[w] = "body" /\ sub[w].ops # <<>>
  /\ op.name = "emplace"
  /\ graph' = Emplaced(sub[w].next, op.work)
  /\ sub' = [sub EXCEPT ![w].next = @ + 1, ![w].ops = Tail(@)]
  /\ UNCHANGED <<branches, taken, depCount, queue, remaining, shutdown, spurious, pc,
                 task, work, branchTaken, succs, ready, main, history>>

\* TaskHandle::precede between two of the subflow's handles: both ends are
\* looked up by identifier.
SubflowPrecede(w) ==
  LET op == Head(sub[w].ops) IN
  /\ pc[w] = "body" /\ sub[w].ops # <<>>
  /\ op.name = "precede"
  /\ graph' = Preceding(sub[w].first + op.from - 1, sub[w].first + op.to - 1)
  /\ sub' = [sub EXCEPT ![w].ops = Tail(@)]
  /\ UNCHANGED <<branches, taken, depCount, queue, remaining, shutdown, spurious, pc,
                 task, work, branchTaken, succs, ready, main, history>>

SubflowCount(w) ==
  LET new == Len(graph) - sub[w].base IN
  /\ pc[w] = "body" /\ sub[w].ops = <<>>
  /\ sub' = [sub EXCEPT ![w].new = new]
  /\ finished' = finished \cup {Position(task[w])}
  /\ Goto(w, IF new > 0 THEN "announce" ELSE "decrement")
  /\ UNCHANGED <<shared, spurious, task, work, branchTaken, succs, ready, main, fired>>

\* Mutant: the new tasks are not added to tasks_remaining.
SubflowUnannounced(w) ==
  /\ pc[w] = "announce"
  /\ Goto(w, "register")
  /\ UNCHANGED <<shared, spurious, locals, main, history>>

SubflowAnnounce(w) ==
  /\ pc[w] = "announce"
  /\ remaining' = Plus(remaining, sub[w].new)
  /\ Goto(w, "register")
  /\ UNCHANGED <<graph, branches, taken, depCount, queue, shutdown, spurious,
                 locals, main, history>>

\* Mutant: the parent is subtracted as a dependency already met.
SubflowRegisterMet(w) ==
  LET new == SubSeq(graph, sub[w].base + 1, sub[w].base + sub[w].new) IN
  /\ pc[w] = "register" /\ QueueFree
  /\ depCount' = [t \in DOMAIN depCount \cup {node.id : node \in ToSet(new)} |->
                    IF t \in DOMAIN depCount THEN depCount[t]
                    ELSE Cardinality(graph[Position(t)].deps) - 1]
  /\ queue' = queue \o RootsOf(new)
  /\ Goto(w, "notifySub")
  /\ UNCHANGED <<graph, branches, taken, remaining, shutdown, spurious, locals,
                 main, history>>

\* Under the dependency, graph and queue mutexes: the nodes at the positions
\* counted above enter the dependency map, those without dependencies the queue.
SubflowRegister(w) ==
  LET new == SubSeq(graph, sub[w].base + 1, sub[w].base + sub[w].new) IN
  /\ pc[w] = "register" /\ QueueFree
  /\ depCount' = CountsWith(depCount, new)
  /\ queue' = queue \o RootsOf(new)
  /\ Goto(w, "notifySub")
  /\ UNCHANGED <<graph, branches, taken, remaining, shutdown, spurious, locals,
                 main, history>>

SubflowNotify(w) ==
  /\ pc[w] = "notifySub"
  /\ NotifyAllThen(w, "decrement")
  /\ UNCHANGED <<shared, spurious, locals, main, history>>

-----------------------------------------------------------------------------
(* After the closure: the counter, the choice of successors, their release. *)

Decrement(w) ==
  /\ pc[w] = "decrement"
  /\ remaining' = Minus(remaining, 1)
  /\ Goto(w, IF branchTaken[w] # NoBranch /\ task[w] \in DOMAIN branches
             THEN "select" ELSE "release")
  /\ UNCHANGED <<graph, branches, taken, depCount, queue, shutdown, spurious,
                 locals, main, history>>

\* Mutant: the successors of every branch are activated.
SelectAll(w) ==
  /\ pc[w] = "select"
  /\ Goto(w, "release")
  /\ UNCHANGED <<shared, spurious, locals, main, history>>

\* The tasks behind the other branches are taken off the counter; a branch
\* nobody registered falls back on all the successors.
SelectBranch(w) ==
  LET t == task[w]
      b == branchTaken[w]
  IN
  /\ pc[w] = "select"
  /\ remaining' = Minus(remaining, UnreachableCount(t, b) % UsizeMod)
  /\ succs' = IF b \in DOMAIN branches[t]
              THEN [succs EXCEPT ![w] = branches[t][b]] ELSE succs
  /\ Goto(w, "release")
  /\ UNCHANGED <<graph, branches, taken, depCount, queue, shutdown, spurious,
                 task, work, branchTaken, ready, sub, main, history>>

\* The locals of one iteration go out of scope.
EndIteration(w) ==
  /\ task' = [task EXCEPT ![w] = NoTask]
  /\ work' = [work EXCEPT ![w] = NoWork]
  /\ branchTaken' = [branchTaken EXCEPT ![w] = NoBranch]
  /\ succs' = [succs EXCEPT ![w] = <<>>]
  /\ ready' = [ready EXCEPT ![w] = <<>>]
  /\ sub' = [sub EXCEPT ![w] = NoSub]

\* How often t is among the first n entries of list.
Charges(list, n, t) == Cardinality({i \in 1 .. n : list[i] = t})

\* Mutant: the first dependency to finish releases the successor.
ReleaseOnFirst(w) ==
  LET known == ToSet(succs[w]) \cap DOMAIN depCount
      freed == {s \in known : depCount[s] = Cardinality(graph[Position(s)].deps)}
  IN
  /\ pc[w] = "release"
  /\ depCount' = [s \in DOMAIN depCount |->
                    IF s \in known THEN Minus(depCount[s], 1) ELSE depCount[s]]
  /\ fired' = fired \cup ({task[w]} \X known)
  /\ \E list \in SetToSeqs(freed) : ready' = [ready EXCEPT ![w] = list]
  /\ Goto(w, IF freed = {} THEN "lock" ELSE "push")
  /\ UNCHANGED <<graph, branches, taken, queue, remaining, shutdown, spurious, task,
                 work, branchTaken, succs, sub, main, finished>>

\* Under the dependency mutex each entry of the list takes one dependency from
\* its successor, twice where the list names it twice; the entry that finds the
\* count at one makes the successor ready.
Release(w) ==
  LET s == succs[w]
      due == {i \in DOMAIN s : /\ s[i] \in DOMAIN depCount
                               /\ Minus(depCount[s[i]], Charges(s, i - 1, s[i])) = 1}
  IN
  /\ pc[w] = "release"
  /\ depCount' = [t \in DOMAIN depCount |-> Minus(depCount[t], Charges(s, Len(s), t))]
  /\ fired' = fired \cup ({task[w]} \X (ToSet(s) \cap DOMAIN depCount))
  /\ IF due = {}
     THEN Goto(w, "lock") /\ EndIteration(w)
     ELSE /\ Goto(w, "push")
          /\ \E order \in SetToSeqs(due) :
                /\ \A i, j \in DOMAIN order : i < j => order[i] < order[j]
                /\ ready' = [ready EXCEPT ![w] = [i \in DOMAIN order |-> s[order[i]]]]
          /\ UNCHANGED <<task, work, branchTaken, succs, sub>>
  /\ UNCHANGED <<graph, branches, taken, queue, remaining, shutdown, spurious, main, finished>>

PushReady(w) ==
  /\ pc[w] = "push" /\ QueueFree
  /\ queue' = queue \o ready[w]
  /\ EndIteration(w)
  /\ Goto(w, "notify")
  /\ UNCHANGED <<graph, branches, taken, depCount, remaining, shutdown, spurious, main, history>>

NotifyReady(w) ==
  /\ pc[w] = "notify"
  /\ NotifyAllThen(w, "lock")
  /\ UNCHANGED <<shared, spurious, locals, main, history>>

-----------------------------------------------------------------------------

QueueStep(w) ==
  \/ Pop(w) \/ ExitOnShutdown(w) \/ DetectCompletion(w) \/ NotifyExit(w)
  \/ SeeOutstanding(w) \/ Wait(w)

SubflowStep(w) ==
  \/ SubflowNextId(w) \/ SubflowBase(w) \/ SubflowEmplace(w) \/ SubflowPrecede(w)
  \/ SubflowCount(w) \/ SubflowAnnounce(w) \/ SubflowRegister(w) \/ SubflowNotify(w)

TaskStep(w) ==
  \/ TakeWork(w) \/ RunNothing(w) \/ RunStatic(w) \/ RunCondition(w) \/ RunPanicking(w)
  \/ Decrement(w) \/ SelectBranch(w) \/ Release(w) \/ PushReady(w) \/ NotifyReady(w)

WorkerStep(w) == QueueStep(w) \/ SubflowStep(w) \/ TaskStep(w)

\* wait has returned, or a panic has taken away the worker whose task the
\* others wait for: nothing moves any more.
Halted ==
  /\ \/ main = "returned"
     \/ /\ \E w \in Workers : pc[w] = "panicked"
        /\ \A w \in Workers : pc[w] \in {"panicked", "waiting"}
        /\ main = "join"
  /\ UNCHANGED vars

Next ==
  \/ MainNotify \/ MainReturn
  \/ \E w \in Workers : WorkerStep(w) \/ WakeSpuriously(w)
  \/ Halted

\* Every thread keeps running and every closure returns; a worker waiting for
\* the queue mutex gets it, because its holders come and go finitely often.
Fairness ==
  /\ WF_vars(MainNotify \/ MainReturn)
  /\ \A w \in Workers : WF_vars(WorkerStep(w))

Spec == Init /\ [][Next]_vars /\ Fairness

-----------------------------------------------------------------------------
(* Properties.                                                             *)

Labels == {"lock", "checked", "waiting", "done", "panicked", "take", "run",
           "base", "body", "announce", "register", "notifySub", "decrement",
           "select", "release", "push", "notify", "notifyExit"}

\* Labels at which a worker still has the closure of its task to account for.
Executing == {"run", "base", "body", "announce", "register", "notifySub", "decrement"}

Holding(S) == {task[w] : w \in {v \in Workers : pc[v] \in S}}

\* Types of the variables.
TypeOK ==
  /\ taken \subseteq Nat /\ finished \subseteq Nat
  /\ DOMAIN depCount \subseteq Nat \ {0}
  /\ \A t \in DOMAIN depCount : depCount[t] \in 0 .. UsizeMod - 1
  /\ queue \in Seq(Nat \ {0})
  /\ remaining \in 0 .. UsizeMod - 1
  /\ shutdown \in BOOLEAN
  /\ spurious \in 0 .. MaxSpurious
  /\ pc \in [Workers -> Labels]
  /\ task \in [Workers -> Nat]
  /\ branchTaken \in [Workers -> Nat]
  /\ succs \in [Workers -> Seq(Nat \ {0})]
  /\ ready \in [Workers -> Seq(Nat \ {0})]
  /\ main \in {"notify", "join", "returned"}
  /\ fired \subseteq Nat \X Nat

\* A task's closure runs only after the closure of every task it depends on
\* has returned (DESIGN.md, line 6: edges encode happens-before relationships;
\* the dependency counts of run and worker_loop, seen from the user's side).
DependenciesFirst ==
  \A w \in Workers : pc[w] = "run" =>
    \A d \in graph[Position(task[w])].deps : Position(d) \in finished

\* A task is in one place at most: once in the queue, in the ready list of one
\* worker or in the hands of one worker, and nowhere once it has been released
\* by the worker that ran it (the test prev == 1 hands it out exactly once).
ScheduledOnce ==
  LET held == Executing \cup {"take", "select", "release", "push"}
      Owned(w) == IF pc[w] \in held \ {"push"} THEN {task[w]} ELSE ToSet(ready[w])
  IN
  /\ IsInjective(queue)
  /\ \A w \in Workers : Owned(w) \cap ToSet(queue) = {}
  /\ \A v, w \in Workers : v # w => Owned(v) \cap Owned(w) = {}
  /\ \A t \in ToSet(queue) \cup Holding({"take"}) \cup UNION {ToSet(ready[w]) : w \in Workers} :
        Position(t) \notin finished

\* tasks_remaining covers all the work in sight: never less than what is
\* queued, ready or executing, never more than the graph has nodes.
CounterCoversWork ==
  /\ remaining <= Len(graph)
  /\ remaining >= Cardinality(ToSet(queue) \cup Holding(Executing \cup {"take"})
                                \cup UNION {ToSet(ready[w]) : w \in Workers})

\* The shutdown flag goes up only when no task is queued, ready or executing.
NoEarlyShutdown ==
  shutdown =>
    /\ queue = <<>>
    /\ \A w \in Workers : pc[w] \notin Executing \cup {"take", "push"}

\* Without branches to choose from, wait returns after every closure has been
\* executed, unless a panic cut the run short.
CompleteOnReturn ==
  main = "returned" /\ DOMAIN branches = {} /\ (\A w \in Workers : pc[w] = "done")
    => DOMAIN graph \subseteq finished

\* A worker sleeps on the condition variable while there is something for it
\* to see only if the thread that put it there is about to notify.
NoLostWakeup ==
  \A w \in Workers : pc[w] = "waiting" =>
    /\ queue # <<>> => \E v \in Workers : pc[v] \in {"notify", "notifySub"}
    /\ shutdown => \E v \in Workers : pc[v] = "notifyExit"

\* ADVANCED_CONDITIONS.md: tasks in other branches than the selected one are
\* never executed; so no two tasks special to different branches both run.
ExclusiveBranches ==
  \A c \in DOMAIN branches : \A a, b \in DOMAIN branches[c] :
    \A s \in ToSet(branches[c][a]) \ ToSet(branches[c][b]) :
      \A t \in ToSet(branches[c][b]) \ ToSet(branches[c][a]) :
        ~ (Position(s) \in finished /\ Position(t) \in finished)

\* wait returns: all workers end, if no closure panics.
RunReturns ==
  (\A p \in DOMAIN graph : graph[p].work.kind \notin {"async", "faulty"}) ~> (main = "returned")

\* The executor keeps the promise of TaskExecution: a task is running from
\* the moment its work is taken until its dependents are released.
InHand == Holding(Executing \cup {"select", "release"})

Promise == INSTANCE TaskExecution WITH
  deps <- [t \in DOMAIN depCount |-> graph[Position(t)].deps],
  conditions <- DOMAIN branches,
  running <- InHand,
  done <- {t \in finished : t \notin InHand},
  aborted <- Holding({"panicked"}),
  released <- fired,
  returned <- (main = "returned")

KeepsPromise == Promise!Spec

=============================================================================
