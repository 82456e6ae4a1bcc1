----------------------------- MODULE MCDocuments -----------------------------
(***************************************************************************)
(* What documents, comments and tests of the repository say of the code    *)
(* and the code does not do.  Each statement is a demonstration: one small *)
(* instance of a component moves until the statement is broken, and then   *)
(* comes the next demonstration.  A behaviour that reaches the end has     *)
(* broken all of them, and shows how, one after the other.                 *)
(*                                                                         *)
(* Every component starts in one initial state, and the components of the  *)
(* earlier demonstrations do not move any more: the configuration looks at *)
(* Seen only.                                                              *)
(***************************************************************************)
EXTENDS Integers, SequencesExt, FiniteSetsExt

VARIABLES
  demo,   \* the number of the demonstration
  graph, branches, taken, depCount, jobs, remaining, shutdown, spurious, pc, task, work,
  branchTaken, succs, ready, sub, main, finished, fired,
  bufferSize, maxTokens, buffer, tokensInFlight, closed, producing, attempts, stopper, idleWakes,
  delivered,
  index, reverse, seq, tickCount, snapshot, passing, dup, gone, since, waited,
  cancelled, reason, deadlineSet, holder, now, wakes, at, arg, deadline, timer, timedOut, guard,
  ops, unexplained, anonymous, wasReset, met, misled,
  scheduler, fifo, heap, lanes, current, log,
  machine, backend, nodes, caches, strategy, affinity, panicked,
  baseline, measured, folded, verdicts, tree, rects, made,
  kind, streams, copies, device, host, written, read, mixed, waits, due, unwaited,
  program, phase, instances, claimed, executed, progress,
  network, pushed, pipes, stopped, reader, held, handled, results,
  enabled, startTime, taskStats, doing, seen, clock, overtaken, profile

\* The variables of each component.
flowVars     == <<graph, branches, taken, depCount, jobs, remaining, shutdown, spurious, pc, task,
                  work, branchTaken, succs, ready, sub, main, finished, fired>>
bufferVars   == <<bufferSize, maxTokens, buffer, tokensInFlight, closed, producing, attempts,
                  stopper, idleWakes, delivered>>
dynamicVars  == <<index, reverse, seq, tickCount, snapshot, passing, dup, gone, since, waited>>
tokenVars    == <<cancelled, reason, deadlineSet, holder, now, wakes, at, arg, deadline, timer,
                  timedOut, guard, ops, unexplained, anonymous, wasReset, met, misled>>
queueVars    == <<scheduler, fifo, heap, lanes, current, log>>
placeVars    == <<machine, backend, nodes, caches, strategy, affinity, panicked>>
reportVars   == <<baseline, measured, folded, verdicts, tree, rects, made>>
deviceVars   == <<kind, streams, copies, device, host, written, read, mixed, waits, due, unwaited>>
callVars     == <<program, phase, instances, claimed, executed, progress>>
stageVars    == <<network, pushed, pipes, stopped, reader, held, handled, results>>
profileVars  == <<enabled, startTime, taskStats, doing, seen, clock, overtaken, profile>>

Small  == INSTANCE SmallFlows WITH MaxTasks <- 2
Client == INSTANCE Programs WITH MaxRepeats <- 3, MaxThreads <- 2

\* Two workers; two producers that push twice, with room for one token; one task
\* that is pushed twice.
Flow == INSTANCE Executor WITH Workers <- {1, 2}, Flows <- Small!RepeatingFlows,
                               UsizeMod <- 16, MaxSpurious <- 0, queue <- jobs
Buffer == INSTANCE ConcurrentPipeline WITH
  Producers <- {1, 2}, Consumers <- {3}, Items <- 2, Sizes <- {<<4, 1>>}, MaxSpurious <- 0,
  queue <- buffer, stopped <- closed, pc <- producing, spurious <- idleWakes
Dynamic == INSTANCE DynamicPriority WITH
  Tasks <- {1}, Levels <- {"Low"}, TickInterval <- 1, MaxPushes <- 2

\* Two callers and a watchdog whose wait never ends without a reason, and then a
\* second watchdog whose wait may.
Dogs == {3, 4}
Quiet == INSTANCE PreemptiveToken WITH
  Callers <- {1, 2}, Budgets <- {1}, Free <- 0, MaxOps <- 3, MaxTime <- 1, MaxSpurious <- 0,
  spurious <- wakes, pc <- at
Restless == INSTANCE PreemptiveToken WITH
  Callers <- {1, 2}, Budgets <- {1}, Free <- 0, MaxOps <- 4, MaxTime <- 1, MaxSpurious <- 1,
  spurious <- wakes, pc <- at

\* Tasks of one priority; four processors in three node directories, without
\* hwloc; a run of three tasks, the second after the first and the third beside
\* them on the other worker.
Queues == INSTANCE Schedulers WITH
  MaxPushes <- 4, Priorities <- {1}, NumWorkers <- 1, queue <- fifo, queues <- lanes
Place == INSTANCE Placement WITH
  MaxWorkers <- 4,
  Machines <- {[cpus |-> 4, nodeDirs |-> 3, hwlocNodes |-> <<>>, packages |-> {}, caches |-> <<>>]}

After(id) == IF id = 2 THEN {1} ELSE {}
ParallelRun ==
  [total |-> 12, workers |-> 2,
   tasks |-> <<[id |-> 1, worker |-> 0, start |-> 0, duration |-> 4],
               [id |-> 2, worker |-> 0, start |-> 4, duration |-> 8],
               [id |-> 3, worker |-> 1, start |-> 0, duration |-> 4]>>]
Report == INSTANCE Reports WITH
  Width <- 8, RowHeight <- 2, MinWidth <- 1, current <- measured,
  Inputs <- {[baseline |-> ParallelRun, current |-> ParallelRun, folded |-> <<>>]}

\* One thread and one stream of an OpenCL device; two calls of the examples, one
\* after the other; the stages of an example; one task kept over two runs.
Device == INSTANCE Transfers WITH
  Users <- {1}, NumStreams <- 1, MaxCopies <- 2, queues <- streams, made <- copies,
  Hosts <- {[compiled |-> {"OpenCL"}, otherOpenCL |-> 0,
             devices |-> [k \in {"Cuda", "Rocm", "OpenCL"} |-> 1]]}
Calls == INSTANCE RunVariants WITH Programs <- {Client!DemoRunN}
Stages == INSTANCE PipelineStages WITH
  Networks <- {Client!DemoParallelStages(2)}, MaxItems <- 2, queue <- pipes, pc <- reader
Profile == INSTANCE Profiling WITH
  Callers <- {1, 2}, MaxRuns <- 2, MaxTasks <- 1, mixed <- overtaken
-----------------------------------------------------------------------------
(* The statements.                                                         *)

\* DESIGN.md, line 6: edges encode happens-before relationships.
HappensBefore == Flow!DependenciesFirst

\* ADVANCED_CONDITIONS.md, lines 155 to 166: a task that depends on tasks of two
\* branches of a condition deadlocks the run, so wait never returns.
Convergent(t) ==
  \E c \in DOMAIN branches : \E a, b \in DOMAIN branches[c] :
    \E s \in ToSet(branches[c][a]) \ ToSet(branches[c][b]) :
      \E u \in ToSet(branches[c][b]) \ ToSet(branches[c][a]) :
        {s, u} \subseteq graph[Flow!Position(t)].deps

ConvergenceDeadlocks == main = "returned" => \A t \in DOMAIN depCount : ~Convergent(t)

\* The run hangs: wait joins workers that sleep, or have panicked, and nobody is
\* left to wake them.
Hangs == main = "join" /\ \A w \in DOMAIN pc : pc[w] \in {"waiting", "panicked"}

\* ADVANCED_CONDITIONS.md, lines 149 and 150: the tasks of branches that are not
\* selected are counted as unreachable and do not block completion.
SkippedDontBlock == ~Hangs

\* TESTING_ASYNC.md, line 32: a run of an async task by this executor, waited for,
\* panics with a message, and so does not go on for ever ...
PanicEndsRun == ~Hangs

\* ... and does not return as if it had succeeded.
PanicIsTold == main = "returned" => \A w \in DOMAIN pc : pc[w] # "panicked"

\* PIPELINE.md, line 47: max_tokens is the maximum of the tokens in flight.
CapacityKept == tokensInFlight <= maxTokens

\* PIPELINE.md, line 23: the index is a unique identifier of the token.
IndexUnique ==
  LET all == delivered \o buffer IN
  \A i, j \in DOMAIN all : i # j => all[i].index # all[j].index

\* dynamic_priority.rs, line 151: remove takes a task out of the queue without
\* executing it.  Where nothing else is called but push, a task that no handle
\* finds has been removed.
RemovedIsGone == \A k \in DOMAIN index : index[k] \in DOMAIN reverse

\* preemptive.rs, lines 157 and 312: a watchdog sleeps until the deadline and sets
\* the flag; one that is woken early finds it set already.
EarlyWakeIsCancel(d) == at[d] = "left" => d \in met

\* DESIGN.md, line 109: the heap breaks ties first in, first out.
TiesInOrder ==
  \A e, f \in heap : e.priority = f.priority /\ e.task < f.task => ~Queues!Ahead(f, e)

\* hwloc_topology.rs, lines 778 to 781: every package has at least one processor.
PackagesNonEmpty == Place!Packages # {} /\ \A p \in Place!Packages : p.cpus # {}

\* examples/advanced_features.rs, lines 201 to 206: a loop over get_worker_cpus
\* with RoundRobin prints the processors of each worker.
EveryWorkerServed == ~panicked

\* ADVANCED_FEATURES.md, line 219: Sparse spreads across all nodes first.
OnNode(n) == {i \in DOMAIN affinity : affinity[i] # {} /\ affinity[i] \subseteq ToSet(nodes[n])}

AllNodesFirst ==
  Len(affinity) = 4 =>
    \A n, k \in DOMAIN nodes :
      nodes[n] # <<>> /\ Cardinality(OnNode(k)) > 1 => OnNode(n) # {}

\* profiler.rs, line 37: the critical path is the longest dependency chain.
Chain(c) == \A i \in 1 .. Len(c) - 1 : measured.tasks[c[i]].id \in After(measured.tasks[c[i + 1]].id)

CriticalPathIsChain ==
  \A c \in BoundedSeq(DOMAIN measured.tasks, 2) :
    Chain(c) => Report!SumOf([i \in DOMAIN c |-> measured.tasks[c[i]].duration])
                  <= Report!CriticalPathDuration(measured)

\* README.md, line 177: Ctrl+click or Reset restores the full view, which is the
\* picture from 0 to its width.
FullViewShowsAll == \A r \in rects : r.x >= 0 /\ r.x + r.w <= measured.total

\* DESIGN.md, line 308: the depth of a frame comes from num_dependencies.
DepthFromDependencies ==
  \A r, s \in rects : \A t, u \in 1 .. 3 :
    /\ r.path # <<>> /\ Last(r.path) = <<"task", t>>
    /\ s.path # <<>> /\ Last(s.path) = <<"task", u>>
    /\ Cardinality(After(t)) < Cardinality(After(u))
    => s.y < r.y

\* gpu.rs, line 119, and gpu_backend.rs, line 141: a buffer is allocated zeroed, so
\* that a thread that reads what it has not written reads zeroes.
ZeroesRead ==
  \A u \in DOMAIN host : written[u] = Device!Garbage => host[u] # Device!Garbage

\* gpu.rs, line 63: synchronize of a device blocks until all its work completes; of
\* what was enqueued before the call nothing is left when it has returned.
DeviceWaitBlocks == \A u \in DOMAIN waits : Device!Passed(u)

\* RUN_VARIANTS.md, line 452: the runs of run_n are sequential, not parallel.
OneRunAtATime == Cardinality({k \in DOMAIN instances : instances[k].status = "running"}) <= 1

\* future.rs, line 23: is_running says whether the taskflow is still running, so of
\* a run that is over it says no.
IsRunningTells == \A k \in DOMAIN instances : instances[k].status = "over" => ~Calls!IsRunning(k)

\* executor.rs, line 226: a taskflow is run repeatedly until the predicate returns
\* true; RUN_VARIANTS.md, line 482, expects the sum at which that is so.
StopsWhenMet ==
  phase = "returned" /\ program.variant = "run_until" =>
    Len(instances) = Calls!StepsUntil(1, Calls!Step(1))

\* TESTING_PIPELINE.md, lines 373 to 385: as many items come out as went in.
NothingLost == Stages!Done => Len(results) = pushed

\* profiler.rs, line 23: a profile is that of a taskflow run.  No task in it was
\* recorded in a run before the one whose start it names.
ProfileOfOneRun ==
  \A i \in DOMAIN profile.tasks :
    profile.tasks[i].called > 0 => profile.tasks[i].called >= profile.start

Kept ==
  CASE demo = 1 -> HappensBefore             [] demo = 2 -> ConvergenceDeadlocks
    [] demo = 3 -> SkippedDontBlock          [] demo = 4 -> PanicEndsRun
    [] demo = 5 -> PanicIsTold
    [] demo = 6 -> CapacityKept              [] demo = 7 -> IndexUnique
    [] demo = 8 -> RemovedIsGone
    [] demo = 9 -> EarlyWakeIsCancel(3)      [] demo = 10 -> EarlyWakeIsCancel(4)
    [] demo = 11 -> TiesInOrder
    [] demo = 12 -> PackagesNonEmpty         [] demo = 13 -> EveryWorkerServed
    [] demo = 14 -> AllNodesFirst
    [] demo = 15 -> CriticalPathIsChain      [] demo = 16 -> FullViewShowsAll
    [] demo = 17 -> DepthFromDependencies
    [] demo = 18 -> ZeroesRead               [] demo = 19 -> DeviceWaitBlocks
    [] demo = 20 -> OneRunAtATime            [] demo = 21 -> IsRunningTells
    [] demo = 22 -> StopsWhenMet
    [] demo = 23 -> NothingLost
    [] demo = 24 -> ProfileOfOneRun

\* At least one of the statements holds of the code.
SomeClaimKept == demo <= 24
-----------------------------------------------------------------------------
(* The demonstrations.                                                     *)

DocumentsInit ==
  /\ demo = 1
  /\ Flow!Init /\ Buffer!PipelineInit /\ Dynamic!Init /\ Quiet!Init
  /\ Queues!Init /\ scheduler = "priority"
  /\ Place!PlaceInit /\ backend = "sysfs" /\ strategy = "RoundRobin"
  /\ Report!Init
  /\ Device!Init /\ kind = "OpenCL" /\ device = [u \in {1} |-> Device!Garbage]
  /\ Calls!Init /\ Stages!Init /\ Profile!Init

PushOrRemove == \E t \in {1} : Dynamic!Push(t, "Low") \/ Dynamic!Cancel(t)

\* The executor of the run that has broken a statement runs another graph.
AnotherRun ==
  LET flow == IF demo = 2 THEN Small!OverlappingFlow ELSE Small!AsyncFlow(demo - 2) IN
  /\ graph' = flow.graph /\ branches' = flow.branches /\ taken' = {}
  /\ depCount' = [p \in DOMAIN flow.graph |-> Cardinality(flow.graph[p].deps)]
  /\ jobs' = SetToSortSeq({p \in DOMAIN flow.graph : flow.graph[p].deps = {}}, <)
  /\ remaining' = Len(flow.graph) /\ shutdown' = FALSE /\ spurious' = 0
  /\ pc' = [w \in {1, 2} |-> "lock"] /\ task' = [w \in {1, 2} |-> Flow!NoTask]
  /\ work' = [w \in {1, 2} |-> Flow!NoWork] /\ branchTaken' = [w \in {1, 2} |-> Flow!NoBranch]
  /\ succs' = [w \in {1, 2} |-> <<>>] /\ ready' = [w \in {1, 2} |-> <<>>]
  /\ sub' = [w \in {1, 2} |-> Flow!NoSub]
  /\ main' = "notify" /\ finished' = {} /\ fired' = {}

\* Five processors in the three nodes, which leaves none empty.
Sparsely ==
  /\ machine' = [machine EXCEPT !.cpus = 5]
  /\ nodes' = Place!DetectNuma([machine EXCEPT !.cpus = 5])
  /\ caches' = Place!ProbeCaches([machine EXCEPT !.cpus = 5])
  /\ strategy' = "Sparse" /\ affinity' = <<>> /\ panicked' = FALSE
  /\ UNCHANGED backend

\* One watchdog only, and then the other.
OneDog == Quiet!Next /\ at'[4] = "unborn"

\* The main function of examples/run_variants.rs calls demo_run_until when
\* demo_run_n has returned.
CallRunUntil ==
  /\ program = Client!DemoRunN /\ phase = "returned"
  /\ program' = Client!DemoRunUntil /\ phase' = "launch"
  /\ instances' = <<>> /\ claimed' = {} /\ executed' = {} /\ progress' = 0

\* The component of a demonstration moves as long as its statement is kept; the
\* others do not move.
Moving(demos) == demo \in demos /\ Kept

DocumentsNext ==
  /\ demo' = IF Kept THEN demo ELSE demo + 1
  /\ IF Moving(1 .. 5) THEN Flow!Next
     ELSE IF demo \in 2 .. 4 THEN AnotherRun ELSE UNCHANGED flowVars
  /\ IF Moving(6 .. 7) THEN Buffer!PipelineNext ELSE UNCHANGED bufferVars
  /\ IF Moving({8}) THEN PushOrRemove ELSE UNCHANGED dynamicVars
  /\ IF Moving(9 .. 10) THEN (IF demo = 9 THEN OneDog ELSE Restless!Next) ELSE UNCHANGED tokenVars
  /\ IF Moving({11}) THEN Queues!Next ELSE UNCHANGED queueVars
  /\ IF Moving(12 .. 14) THEN Place!PlaceNext
     ELSE IF demo = 13 THEN Sparsely ELSE UNCHANGED placeVars
  /\ IF Moving(15 .. 17) THEN Report!Next ELSE UNCHANGED reportVars
  /\ IF Moving(18 .. 19) THEN Device!Next ELSE UNCHANGED deviceVars
  /\ IF Moving(20 .. 22) THEN (Calls!Next \/ CallRunUntil) ELSE UNCHANGED callVars
  /\ IF Moving({23}) THEN Stages!Next ELSE UNCHANGED stageVars
  /\ IF Moving({24}) THEN Profile!Next ELSE UNCHANGED profileVars

allVars ==
  <<demo, flowVars, bufferVars, dynamicVars, tokenVars, queueVars, placeVars,
    reportVars, deviceVars, callVars, stageVars, profileVars>>

DocumentsSpec == DocumentsInit /\ [][DocumentsNext]_allVars

\* What still matters: the component of the demonstration.
Of(demos, variables) == IF demo \in demos THEN variables ELSE <<>>

Seen ==
  <<demo, Of(1 .. 5, flowVars), Of(6 .. 7, bufferVars), Of({8}, dynamicVars),
    Of(9 .. 10, tokenVars), Of({11}, queueVars), Of(12 .. 14, placeVars),
    Of(15 .. 17, reportVars), Of(18 .. 19, deviceVars), Of(20 .. 22, callVars),
    Of({23}, stageVars), Of({24}, profileVars)>>

=============================================================================
