# TLA+ verification of taskflow-rs

taskflow-rs runs directed acyclic graphs of closures on worker threads. This directory holds TLA+
models of the parts of it that are concurrent or stateful, the TLC runs that check them on small
instances, and TLAPS proofs for every value of the constants. Paths below are relative to the
repository.

## 1. Inventory

| Component | State | Operations | What is hard | Status |
|---|---|---|---|---|
| Work-queue executor (`executor.rs`, `future.rs`, `subflow.rs`) | queue, `dep_count`, `tasks_remaining`, `shutdown`, the graph | `run`, `worker_loop`, `wait`, subflow growth, branch selection | counter changed outside the mutex it is tested under; lost wakeups; unsigned wrap; panics | `Executor`, proved in part |
| Graph construction (`task.rs`, `taskflow.rs`, `condition.rs`) | `Vec<TaskNode>`, branch map | `emplace*`, `precede`, `register_branches` | identifiers are positions only while one owner adds nodes | `TaskGraph`, the initial states and the subflow actions of both executors |
| Concurrent pipeline (`pipeline.rs`) | `VecDeque`, in-flight counter, `stopped` | `push`, `try_pop`, `stop` | check outside the lock, backpressure, spurious wakeups | `ConcurrentPipeline`, proved |
| Dynamic priorities (`dynamic_priority.rs`, `Priority` in `advanced.rs`) | `index`, `reverse`, `seq`, tick counter | `push`, `pop`, `reprioritize`, `remove`, `tick`, `escalate` | an escalation pass works from a stale snapshot | `DynamicPriority`, proved |
| Preemptive cancellation (`preemptive.rs`) | flag, reason, `wakeup` mutex, watchdog threads | `cancel*`, `reset`, `check`, `deadline_guard` | timeout against cancel against reset; self-deadlock | `PreemptiveToken`, proved |
| Basic cancellation (`advanced.rs`) | flag, counter | `cancel`, `reset` | two unrelated atomics | not modelled, but for `Priority` |
| Async executor (`async_executor.rs`) | as the executor, plus a `JoinSet` | `run_async`, `execute_task` | ends when the set is empty or the counter is zero; panics are survived | `AsyncExecutor`, proved in part |
| Run combinators (`executor.rs`, `future.rs`, `async_executor.rs`) | futures, threads that claim instances | `run_n`, `run_until`, `run_many`, `run_n_sequential`, the async ones | composition of runs; an extra run; a flag nobody sets; a spent taskflow | `RunVariants` |
| Sequential schedulers (`scheduler.rs`) | heap or deques | `push`, `pop` | insertion order taken from the length | `Schedulers`, proved |
| Cycle detection (`cycle_detection.rs`) | edges, in-degrees | DFS, Kahn, Tarjan | agreement of three algorithms in any hash order | `CycleDetection` |
| Parallel algorithms (`algorithms.rs`) | chunk results | `for_each`, `transform`, `reduce`, `sort`, the scans | chunk boundaries, identity element, order of the sums | `ParallelAlgorithms` |
| Composition (`composition.rs`) | identifier map | `compose`, `compose_after`, `compose_before`, `clone_graph_into` | identifiers of two graphs; drops all but static work | `Composition` |
| Typed pipeline (`typed_pipeline.rs`) | list of stages | `stage`, `stage_async`, `execute`, `build_taskflow` | bytes read at another type | `TypedPipeline` |
| GPU streams (`gpu_stream.rs`) | pending counters | `acquire`, `record_op`, guard drop | load, test and subtract in separate instructions | `StreamPool`, proved |
| GPU devices and buffers (`gpu.rs`, `gpu_*backend.rs`, `gpu_opencl.rs`, `gpu_rocm.rs`) | buffers, streams | copies, waits, launches | what a wait covers on each backend; a wait that fails | `Transfers`, proved; with the pool in `Gpu` |
| Metrics (`metrics.rs`) | atomics and two maps | `record_*`, `reset` | peak loop; a reset that is not atomic | `Telemetry`, proved |
| Profiler (`profiler.rs`) | flag, start, statistics | `start_run`, `record_task`, `get_profile` | two locks that are never held together | `Profiling`, proved; `Reports` |
| Dashboard (`dashboard.rs`, `monitoring.rs`) | bounded history, three kinds of thread | collector, event stream, `stop` | a lock held while a client is written to; shutdown | `Dashboard`, proved; with metrics and profiler in `Monitoring` |
| Regression (`regression.rs`) | baselines | `compare` | thresholds at zero | `Reports` |
| NUMA, topology (`numa.rs`, `hwloc_topology.rs`) | the machine | worker placement | a node without processors; several sources of truth | `Placement` |
| Rendering (`flamegraph.rs`, `visualization.rs`) | none | frames, bars | minimum widths, unattributed time | `Reports`, for its geometry |
| Tests and examples (`tests/`, `examples/`) | what a program keeps | | stopping a chain of pipelines; predicates over runs | `Programs`, `SmallFlows`, `PipelineStages` |
| Debug logger, crate root, build script | | | a list under one mutex; re-exports; linker flags | not modelled |

How they interact: `Taskflow` builds the shared `Arc<Mutex<Vec<TaskNode>>>`; `Executor::run` reads
it once to fill `dep_count` and the queue and hands it to its workers, who lock it again to take a
closure or, from a subflow, to append nodes. Workers talk to each other through the queue's
condition variable and the two atomics. The parallel algorithms and the composition add tasks to a
`Taskflow` and leave running them to an executor; the combinators call `run`. The dashboard reads
the counters of `monitoring.rs` and samples them on a thread of its own. The schedulers, the
pipeline, the tokens, the streams and the metrics are libraries that closures may use; the
executor calls none of them, and the cycle detector is asked by callers only.

## 2. Plan

Done, in this order:

1. `Executor` with the abstract `TaskExecution` it implements; `ConcurrentPipeline`,
   `DynamicPriority`, `PreemptiveToken`.
2. `AsyncExecutor`, a second implementation of `TaskExecution` over the same `TaskGraph`.
3. What is built on them: `RunVariants` over the programs of the repository, `ParallelAlgorithms`,
   `Composition`, `PipelineStages`.
4. The services beside them: `StreamPool` with its proofs, `Transfers`, `Telemetry`, `Profiling`,
   `Dashboard`.
5. The sequential parts against reference definitions: `CycleDetection`, `Schedulers`,
   `Placement`, `Reports`, `TypedPipeline`.
6. The proofs: both executors with branches and panics, their refinements of `TaskExecution`, the
   escalation passes, the GPU, the sequential schedulers, the composition, the placement, the
   monitoring.

Left: the executors' invariants with subflows whose identifiers do not clash.

`TaskExecution` is the specification worth sharing: both executors promise it, and
`ParallelAlgorithms` and `RunVariants` build on that promise and on nothing else of an executor,
as `PipelineStages` builds on what is proved of `ConcurrentPipeline`.

## 3. Modules

**`TaskGraph`.** What both executors share: the graph and its branches, the shape the builders
give them (`WellFormed`; a branch may name a task more than once, as `branch` pushes without
looking), lookups by identifier (`Position` is the linear search, which matters when two subflows
give out the same identifier), the reach of a branch, wrapping counters, and the growth of the
graph by a subflow.

**`Executor`.** One behaviour is one call of `run`. `Init` is the state in which `run` has filled
`dep_count`, `tasks_remaining` and the queue and spawned its workers; `Flows` is the set of graphs
it may be given. A worker's `pc` says where it is in `worker_loop`; a step is one critical
section, one atomic instruction or one closure. The queue mutex is the one that is held across a
step: a worker that has looked at the counter keeps it until it waits (`pc = "checked"`), while
the counter itself may change; `QueueFree` says that nobody holds it. A condition returns any of
its values; a successor loses one of its count for every entry of the list that names it
(`Charges`), and is released once, when the count gets to one; a subflow executes a list of
`emplace` and `precede` operations; an async task, or a closure that panics by itself (kind
`faulty`), ends its worker. Counters wrap at `UsizeMod`.

**`AsyncExecutor`.** One behaviour is one call of `run_async`. The driver spawns, joins and
checks; `jobs` lists the calls of `execute_task` in the order of their spawning and `joinSet`
those that have not been joined. All jobs may run at once, which covers every number of runtime
threads. The dependency map stays locked while a job releases its successors one by one (`pc =
"release"`), so the driver may spawn the first of them before the last is looked at. A panic ends
the job and nothing else.

**`TaskExecution`.** What a caller of `run` may rely on: tasks start once, after what they depend
on has released them; a task releases its dependents at once or one by one; `Return` only when
nothing is running and, unless something panicked, nothing runnable is left. `KeepsPromise` of
either executor is the refinement, with a task in hand from the moment its work is taken until its
successors are released.

**`ConcurrentPipeline`.** `push` is the unlocked check, then the wait loop under the mutex; a
notification moves every waiting producer back to the acquisition of the mutex. `bufferSize` and
`maxTokens` are chosen in `Init` from `Sizes`.

**`DynamicPriority`.** The two maps as functions; `Insert` overwrites, as the Rust maps do. Each
scheduler call is atomic under its mutex; an escalation pass takes a snapshot in one step and
handles one task per step. `tickCount` is kept modulo the interval, the only way the code uses it.
The history variable `waited` counts the whole passes a push has seen; a manual change takes it
out of that count.

**`PreemptiveToken`.** The shared flag, reason and `wakeup` mutex, callers and watchdogs on a
clock. `cancel_with_reason` is three steps for whoever runs it; so is `reset`. A watchdog looks at
the time, locks, sleeps, takes the mutex again, decides and drops it. The clock is `Instant::now`.
Two history variables say why a watchdog may give up: `met` holds those that have had the flag up
since they were armed, whoever raised it and whatever was reset since; `misled` those whose wait
returned for no reason, or that were armed while a cancel whose flag a reset had taken down was
still to send its notification.

**`RunVariants`.** One call of one of the combinators of either executor, and the waits for every
future it gives. An instance runs as `TaskExecution` promises; the threads of `run_n` run one
instance each, the sequential variants make the next one when the last has ended, `run_until`
looks at the predicate between runs and, once it holds, launches the instance of the future it
returns, and the taskflows given to `run_many` may repeat, in which case the second finds its
closures gone. `ProgramsComplete` asks for the instances up to the one that meets the predicate
(`Expected`) and counts what `run_until` adds apart (`Surplus`). A panic takes the worker with it
here and only the dependents there. `Programs` holds the calls that the integration tests and the
examples make.

**`ParallelAlgorithms`.** A call creates its tasks and dependencies; the tasks then run in any
order these allow, each critical section of a closure a step. What `parallel_sort` gives is a
local that the code drops (algorithms.rs:183-187 and 250-251): it returns the taskflow only, and
the model speaks of that local. Elements are combined by concatenation, which is associative and
nothing else, so a result shows which elements went in and in which order.

**`Composition`.** Building, copying and connecting with the identifier map of `clone_graph_into`;
targets have tasks of their own, so that source and target identifiers overlap.

**`PipelineStages`.** Producers, stages, workers and collectors between pipelines, with the order
in which each program stops them. A pipeline is the bounded queue that `ConcurrentPipeline` is
proved to be. A stage that leaves on `is_stopped` leaves the queued tokens behind: `documents`
shows it, and `ProgramsComplete` excepts the programs of that kind.

**`StreamPool`.** The two strategies, one atomic access per step: `LeastPending` reads the
counters one after the other, a drop tests in one step and subtracts in another.

**`Transfers`.** The backend a device gets from what was compiled in and found; what a copy
enqueues on it (streams of the device, OpenCL's queue, or nothing for the stub); `synchronize` of
a stream, of all streams, of the device, which on OpenCL returns without having waited for a
stream (`SynchronizeNothing`; its callers are `unwaited`, whom `BarrierHolds` promises nothing). A
buffer starts with what the backend's allocation leaves: zeroes, or `Garbage`. The driver is
external: it executes each stream in order, and a wait may fail.

**`Gpu`.** The pool of a device beside its transfers: the two share the device and no variable, so
a step of `Gpu` is a step of either. `StreamsSound` is stated here.

**`Telemetry`.** The recording calls as sequences of accesses, with the compare-and-exchange loop
of the peak, against a reset that stores one zero after the other.
**`Profiling`.** The same for the profiler's two locks. **`Dashboard`.** The accept loop, the
collector, one thread per client, and `stop`; the history is bounded by `HistoryLen`; a client may
stop reading while its thread holds the lock of the history.
**`Monitoring`** is the three beside one another: they share no variable, so a step of one is a
step of the whole. `CountersTrue` is stated here.

**`CycleDetection`.** The three queries as recursive operators over an explicit state, compared
with reachability in every order the hash tables may have. **`Schedulers`.** The three queues; the
heap is ordered by the insertion number the code computes, its length. `Before` gives the order
that these numbers keep: of two tasks of one priority the first goes first as long as fewer tasks
were popped between their pushes than lie between their numbers; `TiesInOrder` of `documents`
shows what happens otherwise.
**`Placement`.** Which processors a worker is bound to, on machines as the node directories and
hwloc may report them. Packages are the Package objects of hwloc, which need not be its nodes, or
without it the nodes. A worker whose node has no processor makes RoundRobin and Sparse panic,
which ends the loop that serves the workers (`panicked`). `PlacementAssumption` says what is taken
for granted of such a report (each processor in one node, caches of one level apart; machines
whose nodes share processors, as a node of HBM beside one of DDR may, are left out), and TLC
evaluates it on every machine of the run. **`Reports`.** Statistics, baseline and verdict, the
frames of the flame graph and the bars of the timeline, in whole microseconds. `FramesNested` is
about folded stacks and about profiles whose workers were busy for no longer than the run took;
for other profiles see `FullViewShowsAll` of `documents`.
**`TypedPipeline`.** A value is the type it was written at and the stages it passed.

**`MC*`** give the constants their values. `MCLibraries`, `MCAlgorithms` and `MCServices` run
several components that do not interact, one per behaviour. `MCDocuments` and the other `MC`
modules of a violation run state what a document, a comment or a test says where the code does
otherwise. **`SmallFlows`** holds the task graphs both executors are checked on, those of the
tests and examples with conditions and subflows among them, and apart from these the flows of the
violation runs. **`DataLemmas`** holds facts about sequences, remainders, folds and sums over
finite sets, and what tasks reach in a graph (`Reach`); **`ExecutorProofs`**, **`AsyncProofs`**,
**`PipelineProofs`**, **`DynamicPriorityProofs`**, **`PreemptiveProofs`**, **`SequentialProofs`**
(schedulers, composition and placement) and **`ServiceProofs`** (GPU and monitoring) hold the
theorems.

## 4. Runs

| Run | Instance | Shows |
|---|---|---|
| `executor` | 2 workers; all acyclic graphs of up to 4 static tasks, 6 condition flows (with a task behind two branches and a branch that names a task twice), 4 of the examples, 4 with subflows, 4 with a closure that panics, 2 spent | dependencies first, one place per task, the counter covers the work, no early shutdown, complete on return, no lost wakeup, exclusive branches, `wait` returns, refinement of `TaskExecution` |
| `executor_fallback` | a condition that returns an unregistered branch | **violated**: the fallback of ADVANCED_CONDITIONS.md:118 wraps the counter and the run never ends |
| `executor_subflows` | two unordered subflows of one child | **violated**: `wait` returns with a child that never ran |
| `async` | all acyclic graphs of up to 3 static tasks and the other flows of `executor` | the loop leaves nothing behind, a panic costs its dependents only, `run_async` returns, refinement of `TaskExecution` |
| `async_fallback` | a condition that returns an unregistered branch | **violated**: `run_async` returns with the successors still queued |
| `libraries` | the pipeline: 3 producers of 2 pushes, buffer and capacity (2,2), (4,1); or the dynamic priorities: 2 tasks, 3 pushes, interval 2 | bounded buffer, bounded overrun, per-producer order, `push` returns; maps agree, every push accounted for, aged tasks are high, pop order, escalation reaches everyone |
| `priority_demotion` | 1 push | **violated**: a pass lowers a priority |
| `preemption` | 2 callers and 2 watchdogs with 2 operations, or 1 watchdog with 3; deadlines up to 1, 1 spurious wakeup | never early, reasons reported, a watchdog gives up only on a flag that was up in its time or for one of the two wakeups that `documents` shows, deadlines honoured, every thread ends |
| `preemption_reset` | 1 caller, 1 watchdog | **violated**: a reset does not disarm the watchdog (preemptive.rs:229-231) |
| `algorithms` | one of seven components per behaviour: cycle detection, parallel algorithms, schedulers, composition, placement, reports, typed pipelines | the detectors agree with reachability; every interleaving gives the sequential result; no task lost and the order each scheduler is named for; faithful copies; even placement; reports say what was recorded |
| `services` | one of seven components per behaviour: stream pool, transfers, metrics, dashboard, profiler, run combinators, pipeline stages | counters are exact and waits are barriers; what is shown is true although nothing is read under one lock; every combinator and every stage does what it was asked to, and every call returns |
| `documents` | a small instance of each component, one after the other | **violated**: 24 more statements that the code does not keep, below |

`MCDocuments` states the sentences below as predicates of the components' own specifications. A
behaviour goes through them in order: the component of a statement moves until the statement is
broken, and then comes the next. `SomeClaimKept` says that no behaviour gets to the end; the
counterexample does, and breaks every one of them on its way.

| | Statement | Where it is made | What the counterexample does |
|---|---|---|---|
| 1 | `HappensBefore` | DESIGN.md:6 | a branch names a task twice, which then runs before its other dependency |
| 2 | `ConvergenceDeadlocks` | ADVANCED_CONDITIONS.md:155-166 | `wait` returns without the task behind both branches |
| 3 | `SkippedDontBlock` | ADVANCED_CONDITIONS.md:149-150 | a task behind two branches, neither selected, is subtracted twice; the counter wraps and all workers sleep |
| 4 | `PanicEndsRun` | TESTING_ASYNC.md:32 | one worker panics on an async task, the other sleeps for ever |
| 5 | `PanicIsTold` | TESTING_ASYNC.md:32 | both workers panic; `wait` returns and tells nothing |
| 6 | `CapacityKept` | PIPELINE.md:47 | two producers pass the check together: more tokens in flight than `max_tokens` |
| 7 | `IndexUnique` | PIPELINE.md:23 | a push after a pop repeats an index |
| 8 | `RemovedIsGone` | dynamic_priority.rs:151 | a task pushed twice is removed and stays in the queue |
| 9 | `EarlyWakeIsCancel` | preemptive.rs:157-158, 312; DESIGN.md:119 | cancel, reset, `cancel_after`, and then the notification of the cancel: the watchdog leaves and the deadline is lost |
| 10 | `EarlyWakeIsCancel` | preemptive.rs:312 | the same after a spurious wakeup |
| 11 | `TiesInOrder` | scheduler.rs:75, DESIGN.md:109, ADVANCED_FEATURES.md:131 | after two pops the later of two equals is ahead |
| 12 | `PackagesNonEmpty` | hwloc_topology.rs:779-781 | without hwloc an empty node is an empty package |
| 13 | `EveryWorkerServed` | examples/advanced_features.rs:201-206 | RoundRobin panics on that node |
| 14 | `AllNodesFirst` | ADVANCED_FEATURES.md:219, numa.rs:138 | Sparse gives two nodes two workers each and the third none |
| 15 | `CriticalPathIsChain` | profiler.rs:37 | the critical path is the longest task |
| 16 | `FullViewShowsAll` | README.md:177 | of a parallel profile frames lie outside the full view |
| 17 | `DepthFromDependencies` | DESIGN.md:308 | a task with a dependency at the depth of one without |
| 18 | `ZeroesRead` | gpu.rs:119, gpu_backend.rs:141 | a thread that has written nothing reads what was in the memory |
| 19 | `DeviceWaitBlocks` | gpu.rs:63 | OpenCL's wait for the device returns with a copy to come |
| 20 | `OneRunAtATime` | RUN_VARIANTS.md:452 | two instances of `run_n` run at once |
| 21 | `IsRunningTells` | future.rs:23 | the future of `run_n` calls an instance running that is over |
| 22 | `StopsWhenMet` | executor.rs:226, 264; RUN_VARIANTS.md:482 | `run_until` runs one instance more |
| 23 | `NothingLost` | TESTING_PIPELINE.md:373-385 | stages that stop at `is_stopped` lose what is queued |
| 24 | `ProfileOfOneRun` | profiler.rs:23 | the start of one run with a task of the one before |

Bounds. Two workers are enough for every pairwise race of `worker_loop`: one decrementing, one
testing; one notifying, one about to wait; two finishing the last two dependencies of one task.
Four tasks give chains, forks, joins and diamonds. `UsizeMod` 16 is above every legitimate count
and low enough for a wrap to be seen. `MaxSpurious` allows one unprompted return of a wait. Three
producers are one more than the overrun and the stampede of `notify_all` need. Among the
priorities of `libraries`, callers ask for Low and Critical (`Levels`); Normal and High are
reached by escalation. In `preemption`, `MaxOps` counts the operations of all callers: once a
second watchdog is born no third operation begins (`FewCalls`). Three are what cancel, reset and
`cancel_after` take, with the notification of the cancel still to come; two watchdogs are what a
deadline beside another needs. `CHECK_DEADLOCK FALSE` is set for the token because callers may
stop calling and watchdogs end, for the counterexample runs of the executor, which may end in a
state where every worker sleeps, and for `algorithms`, `services` and `documents`, whose
components come to an end. The configuration of `documents` looks at the component of the current
statement only (`VIEW Seen`): the others do not move.

`algorithms` and `services` hold components that do not interact: `subject` says which one a
behaviour is about, and the others stand still. A property is guarded by its subject, except
`ServedInOrder`, `CopyFaithful`, `PlacementSound`, `StreamsSound` and `CountersTrue`, which
components that stand still satisfy: `algorithms` extends `Schedulers`, `Composition` and
`Placement`, and `services` extends `Gpu` and `Monitoring`, so the behaviours about these are
behaviours of their specifications on their variables. In `algorithms` (about 290,000 states): 3
tasks and 4 edges, repeated edges and loops included, in all orders of the tables, which is the
smallest graph with a cycle beside a path to it; 0 to 5 elements in chunks of 1 to 3, so that the
last chunk is full, short, the only one or absent; all sequences of at most 4 of the numbers 1 to
3 to sort; 4 pushes at 2 priorities, the fewest at which the insertion number of the heap repeats
among equals; sources of 3 tasks copied twice; machines of 1 to 5 processors with up to 6 workers,
one more than there are processors; profiles around the thresholds of the regression detector; 3
stages of 3 types. In `services` (about 330,000 states): 3 guards on 2 streams, with one recorded
operation each; 2 threads with a buffer each and 2 copies; 2 recording threads with 2 calls each,
enough for two raisers of the peak and a reset; 3 samples into a history of 2, 2 events sent to
one client; 2 callers of the profiler with 2 runs and 2 tasks; programs with the repeats and
threads of the examples cut to `MaxRepeats` and `MaxThreads`, and pipelines fed with at most 3
items (`MaxItems`).

Fairness. `Executor` assumes that every thread keeps running, that closures return and that a
thread waiting for a mutex gets it: holders do a bounded amount of work. Spurious wakeups are
never forced. `ConcurrentPipeline` assumes consumers that keep polling, since `push` blocks by
design; `stop` is not fair and need not happen. `AsyncExecutor` assumes that the runtime polls the
driver and, as long as some job can go on, some job; nothing is assumed of which.
`DynamicPriority` assumes that the scheduler loop goes on calling `tick`; nothing is assumed of
callers. `PreemptiveToken` assumes that time passes and threads run.

In `services`, the calls of `RunVariants` assume what `RunReturns` of the executors shows; a
device executes what is enqueued and a thread that waits for streams goes on; the accept loop of
the dashboard looks at its flag and the handle joins it, and nothing is assumed of its collector,
clients or connections; producers, readers and the main thread of a pipeline program run. Nothing
is assumed of the pool, the metrics and the profiler. `documents` states no liveness and needs no
fairness: a hang is a state in which everybody sleeps whom nobody is left to wake (`Hangs`).

`RunReturns` of `Executor` excludes graphs with async or faulty tasks, whose panic leaves the
other workers asleep for ever (`PanicEndsRun` of `documents`; `KeepsPromise`, being a safety
property, has nothing to say of it); that of `AsyncExecutor` does not. `Halted` is that state, and
the state after `wait` has returned.

## 5. Proofs

*Executor.* `LostWakeup` holds for every flow: its invariant says that between a worker's test and
its wait the mutex is held, so whoever makes the queue non-empty or raises the flag does so before
the test or has its notification still to send. All others assume `NoSubflows` and `NoRepeats`.
With growing graphs identifiers may clash, and `executor_subflows` shows that properties fail.
`NoRepeats` says that no branch names a task twice; the builder does not see to it, and
`documents` shows that `Ordering` fails without it: the task loses two of its count at once. Of
`TypeCorrect`, `Ordering` and `HandedOutOnce` the inductive invariant `ScheduleInv` is the
conjunction of: the graph is well formed (`FlowInv`), types (`TypesInv`), what the locals of a
worker say about its task (`LocalsInv`), `dep_count` of a task equals its dependencies that have
not fired (`CountInv`), who fired has finished (`ReleasedInv`), and every task is in one place and
only once its dependencies have fired (`PlacesInv`). Ordering alone is not inductive: it needs the
exact meaning of the counts.

*Completion.* A condition that takes one branch subtracts the tasks behind the others from the
counter, so the counter of `Executor` is not the number of tasks that have not run. `CounterInv`
says what it is: the number of `Live` tasks, those not yet decremented (`Pending`) and not behind
a rejected branch (`Dead`). At zero nothing is live, which gives `CounterExact`, `ShutdownInTime`
and `Completion`. They assume two more facts about conditions. `Decisive`: a task with branches
has its closure, returns registered branches only, and has no branch that reaches across two
others. `Apart`: no branch starts behind another of its condition, no task is behind two branches
of a condition that may both be left out, and when tasks behind branches of two conditions
overlap, one condition is behind the other; so no task is subtracted twice, and none that may run.
Without the first `executor_fallback` has its counterexample; every subflow-free flow that
`executor` takes from the tests and documents has both, and a flow without branches does
(`PlainFlows`). `OnlyBranchesSkipped` is the other half: what has not run when the work is
complete was behind a rejected branch. The counterexample of `documents` is one to the document,
not to this: the task behind both branches is behind the rejected one. Without `Apart`,
`SkippedDontBlock` of `documents` fails. `OneBranchRuns` (`ExclusiveBranches`) needs `Decisive`
alone: by `DecisionInv` all that a condition has released belongs to one branch.

*Refinement.* `PromiseKept` states that `Executor` without subflows and repeated branch entries
implements `TaskExecution`, branches and panics included: initial states map to initial states,
and each action to a step or a stutter. Its invariant `AccountInv` follows a task through the run:
once released it is queued, ready, in a worker's hands or finished, a panic keeps its task from
everybody else, a worker whose task has no branches still has all successors to release, and a
queued task has a worker that is to come back for it. `TaskExecution` states no fairness: the
theorem is about all it states.

*Async executor.* The same argument over jobs: every task is waiting, queued, in one job or
finished, a successor that a job has let go of has been released, and the driver forgets no job
before it is over. `TypeCorrect` and `FailureStaysLocal` (`FailureContained`) assume `NoSubflows`
and `NoRepeats`, as the code that releases successors is the same; `NothingLeft`
(`NothingLeftBehind`) and `PromiseKept` (`KeepsPromise`) assume `Decisive` and `Apart` too, and
for flows without branches nothing more (`PlainFlows`). The counter is again the number of `Live`
tasks, until the loop is left: it is left on a zero counter, when nothing is live, or on an empty
join set, when every job is over and the queue is empty. It differs from the executor in two
places. A job releases its successors one at a time, so that a rejected branch shows in what is
left of the job's list and in what has fired together; and a job that panics before its decrement
stays live for ever, which is why the second way out exists. Without `Decisive`, `async_fallback`
has its counterexample. 26 of the 32 flows of `async` have no subflow; they are all `Decisive` and
`Apart`, 7 of them have branches, and one of these (`RepeatedBranch`) names a task twice.

*Pipeline.* `BufferInv` adds to the bound that the counter equals the length, that a waiting
producer means a full buffer, and that the tokens in flight plus the producers past the check stay
within the bound of `OverrunBounded`. `FirstInFirstOut` follows an item from the check on
(`OrderInv`): its number is fixed there, it is below its producer's attempts, and all items of
that producer that are queued or popped have smaller numbers; `PipelineTypes` gives the types that
this needs.

*Stream pool.* `PoolInv` joins the types to `PendingExact` and to what a guard knows while it
looks for the least loaded stream: if no counter has changed since it began (`FreshInv`), the best
so far is the least of the streams it has seen (`ScanInv`). `CountersExact`, `NeverBelowZero` and
`LeastLoaded` follow. The counter of a stream is a cardinality plus the recorded operations, which
is why the two-step drop is safe: the guard that drops is still among those counted. `TurnsTaken`
(`RotationEven`) needs `RotationInv`: after n acquisitions stream s has been given out the number
of times that s, s + N, s + 2N, ... are below n, a count that grows by one exactly at the stream
the remainder names (`ModuloNext`, `DivisionFacts`).

*Transfers.* `TransferInv` adds three things to the types and to `BarrierHolds`: a copy carries a
value that its thread has made (`NumberInv`), a backend that copies at once leaves nothing queued
(`AtOnceInv`), and a thread that keeps to one queue at a time has all its outstanding copies on
one stream, where executing them in order leaves its two buffers with what it last wrote and what
it last asked to read, which before its first write is what the backend's allocation left there
(`CopyInv`; `Settled` is that statement for one queue). `Settled` is kept when a copy is appended
to the queue and when the driver executes its head; with nothing outstanding it is what
`CopiesArrive` says. `Covers` proves `LaunchesCover` for every size. `StreamsAlwaysSound` puts the
pool and the transfers together: `GpuSpec => []StreamsSound`, the invariant that `services`
checks.

*Monitoring.* `WhatIsShown` is `MonitoringSpec => []CountersTrue`. The counters of the metrics
agree only once every thread has made all its accesses, so `CountsInv` says what each thread has
still to add, and the totals are sums of that over the threads, as long as nothing was reset.
Every recorded size is at most the peak or in the hands of a thread that is raising it, whose
exchange fails when what it has read is no longer the peak (`PeakInv`); the current size is below
the peak or about to be (`CurrentInv`), resets or not. In the dashboard, the numbers of the
samples in the history are consecutive and end at the last sample, and the differences between
them never use up more completions than there were (`HistoryInv`); an event stream has copied a
part of the history, and what it sends is numbered upwards (`EventsInv`). `ProfileInv` says to
which run a statistic belongs: one that no start overtook belongs to the current run, unless a
caller has stored the start and is still to clear the statistics. The sums go through the lemmas
on folds in `DataLemmas`: a sum over a finite set is the same in whatever order its elements are
taken, grows with its terms, and changes by the difference when one term does.

*Schedulers.* `InOrder` is `Spec => []ServedInOrder`. `OrderInv` says that tasks are numbered as
they are pushed (`NumberInv`), that each pop in the log was due when it happened (`PastInv`), and
where the waiting tasks are: the queue is increasing (`FifoInv`); the insertion number of an entry
of the heap is the number of pushes before it less the pops before it, so that it is below that of
a later push exactly if fewer tasks were popped between the two than were pushed (`HeapInv`); and
the index of the round robin is as many deques further as there have been pushes since, which
makes the deque of a task a remainder (`RoundInv`).

*Composition.* `CopiesFaithful` is `ComposeSpec => []CopyFaithful`. `CopyInv` has two parts.
`SourceInv`: the source's tasks are numbered from one and its dependencies lead to later tasks,
which the calls need to create the copies before they connect them. `TargetInv`: the target is a
graph without cycles, every copy holds distinct tasks that were none of an earlier copy's
(`Placed`), and inside a copy two tasks are connected exactly if the tasks they were copied from
are (`SameFrom`), while an edge between two copies is one that a call was asked for (`Crossed`).
The two loops of `clone_graph_into`, over tasks and then over edges, and the `precede` calls
around it are folds: `CopiedTasksGrow` and `FoldDraws` say what they leave (the old graph, the new
tasks at the end, the edges that were drawn), and `ComposeKeeps` concludes from that for the three
calls alike.

*Placement.* `PlacedEvenly` is `PlaceSpec => []PlacementSound`, for every machine that satisfies
`PlacementAssumption` and any number of workers. `PlaceInv` says that the nodes list each
processor in one place (`Listed`), that caches of one level are apart (`CachesIs`), and that each
worker so far has what its strategy assigns to its number (`Bindings`); what remains is to know
the assignments. Round robin over N nodes and over the L processors of each is a rotation over N
times L (`TwoRounds`), cores and cache domains are rotations as they stand (`IndexFacts`), and in
a rotation nobody gets two turns more than another (`TurnsEven`). The dense strategy gives worker
w the place at which the lengths of the nodes add up to w (`OffsetFacts`, `OneOffset`), or leaves
it unbound when all places come before w (`DenseIs`). The loop panics only for RoundRobin and
Sparse and only on a machine with an empty node; until then every statement is about the workers
served.

*Dynamic priorities.* `Consistent` and `PushedOnce` follow from one invariant (`QueueInv`): keys
of different pushes differ in their sequence number, all numbers are below `seq`, and two entries
of one task make it a member of `dup`. `PriorityOrder` proves `HighestFirst` from the same
invariant: the first key has the highest priority because a key's rank is always that of one of
the four priorities. `SchedulerTypes` is a theorem of its own. `NoStarvation` (`AgedTasksHigh`)
needs `AgeInv`: an entry has risen as far as the whole passes it has waited through say
(`FloorInv`), and during a pass the rest of the snapshot either names its task once, with the
priority it still has, or the pass has raised it already (`PassInv`).

*Preemption.* The invariant follows a deadline through the watchdog: the wait is never shorter
than what is left, and a wait that ended early was ended by a notification, whose sender had
raised the flag: while the watchdog was armed or with the flag still up when it was, which makes
it one of `met`, or before a reset that came before the arming, which makes it one of `misled`
(`NoticeInv`). `TokenInv` joins it to the types; `Patience`, `DeadlinesKept`, `ReasonsKept` and
`TokenTypes` are its consequences. It holds with any number of spurious wakeups.

Assumptions are those of the modules' ASSUMEs, which TLC evaluates in the runs. The modules with
RECURSIVE operators (`CycleDetection`, `ParallelAlgorithms`, `Reports`, `RunVariants`) are for
TLC: tlapm cannot reason about them.

Only model-checked:

- liveness, which needs ENABLED;
- the executors' invariants on flows with subflows (identifiers may clash);
- `DetectorsAgree`, `ReportsSound`, `ProgramsComplete` and most of `SequentialResult`, which say
  what RECURSIVE operators compute: no prover here can unfold them.

## 6. What the models leave out

**Not modelled.** The crate root and the build script (re-exports, linker flags); the debug logger
(a list under one mutex, read by its owner); `CancellationToken` and `TaskMetadata` (a flag and a
counter that no code reads together, and a record); `CompositionParams` (a map of strings that
only a caller's factory reads); `Loop::max_iterations` (stored, read by nobody); handles of one
taskflow used on another; the SIGUSR2 path of preemption; a `run_async` future that is dropped
before it completes; device kernels and pinned memory; the text of HTML, DOT, JSON and log lines,
and the parsing of system files; `demo_multi_way_branching`, whose graph is too large for the
definition of reach by enumeration; and examples that only print.

**Abstractions.** Memory orderings weaker than sequential consistency; mutex poisoning (no code
path panics with a lock held); the contents of closures and tokens; `Weak` handles whose scheduler
is gone; escalation passes that overlap (`tick` takes `&mut self`, and a direct `escalate` is not
called beside it). `deadline_unix_ms` is write-only in the code and kept as a flag; the bool under
`wakeup` is write-only and left out. Cyclic graphs are not among the flows: the documentation
excludes them, and a run on one never ends, which no run here shows; the detector that a caller
may ask beforehand is checked on them. `ExclusiveBranches` is about which branches execute; that
tasks are subtracted twice is seen by `SkippedDontBlock` of `documents`. The regression thresholds
are compared exactly where the code uses floating point. A part of the map is example and test
programs, translated as the inputs that the executor, combinator and pipeline models run on.

## 7. Observations

Where a document, a comment, an assertion or a test says otherwise, a run of section 4 marked
**violated** shows the disagreement, and PROJECT.json lists it with the quotation. Of the
remaining observations only the first two contradict what is written down. Each is how a definition
behaves, not an assumption.

- DESIGN.md:290 says that the collector samples the metrics every so often. The event stream
  writes the history to its client with the history locked (dashboard.rs:332-338): while a client
  does not read, the collector waits for the lock and takes no sample. `Dashboard` lets a client
  do so; that `stop` returns all the same is part of `CallsReturn`, that the collector does not go
  on is in no run.
- ADVANCED_CONDITIONS.md:156, that a task behind two branches deadlocks, is not so of `run_async` either: the passing `async` run has that graph (`ConvergentFlow`), and `RunReturns` shows that it returns.
- `EscalationPolicy` accepts a tick interval of zero, and the first tick then takes a remainder by zero; the model assumes a positive one.
- `record_op` of a stream is never undone. A wait for several streams stops at the first that
  fails. The asynchronous transfer builder does not use the stream it is given. The stub backend
  moves no data. A launch configuration overflows 32 bits near the largest sizes.
- A metrics reset in the middle of a completion leaves a worker's count and the total apart, and
  the success rate can exceed one.
- The tasks of a typed pipeline's taskflow do nothing; `stage_async` drops its stage;
  `build_taskflow` without stages panics.
- `parallel_sort` sorts into a local that is dropped: its caller has no way to the result.
- A metric whose baseline is zero is never reported as worse.
- A composed copy keeps the work of tasks emplaced as cloneable; any other task is copied as a
  placeholder that prints its name.
- A task that is pushed onto the dynamic scheduler while it is queued has two entries in the
  index; `IndexAgrees` excepts it, `EachPushOnce` follows both, and `RemovedIsGone` of `documents`
  shows what comes of it.
