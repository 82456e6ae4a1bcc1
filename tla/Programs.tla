------------------------------ MODULE Programs ------------------------------
(***************************************************************************)
(* The client programs of the repository as calls of RunVariants: the      *)
(* integration tests (src/tests/integration_tests.rs) and the examples     *)
(* (src/examples) that run static tasks.  A definition bears the name of   *)
(* the function it stands for, or one near it where two examples share a   *)
(* name; what the closures compute and print is left out, but for the      *)
(* counters that a predicate of run_until reads.                           *)
(***************************************************************************)
EXTENDS Naturals, FiniteSetsExt

CONSTANTS
  MaxRepeats,   \* bound: the equal tasks, stages or instances of a loop that are kept
  MaxThreads    \* bound: the equal threads that poll a pipeline

ASSUME ProgramsAssumption == MaxRepeats \in Nat \ {0} /\ MaxThreads \in Nat \ {0}

Some(n) == Min({n, MaxRepeats})

\* A flow: what each task depends on, and the tasks that panic.
Flow(deps, faulty) == [deps |-> deps, faulty |-> faulty]
Graph(deps) == Flow(deps, {})
Wide(n)     == Graph([t \in 1 .. Some(n) |-> {}])
Chain(n)    == Graph([t \in 1 .. n |-> 1 .. t - 1 \ 1 .. t - 2])
FanOut(n)   == Graph([t \in 1 .. Some(n) + 1 |-> IF t = 1 THEN {} ELSE {1}])
FanIn(n)    == Graph([t \in 1 .. Some(n) + 1 |-> IF t = Some(n) + 1 THEN 1 .. Some(n) ELSE {}])
Diamond     == Graph(<<{}, {1}, {1}, {2, 3}>>)
Layers(stages, width) ==
  Graph([t \in 1 .. Some(stages) * Some(width) |->
           {d \in 1 .. t - 1 : ((d - 1) \div Some(width)) + 1 = (t - 1) \div Some(width)}])

Call(variant, workers, n, flows, objects, steps, goal) ==
  [variant |-> variant, workers |-> workers, n |-> n, flows |-> flows,
   objects |-> objects, steps |-> steps, goal |-> goal]
Run(workers, flow)          == Call("run", workers, 1, <<flow>>, <<>>, <<1>>, 0)
RunAsync(flow)              == Call("async_run", 1, 1, <<flow>>, <<>>, <<1>>, 0)
RunN(variant, w, n, flow)   == Call(variant, w, Some(n), <<flow>>, <<>>, <<1>>, 0)
Until(variant, steps, goal) == Call(variant, 4, 0, <<Wide(1)>>, <<>>, steps, goal)
RunMany(variant, w, flows)  == Call(variant, w, 0, flows, [i \in DOMAIN flows |-> i], <<1>>, 0)
-----------------------------------------------------------------------------
(* tests/integration_tests.rs, whose assertions are the order of the tasks *)
(* and how many have run.                                                  *)

TestSimpleTask         == Run(1, Wide(1))
TestSequentialTasks    == Run(2, Chain(2))
TestDiamondPattern     == Run(4, Diamond)
TestMultipleSuccessors == Run(4, FanOut(3))
TestComplexGraph ==
  Run(4, Graph(<<{}, {1}, {1}, {2, 3}, {4}, {4}, {5, 6}, {7}, {8}, {9}>>))

IntegrationTests ==
  {TestSimpleTask, TestSequentialTasks, TestDiamondPattern, TestMultipleSuccessors, TestComplexGraph}
-----------------------------------------------------------------------------
(* Graphs for one run.                                                     *)

MinimalTest == {Run(1, Wide(1)), Run(2, Wide(2)), Run(2, Chain(2))}
DebugTest   == {Run(w, Wide(10)) : w \in {1, 2}}

BasicTaskGraph == Run(4, Diamond)
DiamondPattern == Run(4, Diamond)

ParallelForPattern == Run(4, FanIn(4))
MapReducePattern   == Run(4, FanIn(4))
\* Once for each token, with a wait in between.
PipelinePattern    == Run(4, Chain(3))

DemoGpuCpuPipeline        == Run(4, Chain(3))
DemoDataTransfer          == Run(4, Chain(2))
DemoHeterogeneousWorkflow == Run(4, Diamond)
\* Once for each image.
RunImagePipeline          == Run(4, Chain(4))
\* generate, one task for each of three streams, and validate.
DemoTaskflowMultiStream   == Run(4, Graph(<<{}, {1}, {1}, {1}, {2, 3, 4}>>))

DemoProfiling      == Run(4, FanOut(2))
AdvancedToolingRun == Run(8, Graph(<<{}, {1}, {2}, {2}, {3, 4}, {5}>>))

BenchmarkWideGraph == {Run(w, Wide(1000)) : w \in {1, 2, 4, 8}}
BenchmarkDeepGraph == {Run(w, Layers(100, 10)) : w \in {1, 2, 4, 8}}
\* Task i depends on the i % 4 tasks before it, counted from zero.
BenchmarkParallelWorkload ==
  {Run(w, Graph([t \in 1 .. 2 * MaxRepeats |->
                   {d \in 1 .. t - 1 : d >= t - ((t - 1) % 4)}])) : w \in {1, 2, 4, 8}}

DemoBasicAsync         == RunAsync(FanOut(2))
DemoMixedSyncAsync     == RunAsync(Chain(3))
DemoAsyncHttpRequests  == RunAsync(Wide(5))
DemoAsyncPipeline      == RunAsync(Chain(4))
DemoParallelAsync      == RunAsync(Wide(5))
DemoParallelMixed      == RunAsync(Chain(3))
DemoParallelHttp       == RunAsync(Wide(5))

SingleRuns ==
  MinimalTest \cup DebugTest \cup BenchmarkWideGraph \cup BenchmarkDeepGraph
  \cup BenchmarkParallelWorkload
  \cup {BasicTaskGraph, DiamondPattern, ParallelForPattern, MapReducePattern, PipelinePattern,
        DemoGpuCpuPipeline, DemoDataTransfer, DemoHeterogeneousWorkflow, RunImagePipeline,
        DemoTaskflowMultiStream, DemoProfiling, AdvancedToolingRun,
        DemoBasicAsync, DemoMixedSyncAsync, DemoAsyncHttpRequests, DemoAsyncPipeline,
        DemoParallelAsync, DemoParallelMixed, DemoParallelHttp}
-----------------------------------------------------------------------------
(* Several runs: the demonstrations of the variants.                       *)

CreateWorkflow(n)    == Wide(n)
CreateDataSourceFlow == Chain(3)

DemoRunN             == RunN("run_n", 4, 5, Wide(1))
DemoRunUntil         == Until("run_until", [i \in 1 .. 10 |-> i], 50)
DemoRunMany ==
  RunMany("run_many", 4, <<CreateWorkflow(3), CreateWorkflow(2), CreateWorkflow(4)>>)
DemoRunManyConcurrent ==
  RunMany("run_many_and_wait", 4, [i \in 1 .. Some(5) |-> CreateWorkflow(2)])

SimulationLoop      == RunN("run_n", 4, 10, Chain(3))
DataPipelineBatches == RunN("run_n", 4, 5, Chain(3))
\* The error is multiplied by 0.8 and falls below 0.01 with the 21st instance.
ConvergenceAlgorithm == Until("run_until", <<1>>, 21)
ParallelDataSources ==
  RunMany("run_many_and_wait", 6, [i \in 1 .. 3 |-> CreateDataSourceFlow])

DemoSequentialVsParallel ==
  {RunN("run_n_sequential", 4, 5, Wide(1)), RunN("run_n", 4, 5, Wide(1))}
DemoParallelInstances == RunN("run_n", 4, 10, Wide(1))
DemoFixedIncrement    == Until("run_until", <<7>>, 100)
DemoRealWorldBatch    == RunN("run_n", 4, 5, Chain(3))

DemoAsyncRunN      == RunN("run_n_async", 4, 5, Wide(1))
DemoAsyncRunUntil  == Until("run_until_async", <<5>>, 50)
DemoSequentialVsParallelAsync ==
  {RunN("run_n_sequential_async", 4, 4, Wide(1)), RunN("run_n_async", 4, 4, Wide(1))}
DemoRealWorldAsync == RunN("run_n_async", 8, 3, Wide(5))

SeveralRuns ==
  DemoSequentialVsParallel \cup DemoSequentialVsParallelAsync
  \cup {DemoRunN, DemoRunUntil, DemoRunMany, DemoRunManyConcurrent, SimulationLoop,
        DataPipelineBatches, ConvergenceAlgorithm, ParallelDataSources, DemoParallelInstances,
        DemoFixedIncrement, DemoRealWorldBatch, DemoAsyncRunN, DemoAsyncRunUntil, DemoRealWorldAsync}

ClientPrograms == IntegrationTests \cup SingleRuns \cup SeveralRuns
-----------------------------------------------------------------------------
(* The programs of PipelineStages.  The buffers are given: they stand to   *)
(* the number of items as in the code, which pushes thousands.             *)

Reader(from, to, rule) == [from |-> from, to |-> to, rule |-> rule]
Network(size, readers, stops) == [size |-> size, readers |-> readers, stops |-> stops]

\* Parse, transform and validate, each of which stops the pipe it pushes to.
DemoDataProcessingPipeline(b) ==
  Network(<<b, b, b, b>>,
          <<Reader(1, 2, "stopped"), Reader(2, 3, "stopped"), Reader(3, 4, "stopped"),
            Reader(4, 0, "drained")>>,
          <<{}, {1}, {2}, {3}>>)

\* Workers between two pipes, and a consumer; main stops the second pipe.
Workers(b, threads, rule) ==
  LET n == Min({threads, MaxThreads}) IN
  Network(<<b, b>>, [t \in 1 .. n + 1 |-> IF t <= n THEN Reader(1, 2, rule) ELSE Reader(2, 0, "drained")],
          <<{}, 1 .. n>>)
DemoParallelStages(b)       == Workers(b, 3, "stopped")
BenchmarkParallelScaling(b) == {Workers(b, n, "drained") : n \in {1, 2, 4, 8}}

Drained(b) == Network(<<b>>, <<Reader(1, 0, "drained")>>, <<{}>>)
BenchmarkThroughput(b)     == Drained(b)
BenchmarkBackpressure(b)   == Drained(b)
BenchmarkMemoryPressure(b) == Drained(b)
DemoProducerConsumer(b)    == Network(<<b>>, <<Reader(1, 0, "polled")>>, <<{}>>)

PipelinePrograms(b) ==
  {DemoDataProcessingPipeline(b), DemoParallelStages(b), BenchmarkThroughput(b),
   BenchmarkBackpressure(b), BenchmarkMemoryPressure(b), DemoProducerConsumer(b)}
  \cup BenchmarkParallelScaling(b)

=============================================================================
