----------------------------- MODULE MCServices -----------------------------
(***************************************************************************)
(* One run for the services around the executors: a behaviour is one of    *)
(* the component subject, and the others are idle.  The GPU services and   *)
(* the monitoring are extended, the others are instantiated.               *)
(***************************************************************************)
EXTENDS Gpu, Monitoring, Programs, SequencesExt

VARIABLES subject,
  program, phase, instances, claimed, returned, progress,
  network, pushed, pipes, stopped, pc, held, handled, results

variantVars   == <<program, phase, instances, claimed, returned, progress>>
stageVars     == <<network, pushed, pipes, stopped, pc, held, handled, results>>

allVars == <<subject, poolVars, variantVars, transferVars, telemetryVars, dashboardVars, profilingVars,
             stageVars>>

\* Every variant over small flows, some with closures that panic, and the client
\* programs of the repository.
SmallPrograms ==
  {Call(v, 2, n, <<f>>, <<>>, <<1>>, 0) :
     v \in {"run", "run_n", "run_n_sequential", "async_run", "run_n_async", "run_n_sequential_async"},
     n \in 0 .. 2,
     f \in {Wide(1), Wide(2), Chain(2), Chain(3),
            Flow(<<{}, {1}, {}>>, {1}), Flow(<<{}, {1}>>, {1, 2}), Flow(<<{}, {}>>, {1, 2})}}
  \cup
  {Call(v, 2, 0, <<f>>, <<>>, steps, goal) :
     v \in {"run_until", "run_until_async"}, steps \in {<<1>>, <<1, 3, 2>>}, goal \in {0, 3, 5},
     f \in {Wide(1), Chain(3), Flow(<<{}, {1}>>, {2})}}
  \cup
  {Call(v, 2, 0, <<f>>, objects, <<1>>, 0) :
     v \in {"run_many", "run_many_and_wait"},
     objects \in {<<>>, <<1>>, <<1, 2>>, <<1, 1>>, <<1, 2, 1>>},
     f \in {Wide(1), Wide(2), Chain(2)}}

\* Every choice of compiled backends over devices of which one or none is there.
SmallHosts ==
  [compiled : SUBSET {"Cuda", "Rocm", "OpenCL"}, devices : [{"Cuda", "Rocm", "OpenCL"} -> {0, 1}],
   otherOpenCL : {0, 1}]

Variants  == INSTANCE RunVariants WITH Programs <- SmallPrograms \cup ClientPrograms,
                                       executed <- returned
Stages    == INSTANCE PipelineStages WITH Networks <- PipelinePrograms(1) \cup PipelinePrograms(2),
                                          MaxItems <- 3, queue <- pipes

\* The components that are not the subject have nothing to do.
NoVariants ==
  /\ program = RunMany("run_many", 1, <<>>) /\ phase = "returned"
  /\ instances = <<>> /\ claimed = {} /\ returned = {} /\ progress = 0
NoTransfers ==
  /\ kind = "none" /\ queues = [s \in Transfer!Streams |-> <<>>] /\ made = <<0, 0>>
  /\ device = <<0, 0>> /\ host = <<0, 0>> /\ written = <<0, 0>> /\ read = <<0, 0>>
  /\ entangled = {} /\ waits = << <<>>, <<>> >> /\ due = <<{}, {}>> /\ unwaited = {}
NoStages ==
  /\ network = Network(<<>>, <<>>, <<>>) /\ pushed = 0 /\ pipes = <<>> /\ stopped = {}
  /\ pc = <<>> /\ held = <<>> /\ handled = <<>> /\ results = <<>>

ServicesInit ==
  /\ subject \in {"pool", "variants", "transfers", "telemetry", "dashboard", "profiling", "stages"}
  /\ IF subject = "variants" THEN Variants!Init ELSE NoVariants
  /\ IF subject = "transfers" THEN Transfer!Init ELSE NoTransfers
  /\ IF subject = "stages" THEN Stages!Init ELSE NoStages
  /\ Init /\ (subject # "pool" => assignment = "RoundRobin")
  /\ MonitoringInit

ServicesNext ==
  \/ /\ subject = "pool" /\ Next
     /\ UNCHANGED <<subject, variantVars, transferVars, telemetryVars, dashboardVars, profilingVars, stageVars>>
  \/ /\ subject = "variants" /\ Variants!Next
     /\ UNCHANGED <<subject, poolVars, transferVars, telemetryVars, dashboardVars, profilingVars, stageVars>>
  \/ /\ subject = "transfers" /\ Transfer!Next
     /\ UNCHANGED <<subject, poolVars, variantVars, telemetryVars, dashboardVars, profilingVars, stageVars>>
  \/ /\ subject = "telemetry" /\ Telemetry!Next
     /\ UNCHANGED <<subject, poolVars, variantVars, transferVars, dashboardVars, profilingVars, stageVars>>
  \/ /\ subject = "dashboard" /\ Board!Next
     /\ UNCHANGED <<subject, poolVars, variantVars, transferVars, telemetryVars, profilingVars, stageVars>>
  \/ /\ subject = "profiling" /\ Profile!Next
     /\ UNCHANGED <<subject, poolVars, variantVars, transferVars, telemetryVars, dashboardVars, stageVars>>
  \/ /\ subject = "stages" /\ Stages!Next
     /\ UNCHANGED <<subject, poolVars, variantVars, transferVars, telemetryVars, dashboardVars, profilingVars>>

\* Nothing is asked of the pool, the metrics and the profiler but safety.  The
\* fairness of the other components is theirs.
ServicesFairness ==
  /\ WF_variantVars(subject = "variants" /\ Variants!Next)
  /\ \A s \in 1 .. 2 : WF_transferVars(subject = "transfers" /\ Transfer!Execute(s))
  /\ \A u \in 1 .. 2 : WF_transferVars(subject = "transfers" /\ Transfer!WaitNext(u))
  /\ WF_dashboardVars(subject = "dashboard" /\ Board!Joined)
  /\ WF_dashboardVars(subject = "dashboard" /\ Board!ServerStep)
  /\ WF_stageVars(subject = "stages" /\ Stages!Produce)
  /\ \A p \in Stages!AnyPipe : WF_stageVars(subject = "stages" /\ p \in Stages!Pipes /\ Stages!Stop(p))
  /\ \A t \in Stages!AnyReader :
        WF_stageVars(subject = "stages" /\ t \in Stages!Readers /\ Stages!Work(t))

ServicesSpec == ServicesInit /\ [][ServicesNext]_allVars /\ ServicesFairness

\* When it returns, every variant of run has run what it was asked to; no thread
\* between pipelines has lost, doubled or overtaken an item.
ProgramsComplete ==
  /\ subject = "variants" => Variants!VariantsComplete
  /\ subject = "stages" => Stages!ItemsAccounted

\* Every variant of run, every wait for a stream and every stop of a dashboard
\* comes to its end, and every reader of a pipeline to the end of its loop.
CallsReturn ==
  /\ Variants!CallReturns /\ Transfer!WaitsEnd /\ Board!StopReturns
  /\ subject = "stages" => Stages!ReadersLeave

=============================================================================
