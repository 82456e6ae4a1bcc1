---------------------------- MODULE TypedPipeline ----------------------------
(***************************************************************************)
(* The pipelines of src/src/typed_pipeline.rs: TypeSafePipeline, whose     *)
(* stages pass a value on as bytes that the next stage reads at its own    *)
(* type, and SimplePipeline, whose stages change one value in place.       *)
(*                                                                         *)
(* A value is the type it was written at and the stages it went through.   *)
(* Reading bytes at another type than they were written at is undefined.   *)
(***************************************************************************)
EXTENDS Naturals, SequencesExt, FiniteSetsExt

CONSTANTS
  Types,
  MaxStages   \* bound: calls of stage and stage_async

VARIABLES
  kind,       \* TypeSafe or Simple
  input,      \* In
  declared,   \* Out: the type the pipeline promises so far
  stages,     \* what was pushed: the types each stage reads and writes
  asyncs,     \* calls of stage_async
  phase,      \* building, running, returned, undefined, built or panicked
  data,       \* the bytes that are passed on
  graph       \* the tasks and edges of build_taskflow

vars == <<kind, input, declared, stages, asyncs, phase, data, graph>>

NoData  == [type |-> "none", through |-> <<>>]
NoGraph == [tasks |-> {}, edges |-> {}]

\* TypeSafePipeline::new, PipelineBuilder::new and SimplePipeline::new.
Init ==
  /\ kind \in {"TypeSafe", "Simple"} /\ input \in Types /\ declared = input
  /\ stages = <<>> /\ asyncs = 0
  /\ phase = "building" /\ data = NoData /\ graph = NoGraph

Growing == phase = "building" /\ Len(stages) + asyncs < MaxStages

\* The compiler lets a stage read what is declared; map adds the first one.
Stage(type) ==
  /\ Growing /\ (kind = "Simple" => type = input)
  /\ stages' = Append(stages, [reads |-> declared, writes |-> type])
  /\ declared' = type
  /\ UNCHANGED <<kind, input, asyncs, phase, data, graph>>

\* The transform is dropped, but not the type it would have produced.
StageAsync(type) ==
  /\ Growing /\ kind = "TypeSafe"
  /\ declared' = type /\ asyncs' = asyncs + 1
  /\ UNCHANGED <<kind, input, stages, phase, data, graph>>

Execute ==
  /\ phase = "building"
  /\ phase' = "running" /\ data' = [type |-> input, through |-> <<>>]
  /\ UNCHANGED <<kind, input, declared, stages, asyncs, graph>>

Applied == Len(data.through)

\* Each stage reads the bytes of the one before it.
Apply ==
  /\ phase = "running" /\ Applied < Len(stages)
  /\ LET stage == stages[Applied + 1] IN
     IF stage.reads # data.type
     THEN phase' = "undefined" /\ UNCHANGED data
     ELSE /\ data' = [type |-> stage.writes, through |-> Append(data.through, Applied + 1)]
          /\ UNCHANGED phase
  /\ UNCHANGED <<kind, input, declared, stages, asyncs, graph>>

\* The last bytes, or the input of an empty pipeline, are read as Out.
Return ==
  /\ phase = "running" /\ Applied = Len(stages)
  /\ phase' = IF data.type = declared THEN "returned" ELSE "undefined"
  /\ UNCHANGED <<kind, input, declared, stages, asyncs, data, graph>>

\* One task for each stage, in a row, or pipeline_passthrough; their closures are
\* empty.  The loop over 0 .. tasks.len() - 1 of SimplePipeline needs a task.
BuildTaskflow ==
  /\ phase = "building"
  /\ LET n == Len(stages) IN
     IF kind = "Simple" /\ n = 0
     THEN phase' = "panicked" /\ UNCHANGED graph
     ELSE /\ phase' = "built"
          /\ graph' = [tasks |-> 1 .. Max({n, 1}),
                       edges |-> {<<i, i + 1>> : i \in 1 .. n - 1}]
  /\ UNCHANGED <<kind, input, declared, stages, asyncs, data>>

Next ==
  \/ \E type \in Types : Stage(type) \/ StageAsync(type)
  \/ Execute \/ Apply \/ Return \/ BuildTaskflow

Spec == Init /\ [][Next]_vars
-----------------------------------------------------------------------------
(* Properties.                                                             *)

\* Without a stage_async, execute takes the value through every stage once, in
\* the order they were added, and never reads it at a type it was not written
\* at; with one, it still never returns a value of another type than promised.
\* The taskflow of a pipeline is connected from its first to its last task.
StagesApplied ==
  /\ asyncs = 0 => phase # "undefined"
  /\ phase = "returned" =>
       /\ data.through = [i \in 1 .. Len(stages) |-> i]
       /\ data.type = (IF stages = <<>> THEN input ELSE Last(stages).writes)
  /\ phase = "built" =>
       \A i, j \in graph.tasks : i < j => \A k \in i .. j - 1 : <<k, k + 1>> \in graph.edges
  /\ phase = "panicked" => stages = <<>>

=============================================================================
