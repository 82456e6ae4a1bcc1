---------------------------- MODULE MCAlgorithms ----------------------------
(***************************************************************************)
(* One run for seven components that do not interact: a behaviour is one of  *)
(* the component subject, and the variables of the others stay undefined.  *)
(* The schedulers, the composition and the placement are extended rather   *)
(* than instantiated, as their properties hold of the empty scheduler, the *)
(* empty taskflow and the empty machine that the other subjects leave.     *)
(***************************************************************************)
EXTENDS Schedulers, Composition, Placement

VARIABLES subject,
  adjacency,
  call, pc, items, cursor, partials, prefixes, result,
  baseline, measured, folded, verdicts, tree, rects, made,
  kind, input, declared, stages, asyncs, phase, data, graph

cycleVars     == <<adjacency>>
algorithmVars == <<call, pc, items, cursor, partials, prefixes, result>>
reportVars    == <<baseline, measured, folded, verdicts, tree, rects, made>>
typedVars     == <<kind, input, declared, stages, asyncs, phase, data, graph>>

allVars == <<subject, cycleVars, algorithmVars, vars, composeVars, placeVars, reportVars,
             typedVars>>

\* The calls of the parallel algorithms: every length up to five and every size
\* of chunk up to three; for the sort, every sequence of at most four numbers.
SmallCalls ==
  [algorithm : {"for_each", "transform", "reduce", "inclusive_scan", "exclusive_scan"},
   data : {[i \in 1 .. n |-> i] : n \in 0 .. 5}, chunkSize : 1 .. 3]
  \cup [algorithm : {"sort"}, data : BoundedSeq(1 .. 3, 4), chunkSize : 1 .. 3]

\* Machines of up to five processors: node directories, what hwloc may find on
\* the nodes, packages that lie across the nodes or are none, and caches shared by
\* all, by pairs or by nobody.
HwlocNodes(c) ==
  {<<>>, <<Block(0, c)>>} \cup {<<Block(0, k), Block(k, c)>> : k \in 1 .. c - 1}
  \cup (IF c = 4 THEN {<<<<0, 2>>, <<1, 3>>>>, <<<<0, 3>>, <<1>>, <<2>>>>} ELSE {})

CacheMaps(c) ==
  {<<>>,
   [i \in 0 .. c - 1 |-> {[level |-> 1, shared |-> {i}], [level |-> 3, shared |-> 0 .. c - 1]}],
   [i \in 0 .. c - 1 |-> {[level |-> 3, shared |-> {j \in 0 .. c - 1 : j \div 2 = i \div 2}]}],
   [i \in 0 .. c - 1 |-> {[level |-> 2, shared |-> {i}]}]}

PackageSets(c) ==
  {{}, {0 .. c - 1}} \cup {{0 .. k - 1, k .. c - 1} : k \in {c \div 2} \ {0}}

SmallMachines ==
  UNION {[cpus : {c}, nodeDirs : 0 .. 3, hwlocNodes : HwlocNodes(c), packages : PackageSets(c),
          caches : CacheMaps(c)] : c \in 1 .. 5}

\* Profiles of two workers whose tasks follow each other, around the thresholds,
\* and folded stacks with repeated, nested and empty-handed paths.
Lane(worker, durations) ==
  [i \in DOMAIN durations |->
     [id |-> 10 * worker + i, worker |-> worker, duration |-> durations[i],
      start |-> FoldLeft(LAMBDA x, y : x + y, 0, SubSeq(durations, 1, i - 1))]]

SmallProfiles ==
  {p \in [total : {20, 22, 24}, workers : {2},
          tasks : {Lane(0, d) \o Lane(1, e) : d \in BoundedSeq({0, 10, 12}, 2), e \in {<<>>, <<11>>}}] :
     \A i \in DOMAIN p.tasks : p.tasks[i].start + p.tasks[i].duration <= p.total}

SmallTexts ==
  BoundedSeq([path : {<<"a">>, <<"a", "b">>, <<"a", "a">>, <<"b", "a", "a">>}, count : {0, 1, 3}], 3)

SmallInputs ==
  [baseline : SmallProfiles, current : SmallProfiles, folded : {<<>>}]
  \cup [baseline : {p \in SmallProfiles : p.total = 20 /\ p.tasks = Lane(0, <<12>>)},
        current : {p \in SmallProfiles : p.total = 20 /\ p.tasks = Lane(0, <<12>>)},
        folded : SmallTexts]

Cycle   == INSTANCE CycleDetection WITH TaskIds <- 1 .. 3, MaxEdges <- 4
Par     == INSTANCE ParallelAlgorithms WITH Calls <- SmallCalls
Report  == INSTANCE Reports WITH Inputs <- SmallInputs, current <- measured,
                             Width <- 8, RowHeight <- 2, MinWidth <- 2
Typed   == INSTANCE TypedPipeline WITH Types <- {"i32", "f64", "String"}, MaxStages <- 3

NoCycle     == adjacency = <<>>
NoAlgorithm == call = <<>> /\ pc = <<>> /\ items = <<>> /\ cursor = 0 /\ partials = <<>>
               /\ prefixes = <<>> /\ result = <<>>
NoScheduler == scheduler = "none" /\ queue = <<>> /\ heap = {} /\ queues = <<>> /\ current = 0 /\ log = <<>>
NoCompose   == source = <<>> /\ entries = <<>> /\ exits = <<>> /\ cloneable = {} /\ built = FALSE
               /\ target = <<>> /\ copies = <<>>
NoPlace     == machine = [cpus |-> 0, packages |-> {}] /\ backend = "none" /\ nodes = <<>> /\ caches = {} /\ strategy = "none"
               /\ affinity = <<>> /\ panicked = FALSE
NoReport    == baseline = <<>> /\ measured = <<>> /\ folded = <<>> /\ verdicts = <<>> /\ tree = <<>>
               /\ rects = {} /\ made = {}
NoTyped     == kind = "none" /\ input = "none" /\ declared = "none" /\ stages = <<>> /\ asyncs = 0
               /\ phase = "none" /\ data = <<>> /\ graph = <<>>

AlgorithmsInit ==
  /\ subject \in {"cycle", "algorithm", "scheduler", "compose", "place", "report", "typed"}
  /\ IF subject = "cycle" THEN Cycle!Init ELSE NoCycle
  /\ IF subject = "algorithm" THEN Par!Init ELSE NoAlgorithm
  /\ IF subject = "scheduler" THEN Init ELSE NoScheduler
  /\ IF subject = "compose" THEN ComposeInit ELSE NoCompose
  /\ IF subject = "place" THEN PlaceInit ELSE NoPlace
  /\ IF subject = "report" THEN Report!Init ELSE NoReport
  /\ IF subject = "typed" THEN Typed!Init ELSE NoTyped

AlgorithmsNext ==
  \/ /\ subject = "cycle" /\ Cycle!Next
     /\ UNCHANGED <<subject, algorithmVars, vars, composeVars, placeVars, reportVars, typedVars>>
  \/ /\ subject = "algorithm" /\ Par!Next
     /\ UNCHANGED <<subject, cycleVars, vars, composeVars, placeVars, reportVars, typedVars>>
  \/ /\ subject = "scheduler" /\ Next
     /\ UNCHANGED <<subject, cycleVars, algorithmVars, composeVars, placeVars, reportVars, typedVars>>
  \/ /\ subject = "compose" /\ ComposeNext
     /\ UNCHANGED <<subject, cycleVars, algorithmVars, vars, placeVars, reportVars, typedVars>>
  \/ /\ subject = "place" /\ PlaceNext
     /\ UNCHANGED <<subject, cycleVars, algorithmVars, vars, composeVars, reportVars, typedVars>>
  \/ /\ subject = "report" /\ Report!Next
     /\ UNCHANGED <<subject, cycleVars, algorithmVars, vars, composeVars, placeVars, typedVars>>
  \/ /\ subject = "typed" /\ Typed!Next
     /\ UNCHANGED <<subject, cycleVars, algorithmVars, vars, composeVars, placeVars, reportVars>>

AlgorithmsSpec == AlgorithmsInit /\ [][AlgorithmsNext]_allVars

\* The three queries of the cycle detector agree with reachability and with each
\* other, in every order in which the hash tables can be read.
DetectorsAgree == subject = "cycle" => Cycle!DetectorsAgree

\* However its tasks interleave, a parallel algorithm ends with the result of the
\* sequential one, and a typed pipeline with that of its stages one by one.
SequentialResult ==
  /\ subject = "algorithm" => Par!SequentialResult
  /\ subject = "typed" => Typed!StagesApplied

\* Statistics, verdicts, flame graphs and timelines say what was recorded.
ReportsSound == subject = "report" => Report!ReportsSound

=============================================================================
