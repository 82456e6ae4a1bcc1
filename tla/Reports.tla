------------------------------ MODULE Reports ------------------------------
(***************************************************************************)
(* What is made of a recorded execution profile: its statistics            *)
(* (src/src/profiler.rs), the baseline and the verdict of the regression   *)
(* detector (src/src/regression.rs), the frames of the flame graph         *)
(* (src/src/flamegraph.rs) and the bars of the timeline                    *)
(* (src/src/visualization.rs).                                             *)
(*                                                                         *)
(* Durations are whole microseconds and ratios are compared exactly; the   *)
(* code computes them in floating point.                                   *)
(***************************************************************************)
EXTENDS Integers, SequencesExt, FiniteSetsExt

CONSTANTS
  Inputs,   \* records of baseline and current, two profiles with their total,
            \* workers and tasks, and folded, a text of lines with path and count
  Width, RowHeight, MinWidth   \* of a FlamegraphConfig

VARIABLES
  baseline,   \* the profile of the known-good run
  current,    \* the profile to be judged
  folded,     \* a text of folded stacks
  verdicts,   \* thresholds -> the metrics detect reports as violated
  tree,       \* the frame tree rendered last
  rects,      \* its rectangles
  made        \* which reports have been made

vars == <<baseline, current, folded, verdicts, tree, rects, made>>

\* Folds of the durations of a profile's tasks.
Durations(profile) == [i \in DOMAIN profile.tasks |-> profile.tasks[i].duration]
SumOf(s) == FoldLeft(LAMBDA x, y : x + y, 0, s)
Work(profile) == SumOf(Durations(profile))
-----------------------------------------------------------------------------
(* Statistics and the regression detector.                                 *)

\* critical_path_duration: the duration of the longest task, not that of a chain
\* of tasks (MCDocuments).
CriticalPathDuration(profile) == Max({0} \cup ToSet(Durations(profile)))

AverageTaskDuration(profile) ==
  IF profile.tasks = <<>> THEN 0 ELSE Work(profile) \div Len(profile.tasks)

\* parallelism_efficiency as a fraction: numerator and denominator.
Efficiency(profile) ==
  IF profile.total = 0 THEN <<0, 1>> ELSE <<100 * Work(profile), profile.total * profile.workers>>

\* Mutant: one place too far.
PercentileUp(durations, pct) ==
  LET sorted == SortSeq(durations, LAMBDA x, y : x < y)
  IN  IF durations = <<>> THEN 0
      ELSE sorted[Max({1, (pct * Len(durations)) \div 100})]

\* percentile_us.
Percentile(durations, pct) ==
  LET sorted == SortSeq(durations, LAMBDA x, y : x < y)
      index == (pct * Len(durations)) \div 100
  IN  IF durations = <<>> THEN 0 ELSE sorted[Min({index, Len(durations) - 1}) + 1]

Metrics == {"total", "avg", "p50", "p95", "p99", "efficiency"}

\* The metrics of a baseline or of the current run.
Measured(profile, metric) ==
  CASE metric = "total" -> <<profile.total, 1>>
    [] metric = "avg" -> <<AverageTaskDuration(profile), 1>>
    [] metric = "p50" -> <<Percentile(Durations(profile), 50), 1>>
    [] metric = "p95" -> <<Percentile(Durations(profile), 95), 1>>
    [] metric = "p99" -> <<Percentile(Durations(profile), 99), 1>>
    [] metric = "efficiency" -> Efficiency(profile)

\* The thresholds in percent; steal_rate is not compared.
Thresholds ==
  [default |-> [total |-> 10, avg |-> 10, p50 |-> 10, p95 |-> 15, p99 |-> 20, efficiency |-> 5],
   strict  |-> [total |-> 5, avg |-> 5, p50 |-> 5, p95 |-> 8, p99 |-> 10, efficiency |-> 3],
   lenient |-> [total |-> 20, avg |-> 20, p50 |-> 20, p95 |-> 30, p99 |-> 40, efficiency |-> 10]]

\* Whether the metric got worse by more than percent of the baseline's value;
\* nothing is worse than a baseline of zero.
Worse(old, new, metric, percent) ==
  LET change == new[1] * old[2] - old[1] * new[2]
      loss == IF metric = "efficiency" THEN -change ELSE change
  IN  old[1] # 0 /\ 100 * loss > percent * old[1] * new[2]

\* The violations of detect, by severity.
Violations(base, now, thresholds, factor) ==
  {m \in Metrics : Worse(Measured(base, m), Measured(now, m), m, factor * thresholds[m])}

Verdict(base, now, thresholds) ==
  [passed |-> Violations(base, now, thresholds, 1) = {},
   violations |-> Violations(base, now, thresholds, 1),
   critical |-> Violations(base, now, thresholds, 2)]
-----------------------------------------------------------------------------
(* The frame tree.                                                         *)

Frame(name, total) == [name |-> name, total |-> total, self |-> total, children |-> <<>>]

ChildrenTotal(frame) == SumOf([i \in DOMAIN frame.children |-> frame.children[i].total])

\* self_samples after a change of the children, by saturating_sub.
Settled(frame) == [frame EXCEPT !.self = Max({0, frame.total - ChildrenTotal(frame)})]

ChildAt(frame, name) == SelectInSeq(frame.children, LAMBDA c : c.name = name)

\* add_child merges a child into the one that has its name.
RECURSIVE AddChild(_, _)
AddChild(frame, child) ==
  LET at == ChildAt(frame, child.name) IN
  Settled(
    IF at = 0 THEN [frame EXCEPT !.children = Append(@, child)]
    ELSE [frame EXCEPT !.children[at] =
            FoldLeft(AddChild, [@ EXCEPT !.total = @ + child.total, !.self = @ + child.self],
                     child.children)])

\* build_frame_tree_from_profile: a frame for each busy worker, and in it one for
\* each of its tasks in the order in which they started.
WorkerFrame(profile, w) ==
  LET tasks == SortSeq(SelectSeq(profile.tasks, LAMBDA t : t.worker = w),
                       LAMBDA s, t : s.start < t.start)
  IN  FoldLeft(LAMBDA f, t : AddChild(f, Frame(<<"task", t.id>>, t.duration)),
               Frame(<<"Worker", w>>, SumOf([i \in DOMAIN tasks |-> tasks[i].duration])),
               tasks)

TreeOfProfile(profile) ==
  FoldLeft(LAMBDA root, w : IF WorkerFrame(profile, w).total = 0 THEN root
                            ELSE AddChild(root, WorkerFrame(profile, w)),
           Frame(<<"all">>, profile.total), [i \in 1 .. profile.workers |-> i - 1])

\* insert_path; the frame it is called on is settled by its caller, the root by
\* nobody.
RECURSIVE InsertPath(_, _, _)
InsertPath(frame, path, count) ==
  IF path = <<>> THEN frame
  ELSE LET at == ChildAt(frame, Head(path)) IN
       IF at = 0
       THEN [frame EXCEPT !.children =
               Append(@, Settled(InsertPath(Frame(Head(path), count), Tail(path), count)))]
       ELSE [frame EXCEPT !.children[at] =
               Settled(InsertPath([@ EXCEPT !.total = @ + count], Tail(path), count))]

\* parse_folded skips blank lines, comments and lines without a count, which are
\* not among the lines here.
ParseFolded(lines) ==
  LET root == FoldLeft(LAMBDA f, line : InsertPath(f, line.path, line.count),
                       Frame(<<"all">>, 0), lines)
  IN  [root EXCEPT !.total = ChildrenTotal(root)]

RECURSIVE Depth(_)
Depth(frame) == 1 + Max({0} \cup {Depth(frame.children[i]) : i \in DOMAIN frame.children})

\* collect_rects: a rectangle for the frame, from offset on, and for its children
\* one row above; a frame that would be too narrow is left out with its children.
RECURSIVE CollectRects(_, _, _, _, _)
CollectRects(frame, path, offset, y, grandTotal) ==
  LET Before(i) == SumOf([j \in 1 .. i - 1 |-> frame.children[j].total]) IN
  IF frame.total * Width < MinWidth * grandTotal THEN {}
  ELSE {[path |-> path, x |-> offset, w |-> frame.total, y |-> y]}
         \cup IF y < RowHeight THEN {}
              ELSE UNION {CollectRects(frame.children[i], Append(path, frame.children[i].name),
                                       offset + Before(i), y - RowHeight, grandTotal) :
                            i \in DOMAIN frame.children}

Height(root) == (Depth(root) + 3) * RowHeight + 40

\* render; x and w are in samples, of which the picture is total wide.
Rendered(root, total) ==
  IF total = 0 THEN {} ELSE CollectRects(root, <<>>, 0, Height(root) - RowHeight - 10, total)

\* generate_timeline_svg: the bar of a task in its worker's lane, in pixels.
TimelineWidth == 1000
Bar(profile, task) ==
  [x |-> (task.start * TimelineWidth) \div profile.total,
   w |-> Max({2, (task.duration * TimelineWidth) \div profile.total})]
-----------------------------------------------------------------------------
Init ==
  /\ \E input \in Inputs :
       baseline = input.baseline /\ current = input.current /\ folded = input.folded
  /\ verdicts = <<>> /\ tree = Frame(<<"all">>, 0) /\ rects = {} /\ made = {}

DetectRegressions ==
  /\ "verdicts" \notin made
  /\ verdicts' = [name \in DOMAIN Thresholds |-> Verdict(baseline, current, Thresholds[name])]
  /\ made' = made \cup {"verdicts"}
  /\ UNCHANGED <<baseline, current, folded, tree, rects>>

FlamegraphFromProfile ==
  /\ folded = <<>> /\ "flamegraph" \notin made
  /\ tree' = TreeOfProfile(current)
  /\ rects' = Rendered(tree', current.total)
  /\ made' = made \cup {"flamegraph"}
  /\ UNCHANGED <<baseline, current, folded, verdicts>>

FlamegraphFromFolded ==
  /\ folded # <<>> /\ "flamegraph" \notin made
  /\ tree' = ParseFolded(folded)
  /\ rects' = Rendered(tree', tree'.total)
  /\ made' = made \cup {"flamegraph"}
  /\ UNCHANGED <<baseline, current, folded, verdicts>>

Next == DetectRegressions \/ FlamegraphFromProfile \/ FlamegraphFromFolded

Spec == Init /\ [][Next]_vars
-----------------------------------------------------------------------------
(* Properties.                                                             *)

\* A percentile is a duration that at least that share of the tasks keeps to, and
\* no percentile exceeds the longest task.
StatisticsSound(profile) ==
  LET d == Durations(profile) IN
  \A pct \in {50, 95, 99} : d # <<>> =>
    /\ Percentile(d, pct) \in ToSet(d)
    /\ 100 * Cardinality({i \in DOMAIN d : d[i] <= Percentile(d, pct)}) > pct * Len(d) - 100
    /\ pct = 50 => 2 * Cardinality({i \in DOMAIN d : d[i] <= Percentile(d, pct)}) > Len(d)
    /\ Percentile(d, pct) <= CriticalPathDuration(profile)

\* The verdicts of the three sets of thresholds hang together: an unchanged run
\* passes all of them, what passes the stricter ones passes the others, and a
\* violation of the default thresholds is critical exactly when the lenient
\* ones, their doubles, report it too.
VerdictsAgree ==
  "verdicts" \in made =>
    /\ baseline = current => \A name \in DOMAIN verdicts : verdicts[name].passed
    /\ verdicts.lenient.violations \subseteq verdicts.default.violations
    /\ verdicts.default.violations \subseteq verdicts.strict.violations
    /\ verdicts.default.critical = verdicts.lenient.violations

\* What a path of the tree should amount to: the samples of the lines through it.
Through(path) ==
  SumOf([i \in DOMAIN folded |-> IF IsPrefix(path, folded[i].path) THEN folded[i].count ELSE 0])

Below(r, s) == IsStrictPrefix(s.path, r.path)

\* A flame graph of folded stacks draws every path through its samples, once, and
\* inside the paths it continues, without overlaps; the graph of a profile does
\* so as long as its workers together were busy for no longer than the run took.
\* Otherwise they leave the picture, as the root is as wide as the run and not as
\* the work of all workers: MCDocuments shows it.
FramesNested ==
  "flamegraph" \in made /\ (folded # <<>> \/ Work(current) <= current.total) =>
    /\ \A r \in rects : r.x >= 0 /\ r.x + r.w <= tree.total /\ r.y \in 0 .. Height(tree)
    /\ \A r, s \in rects :
         r # s =>
           /\ r.path # s.path
           /\ Below(r, s) => s.x <= r.x /\ r.x + r.w <= s.x + s.w /\ r.y < s.y
           /\ r.y = s.y => r.x + r.w <= s.x \/ s.x + s.w <= r.x
    /\ folded # <<>> =>
         /\ \A r \in rects : r.w = Through(r.path)
         /\ \A i \in DOMAIN folded :
              Through(folded[i].path) * Width >= MinWidth * tree.total /\ tree.total > 0
                => \E r \in rects : r.path = folded[i].path

\* The bars of a worker's tasks follow each other in its lane and end with it, up
\* to the two pixels a bar has at least.
BarsInLane ==
  \A i, j \in DOMAIN current.tasks :
    LET s == current.tasks[i]  t == current.tasks[j] IN
    current.total > 0 =>
      /\ Bar(current, s).x + Bar(current, s).w <= TimelineWidth + 2
      /\ s.worker = t.worker /\ s.start < t.start =>
           Bar(current, s).x + Bar(current, s).w <= Bar(current, t).x + 2

\* All the reports of a profile say what it recorded.
ReportsSound == StatisticsSound(current) /\ VerdictsAgree /\ FramesNested /\ BarsInLane

=============================================================================
