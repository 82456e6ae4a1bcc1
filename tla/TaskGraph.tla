----------------------------- MODULE TaskGraph -----------------------------
(***************************************************************************)
(* The task graph and what both executors do with it: the Vec of nodes and *)
(* the map of branches that Taskflow builds (src/src/taskflow.rs,          *)
(* src/src/task.rs), the lookups in them, the reach of a branch, and the   *)
(* handles through which a running subflow task adds nodes                 *)
(* (src/src/subflow.rs).                                                   *)
(*                                                                         *)
(* Task identifiers are the TaskIds of the code counted from 1, so that a  *)
(* node built without a clash of identifiers sits in the Vec at its own    *)
(* identifier.                                                             *)
(***************************************************************************)
EXTENDS Naturals, SequencesExt

CONSTANT UsizeMod   \* usize counters wrap at this value

VARIABLES
  graph,     \* Arc<Mutex<Vec<TaskNode>>>: identifiers, edges and works
  branches   \* conditional_branches, fixed once a run starts

(***************************************************************************)
(* A flow is what the builder API leaves behind: the Vec of nodes and the  *)
(* map of registered branches (task id -> branch id -> successors).  A     *)
(* node's work is a record whose field kind names the TaskWork variant; it *)
(* is gone from every node of a spent flow, one that has been run before.  *)
(* Kind faulty stands for a closure of any variant that panics.            *)
(***************************************************************************)
WorkKinds == {"static", "condition", "subflow", "async", "faulty"}

NoWork   == [kind |-> "none"]
NoTask   == 0
NoBranch == UsizeMod
NoSub    == [next |-> 0, base |-> 0, first |-> 0, ops |-> <<>>, new |-> 0]

\* Node identifiers are positions, edges are recorded at both of their ends,
\* and the branches of a condition are among its successors.  A branch is a Vec
\* to which branch and branch_many push: it may name a task more than once.
WellFormed(flow) ==
  LET g == flow.graph IN
  /\ g \in Seq({g[p] : p \in DOMAIN g})
  /\ Len(g) < UsizeMod
  /\ \A p \in DOMAIN g :
        /\ g[p].id = p
        /\ g[p].succ \subseteq DOMAIN g
        /\ g[p].work.kind \in WorkKinds
        /\ g[p].work.kind = "condition" => g[p].work.returns \subseteq 0 .. UsizeMod - 1
        /\ g[p].deps = {q \in DOMAIN g : p \in g[q].succ}
  /\ flow.spent \in BOOLEAN
  /\ \A c \in DOMAIN flow.branches :
        /\ c \in DOMAIN g
        /\ IsFiniteSet(DOMAIN flow.branches[c])
        /\ \A b \in DOMAIN flow.branches[c] :
              /\ flow.branches[c][b] \in Seq(g[c].succ)
              /\ Len(flow.branches[c][b]) < UsizeMod

-----------------------------------------------------------------------------
(* Counters and lookups.                                                   *)

\* fetch_sub and fetch_add wrap around; k < UsizeMod.
Minus(n, k) == IF k <= n THEN n - k ELSE n + UsizeMod - k
Plus(n, k)  == (n + k) % UsizeMod

\* graph.iter().find(|n| n.id == id): the first node with that identifier.
Position(id) ==
  CHOOSE p \in DOMAIN graph :
    graph[p].id = id /\ \A q \in DOMAIN graph : graph[q].id = id => p <= q

Successors(id) ==
  UNION {graph[p].succ : p \in {q \in DOMAIN graph : q = Position(id)}}

\* count_reachable_tasks visits the smallest set that contains the starting
\* tasks and the successors of its members.
Reachable(start) ==
  LET all == start \cup UNION {graph[p].succ : p \in DOMAIN graph}
      Closed(S) == start \subseteq S /\ \A t \in S : Successors(t) \subseteq S
  IN  {t \in all : \A S \in SUBSET all : Closed(S) => t \in S}

\* The sum, over the branches of c other than b, of their reachable tasks.
UnreachableCount(c, b) ==
  Cardinality(UNION {{o} \X Reachable(ToSet(branches[c][o])) :
                       o \in DOMAIN branches[c] \ {b}})

-----------------------------------------------------------------------------
(* The growth of the graph.                                                *)

\* The graph after Subflow::emplace or one of its variants.
Emplaced(id, closure) ==
  Append(graph, [id |-> id, work |-> closure, succ |-> {}, deps |-> {}])

\* The graph after TaskHandle::precede: both ends are looked up by identifier.
Preceding(a, b) ==
  [graph EXCEPT ![Position(a)].succ = @ \cup {b}, ![Position(b)].deps = @ \cup {a}]

\* The dependency map with the new nodes inserted one after the other.
CountsWith(counts, new) ==
  LET ids == {node.id : node \in ToSet(new)}
      last(id) == SelectLastInSeq(new, LAMBDA node : node.id = id)
  IN  [t \in DOMAIN counts \cup ids |->
         IF t \in ids THEN Cardinality(new[last(t)].deps) ELSE counts[t]]

\* The identifiers of the new nodes that can start at once.
RootsOf(new) ==
  LET roots == SelectSeq(new, LAMBDA node : node.deps = {})
  IN  [i \in DOMAIN roots |-> roots[i].id]

=============================================================================
