--------------------------- MODULE CycleDetection ---------------------------
(***************************************************************************)
(* The cycle detector for task graphs (src/src/cycle_detection.rs): the    *)
(* calls that build it, and its three queries, a depth-first search that   *)
(* reports a cycle, Kahn's topological sort and Tarjan's components.       *)
(*                                                                         *)
(* The queries go through the tasks and the in-degrees in the order of a   *)
(* hash table, which is the parameter order: any permutation of the tasks. *)
(***************************************************************************)
EXTENDS Naturals, SequencesExt, FiniteSetsExt, Relation

CONSTANTS
  TaskIds,
  MaxEdges    \* bound: calls of add_dependency

VARIABLE adjacency   \* task -> the sequence of its successors, in call order

\* The values of the maps where the code finds no entry.
NoParent == 0

Init == adjacency = <<>>

\* The map with an empty list for every task of ids it does not have.
WithTasks(ids) ==
  [t \in DOMAIN adjacency \cup ids |-> IF t \in DOMAIN adjacency THEN adjacency[t] ELSE <<>>]

AddTask(t) == adjacency' = WithTasks({t})

\* Nothing keeps a dependency from being added twice, or to the task itself.
AddDependency(from, to) ==
  /\ MapThenSumSet(LAMBDA t : Len(adjacency[t]), DOMAIN adjacency) < MaxEdges
  /\ adjacency' = [WithTasks({from, to}) EXCEPT ![from] = Append(@, to)]

Next == \E t, u \in TaskIds : AddTask(t) \/ AddDependency(t, u)
-----------------------------------------------------------------------------
(* detect_cycle.                                                           *)

\* reconstruct_cycle climbs from start to end through the parents.
RECURSIVE Climb(_, _, _)
Climb(parent, current, end) ==
  IF current = end THEN <<>>
  ELSE IF parent[current] = NoParent THEN <<current>>
  ELSE <<current>> \o Climb(parent, parent[current], end)

ReconstructCycle(start, end, parent) == Reverse(<<end>> \o Climb(parent, start, end))

\* Mutant: a visited successor is taken for a back edge.
BackEdgeVisited(s, successor) == successor \in s.visited

\* The successor is on the path of the search.
BackEdge(s, successor) == successor \in s.inStack

\* dfs_cycle_detection; s holds its three mutable arguments and its result.
RECURSIVE Dfs(_, _)
Dfs(node, s) ==
  LET Visit(t, successor) ==
        IF t.cycle # <<>> THEN t
        ELSE IF successor \notin t.visited
             THEN Dfs(successor, [t EXCEPT !.parent[successor] = node])
        ELSE IF BackEdge(t, successor)
             THEN [t EXCEPT !.cycle = ReconstructCycle(node, successor, t.parent)]
        ELSE t
      after == FoldLeft(Visit,
                        [s EXCEPT !.visited = @ \cup {node}, !.inStack = @ \cup {node}],
                        adjacency[node])
  IN  IF after.cycle # <<>> THEN after ELSE [after EXCEPT !.inStack = @ \ {node}]

\* The reported cycle, empty for NoCycle.
DetectCycle(order) ==
  FoldLeft(LAMBDA s, t : IF t \in s.visited \/ s.cycle # <<>> THEN s ELSE Dfs(t, s),
           [visited |-> {}, inStack |-> {}, cycle |-> <<>>,
            parent |-> [t \in DOMAIN adjacency |-> NoParent]],
           order).cycle
-----------------------------------------------------------------------------
(* topological_sort.                                                       *)

InDegree ==
  [t \in DOMAIN adjacency |->
     Cardinality({<<u, i>> \in (DOMAIN adjacency) \X (1 .. MaxEdges) :
                    i \in DOMAIN adjacency[u] /\ adjacency[u][i] = t})]

\* The loop over the queue of tasks whose degree has come to zero.
RECURSIVE Kahn(_)
Kahn(s) ==
  IF s.queue = <<>> THEN s.sorted
  ELSE Kahn(FoldLeft(
         LAMBDA q, t : [q EXCEPT !.degree[t] = @ - 1,
                                 !.queue = IF q.degree[t] = 1 THEN Append(@, t) ELSE @],
         [s EXCEPT !.queue = Tail(@), !.sorted = Append(@, Head(s.queue))],
         adjacency[Head(s.queue)]))

\* Empty for None; the sort of an empty graph is empty as well.
TopologicalSort(order) ==
  LET sorted == Kahn([degree |-> InDegree, sorted |-> <<>>,
                      queue |-> SelectSeq(order, LAMBDA t : InDegree[t] = 0)])
  IN  IF DetectCycle(order) = <<>> /\ Len(sorted) = Cardinality(DOMAIN adjacency)
      THEN sorted ELSE <<>>
-----------------------------------------------------------------------------
(* strongly_connected_components.                                          *)

HasSelfLoop(node) == Contains(adjacency[node], node)

\* tarjan_scc; a task whose index is zero has no entry in indices yet.
RECURSIVE Tarjan(_, _)
Tarjan(node, s) ==
  LET Visit(t, successor) ==
        IF t.index[successor] = 0
        THEN LET u == Tarjan(successor, t)
             IN  [u EXCEPT !.low[node] = Min({@, u.low[successor]})]
        ELSE IF Contains(t.stack, successor)
        THEN [t EXCEPT !.low[node] = Min({@, t.index[successor]})]
        ELSE t
      entered == [s EXCEPT !.next = @ + 1, !.index[node] = s.next, !.low[node] = s.next,
                           !.stack = Append(@, node)]
      after == FoldLeft(Visit, entered, adjacency[node])
      at == SelectInSeq(after.stack, LAMBDA t : t = node)
      component == Reverse(SubSeq(after.stack, at, Len(after.stack)))
      popped == [after EXCEPT !.stack = SubSeq(@, 1, at - 1)]
  IN  IF after.low[node] # after.index[node] THEN after
      ELSE IF Len(component) > 1 \/ HasSelfLoop(node)
      THEN [popped EXCEPT !.components = Append(@, component)]
      ELSE popped

StronglyConnectedComponents(order) ==
  FoldLeft(LAMBDA s, t : IF s.index[t] # 0 THEN s ELSE Tarjan(t, s),
           [next |-> 1, stack |-> <<>>, components |-> <<>>,
            index |-> [t \in DOMAIN adjacency |-> 0],
            low |-> [t \in DOMAIN adjacency |-> 0]],
           order).components
-----------------------------------------------------------------------------
(* Properties.                                                             *)

Edges == UNION {{t} \X ToSet(adjacency[t]) : t \in DOMAIN adjacency}

\* The three queries agree with each other and with reachability, in whatever
\* order the hash tables are read: the search reports a cycle exactly when a
\* task reaches itself, and what it reports is one, without repetitions; the
\* sort exists exactly without cycles and puts every task before its
\* successors; the components are the tasks that reach each other.
DetectorsAgree ==
  LET Reaches == TransitiveClosure([p \in (DOMAIN adjacency) \X (DOMAIN adjacency) |-> p \in Edges],
                                   DOMAIN adjacency)
      Cyclic == \E t \in DOMAIN adjacency : Reaches[t, t]
      Together(t) == {u \in DOMAIN adjacency : Reaches[t, u] /\ Reaches[u, t]}
  IN  \A order \in SetToSeqs(DOMAIN adjacency) :
          LET cycle == DetectCycle(order)
              sorted == TopologicalSort(order)
              components == StronglyConnectedComponents(order)
          IN  /\ Cyclic <=> cycle # <<>>
              /\ IsInjective(cycle)
              /\ \A i \in DOMAIN cycle :
                    <<cycle[i], cycle[IF i = Len(cycle) THEN 1 ELSE i + 1]>> \in Edges
              /\ ~Cyclic => ToSet(sorted) = DOMAIN adjacency /\ IsInjective(sorted)
              /\ Cyclic => sorted = <<>>
              /\ \A i, j \in DOMAIN sorted : <<sorted[i], sorted[j]>> \in Edges => i < j
              /\ {ToSet(components[i]) : i \in DOMAIN components}
                   = {Together(t) : t \in {u \in DOMAIN adjacency : Reaches[u, u]}}
              /\ \A i, j \in DOMAIN components :
                    i # j => ToSet(components[i]) \cap ToSet(components[j]) = {}

=============================================================================
