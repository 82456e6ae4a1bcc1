---------------------------- MODULE Composition ----------------------------
(***************************************************************************)
(* Taskflows built by hand and composed of others (src/src/taskflow.rs,    *)
(* src/src/task.rs, src/src/composition.rs): a program fills a             *)
(* CompositionBuilder, builds it, and copies the composition into a target *)
(* taskflow, several times, connecting each copy to tasks that are there   *)
(* already.  Taskflows have one owner, so each call is one step.           *)
(*                                                                         *)
(* Identifiers count from 1 and are positions in the Vec, as in TaskGraph. *)
(***************************************************************************)
EXTENDS Naturals, SequencesExt, FiniteSetsExt

CONSTANTS
  MaxTasks,    \* bound: tasks of the composition
  MaxEdges,    \* bound: its edges
  MaxCopies,   \* bound: how often it is composed
  MaxOwn,      \* bound: tasks of the target's own
  MaxHandles   \* bound: handles passed to one call

VARIABLES
  source,      \* the Vec of the builder's taskflow
  entries,     \* entry_tasks, as identifiers
  exits,       \* exit_tasks
  cloneable,   \* the keys of cloneable_works
  built,       \* whether build has consumed the builder
  target,      \* the Vec of the target taskflow
  copies       \* history: the composed instances and how they were connected

composeVars == <<source, entries, exits, cloneable, built, target, copies>>

\* A closure stands for itself by the identifier it was first emplaced under,
\* in the source or in the target.
Own(id)    == <<"own", id>>
Shared(id) == <<"shared", id>>
Placeholder(name) == <<"placeholder", name>>

ComposeInit ==
  /\ source = <<>> /\ entries = <<>> /\ exits = <<>> /\ cloneable = {}
  /\ built = FALSE
  /\ target = <<>> /\ copies = <<>>
-----------------------------------------------------------------------------
(* The graph operations of Taskflow and TaskHandle.                        *)

\* emplace: the next identifier is one more than that of the last task.
Emplaced(graph, work) ==
  Append(graph, [id |-> Len(graph) + 1, name |-> <<"task", Len(graph) + 1>>, work |-> work,
                 succ |-> {}, deps |-> {}, numDeps |-> 0])

Named(graph, id, name) == [graph EXCEPT ![id].name = name]

\* precede counts a dependency once, however often it is stated.
Preceding(graph, a, b) ==
  [graph EXCEPT ![a].succ = @ \cup {b},
                ![b].deps = @ \cup {a},
                ![b].numDeps = IF a \in graph[b].deps THEN @ ELSE @ + 1]

\* precede for every handle of a list, and for every pair of two lists.
PrecedingAll(graph, a, to) == FoldLeft(LAMBDA g, b : Preceding(g, a, b), graph, to)
Connected(graph, from, to) == FoldLeft(LAMBDA g, a : PrecedingAll(g, a, to), graph, from)
-----------------------------------------------------------------------------
(* CompositionBuilder.                                                     *)

Building == ~built /\ UNCHANGED <<target, copies>>

EmplaceCloneable ==
  /\ Building /\ Len(source) < MaxTasks
  /\ source' = Emplaced(source, Shared(Len(source) + 1))
  /\ cloneable' = cloneable \cup {Len(source) + 1}
  /\ UNCHANGED <<entries, exits, built>>

\* A task of any kind added through taskflow_mut, with a name of its own.
EmplacePlain ==
  /\ Building /\ Len(source) < MaxTasks
  /\ LET id == Len(source) + 1 IN
     source' = Named(Emplaced(source, Own(id)), id, <<"named", id>>)
  /\ UNCHANGED <<entries, exits, cloneable, built>>

NumEdges == MapThenSumSet(LAMBDA p : Cardinality(source[p].succ), DOMAIN source)

\* The program builds an acyclic graph, earlier tasks before later ones.
Precede(a, b) ==
  /\ Building /\ a < b /\ NumEdges < MaxEdges
  /\ source' = Preceding(source, a, b)
  /\ UNCHANGED <<entries, exits, cloneable, built>>

MarkEntries(marked) ==
  /\ Building /\ entries = <<>>
  /\ entries' = entries \o marked
  /\ UNCHANGED <<source, exits, cloneable, built>>

MarkExits(marked) ==
  /\ Building /\ exits = <<>>
  /\ exits' = exits \o marked
  /\ UNCHANGED <<source, entries, cloneable, built>>

Build ==
  /\ Building
  /\ built' = TRUE
  /\ UNCHANGED <<source, entries, exits, cloneable>>
-----------------------------------------------------------------------------
(* Composition.                                                            *)

\* The first pass of clone_graph_into: a task for each of the source's, with its
\* name, and its closure if that can be shared.
CopiedTask(graph, node) ==
  Named(Emplaced(graph, IF node.id \in cloneable THEN Shared(node.id) ELSE Placeholder(node.name)),
        Len(graph) + 1, node.name)
CopiedTasks(graph) == FoldLeft(CopiedTask, graph, source)

\* id_mapping, when the copy begins after base tasks.
Mapped(base, id) == base + id
MappedSeq(base, ids) == [i \in DOMAIN ids |-> Mapped(base, ids[i])]

\* Mutant: the successors' identifiers are used in the target as they are.
UnmappedEdges(graph, base, node) ==
  FoldSet(LAMBDA s, g : Preceding(g, Mapped(base, node.id), s), graph, node.succ)

\* The second pass: an edge for each of the source's.
CopiedEdges(graph, base, node) ==
  FoldSet(LAMBDA s, g : Preceding(g, Mapped(base, node.id), Mapped(base, s)), graph, node.succ)
CloneGraphInto(graph) ==
  FoldLeft(LAMBDA g, node : CopiedEdges(g, Len(graph), node), CopiedTasks(graph), source)

Composing == built /\ Len(copies) < MaxCopies /\ UNCHANGED <<source, entries, exits, cloneable, built>>

Instance(before, after) ==
  [base |-> Len(target), entries |-> MappedSeq(Len(target), entries),
   exits |-> MappedSeq(Len(target), exits), before |-> before, after |-> after]

Compose ==
  /\ Composing
  /\ target' = CloneGraphInto(target)
  /\ copies' = Append(copies, Instance(<<>>, <<>>))

ComposeAfter(predecessors) ==
  /\ Composing
  /\ target' = Connected(CloneGraphInto(target), predecessors, MappedSeq(Len(target), entries))
  /\ copies' = Append(copies, Instance(predecessors, <<>>))

ComposeBefore(successors) ==
  /\ Composing
  /\ target' = Connected(CloneGraphInto(target), MappedSeq(Len(target), exits), successors)
  /\ copies' = Append(copies, Instance(<<>>, successors))

OwnTasks == {p \in DOMAIN target : target[p].work[1] = "own"}

\* The target has tasks of its own.
EmplaceInTarget ==
  /\ built /\ Cardinality(OwnTasks) < MaxOwn
  /\ target' = Emplaced(target, Own(Len(target) + 1))
  /\ UNCHANGED <<source, entries, exits, cloneable, built, copies>>

\* Lists of handles of one taskflow.
Handles(graph) == BoundedSeq(DOMAIN graph, MaxHandles)

ComposeNext ==
  \/ EmplaceCloneable \/ EmplacePlain \/ Build
  \/ \E a, b \in DOMAIN source : Precede(a, b)
  \/ \E marked \in Handles(source) : MarkEntries(marked) \/ MarkExits(marked)
  \/ Compose \/ EmplaceInTarget
  \/ \E handles \in Handles(target) : ComposeAfter(handles) \/ ComposeBefore(handles)

ComposeSpec == ComposeInit /\ [][ComposeNext]_composeVars
-----------------------------------------------------------------------------
(* Properties.                                                             *)

\* The edges between the tasks of a copy are those of the source, its names and
\* closures too, where they can be shared.
SameAs(copy) ==
  \A p \in DOMAIN source :
    LET node == target[copy.base + p]
        inside == copy.base + 1 .. copy.base + Len(source) IN
    /\ node.succ \cap inside = {copy.base + s : s \in source[p].succ}
    /\ node.name = source[p].name
    /\ node.work = IF p \in cloneable THEN source[p].work ELSE Placeholder(source[p].name)

\* The edges that lead into a copy or out of it: those its own call asked for,
\* and those that a later call drew to or from its tasks.
CrossingEdges ==
  UNION {ToSet(c.before) \X ToSet(c.entries) \cup ToSet(c.exits) \X ToSet(c.after) :
           c \in ToSet(copies)}

CopyOf(p) == {i \in DOMAIN copies : p \in copies[i].base + 1 .. copies[i].base + Len(source)}

\* Every copy is the source over again, apart from all the others: no copy loses
\* an edge or shares a task, what was in the target is left as it was, edges are
\* known at both of their ends and counted once, and the target stays acyclic.
CopyFaithful ==
  /\ \A S \in (SUBSET DOMAIN target) \ {{}} : \E p \in S : target[p].succ \cap S = {}
  /\ \A copy \in ToSet(copies) : SameAs(copy)
  /\ \A p \in DOMAIN target :
       /\ target[p].id = p
       /\ target[p].deps = {q \in DOMAIN target : p \in target[q].succ}
       /\ target[p].numDeps = Cardinality(target[p].deps)
       /\ Cardinality(CopyOf(p)) <= 1
       /\ CopyOf(p) = {} => target[p].work = Own(p)
       /\ \A s \in target[p].succ :
            (CopyOf(p) = {} \/ CopyOf(p) # CopyOf(s)) <=> <<p, s>> \in CrossingEdges

=============================================================================
