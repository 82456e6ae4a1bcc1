----------------------------- MODULE StreamPool -----------------------------
(***************************************************************************)
(* The pool of device streams (src/src/gpu_stream.rs): a guard is acquired *)
(* by one of two strategies, may record operations, and gives its count    *)
(* back when it is dropped.  The pool has no lock; each access to one of   *)
(* its atomics is a step.  A thread may hold several guards, and it is the *)
(* guards that take the steps here.                                        *)
(***************************************************************************)
EXTENDS Integers, FiniteSets

CONSTANTS
  Guards,      \* bound: each guard is acquired once
  NumStreams,  \* StreamPool::new refuses a pool without streams
  MaxRecords   \* bound: calls of record_op

ASSUME StreamPoolAssumption ==
  /\ IsFiniteSet(Guards)
  /\ NumStreams \in Nat \ {0}
  /\ MaxRecords \in Nat

VARIABLES
  assignment,  \* the StreamAssignment of the pool
  nextRobin,   \* next_robin
  pendingOps,  \* stream -> pending_ops
  at,          \* guard -> free, scanning, chosen, held, dropping or dropped
  cursor,      \* guard -> the streams min_by_key has looked at
  choice,      \* guard -> its stream, or the first least loaded one so far
  lowest,      \* guard -> the counter of that stream when it was read
  disturbed,   \* history: guard -> a counter has changed since it began to look
  recorded     \* history: stream -> calls of record_op

vars == <<assignment, nextRobin, pendingOps, at, cursor, choice, lowest, disturbed, recorded>>

Streams == 0 .. NumStreams - 1

Init ==
  /\ assignment \in {"RoundRobin", "LeastPending"}
  /\ nextRobin = 0
  /\ pendingOps = [s \in Streams |-> 0]
  /\ at = [g \in Guards |-> "free"]
  /\ cursor = [g \in Guards |-> 0]
  /\ choice = [g \in Guards |-> 0]
  /\ lowest = [g \in Guards |-> 0]
  /\ disturbed = [g \in Guards |-> FALSE]
  /\ recorded = [s \in Streams |-> 0]

Looking == {g \in Guards : at[g] \in {"scanning", "chosen"}}

\* A counter gets a new value; the guards that are looking may not know.
Change(s, value) ==
  /\ pendingOps' = [pendingOps EXCEPT ![s] = value]
  /\ disturbed' = [g \in Guards |-> disturbed[g] \/ g \in Looking]

Unchanged == UNCHANGED <<pendingOps, disturbed, recorded>>

\* acquire, round robin: one fetch_add.
AcquireRobin(g) ==
  /\ assignment = "RoundRobin" /\ at[g] = "free"
  /\ choice' = [choice EXCEPT ![g] = nextRobin % NumStreams]
  /\ nextRobin' = nextRobin + 1
  /\ at' = [at EXCEPT ![g] = "chosen"]
  /\ UNCHANGED <<assignment, cursor, lowest>> /\ Unchanged

\* acquire, least pending: the counters are read one after the other.
AcquireLeast(g) ==
  /\ assignment = "LeastPending" /\ at[g] = "free"
  /\ at' = [at EXCEPT ![g] = "scanning"]
  /\ UNCHANGED <<assignment, nextRobin, cursor, choice, lowest>> /\ Unchanged

Better(g) == cursor[g] = 0 \/ pendingOps[cursor[g]] < lowest[g]

Look(g) ==
  /\ at[g] = "scanning" /\ cursor[g] < NumStreams
  /\ choice' = [choice EXCEPT ![g] = IF Better(g) THEN cursor[g] ELSE @]
  /\ lowest' = [lowest EXCEPT ![g] = IF Better(g) THEN pendingOps[cursor[g]] ELSE @]
  /\ cursor' = [cursor EXCEPT ![g] = @ + 1]
  /\ at' = [at EXCEPT ![g] = IF cursor[g] + 1 = NumStreams THEN "chosen" ELSE @]
  /\ UNCHANGED <<assignment, nextRobin>> /\ Unchanged

\* The end of acquire: the stream is counted.
Count(g) ==
  /\ at[g] = "chosen"
  /\ Change(choice[g], pendingOps[choice[g]] + 1)
  /\ at' = [at EXCEPT ![g] = "held"]
  /\ UNCHANGED <<assignment, nextRobin, cursor, choice, lowest, recorded>>

RecordOp(g) ==
  /\ at[g] = "held" /\ recorded[choice[g]] < MaxRecords
  /\ Change(choice[g], pendingOps[choice[g]] + 1)
  /\ recorded' = [recorded EXCEPT ![choice[g]] = @ + 1]
  /\ UNCHANGED <<assignment, nextRobin, at, cursor, choice, lowest>>

\* drop: a load, and a subtraction unless it has read zero.
DropLoad(g) ==
  /\ at[g] = "held"
  /\ at' = [at EXCEPT ![g] = IF pendingOps[choice[g]] > 0 THEN "dropping" ELSE "dropped"]
  /\ UNCHANGED <<assignment, nextRobin, cursor, choice, lowest>> /\ Unchanged

\* Mutant: the guard also takes back what was recorded.
DropSubtractAll(g) ==
  /\ at[g] = "dropping"
  /\ Change(choice[g], pendingOps[choice[g]] - 1 - recorded[choice[g]])
  /\ at' = [at EXCEPT ![g] = "dropped"]
  /\ UNCHANGED <<assignment, nextRobin, cursor, choice, lowest, recorded>>

DropSubtract(g) ==
  /\ at[g] = "dropping"
  /\ Change(choice[g], pendingOps[choice[g]] - 1)
  /\ at' = [at EXCEPT ![g] = "dropped"]
  /\ UNCHANGED <<assignment, nextRobin, cursor, choice, lowest, recorded>>

Next ==
  \E g \in Guards : \/ AcquireRobin(g) \/ AcquireLeast(g) \/ Look(g) \/ Count(g)
                    \/ RecordOp(g) \/ DropLoad(g) \/ DropSubtract(g)

Spec == Init /\ [][Next]_vars
-----------------------------------------------------------------------------
(* Properties.                                                             *)

TypeOK ==
  /\ assignment \in {"RoundRobin", "LeastPending"}
  /\ nextRobin \in Nat
  /\ pendingOps \in [Streams -> Int]
  /\ at \in [Guards -> {"free", "scanning", "chosen", "held", "dropping", "dropped"}]
  /\ cursor \in [Guards -> 0 .. NumStreams]
  /\ choice \in [Guards -> Streams]
  /\ lowest \in [Guards -> Int]
  /\ disturbed \in [Guards -> BOOLEAN]
  /\ recorded \in [Streams -> 0 .. MaxRecords]

Holders(s) == {g \in Guards : at[g] \in {"held", "dropping"} /\ choice[g] = s}

\* A counter is the number of the guards that live on its stream and of the
\* recorded operations, which nothing takes back: although drop tests and
\* subtracts in two steps, the counter never goes below zero and no live guard
\* finds it at zero.
PendingExact == \A s \in Streams : pendingOps[s] = Cardinality(Holders(s)) + recorded[s]

\* The least pending strategy hands out a least loaded stream to whoever is not
\* overtaken by a change of the counters while it looks.
LeastChosen ==
  assignment = "LeastPending" =>
    \A g \in Guards : at[g] = "chosen" /\ ~disturbed[g] =>
      \A s \in Streams : pendingOps[choice[g]] <= pendingOps[s]

Takers(s) == {g \in Guards : at[g] # "free" /\ choice[g] = s}

\* Round robin hands out the streams evenly, however its callers interleave.
RotationEven ==
  assignment = "RoundRobin" =>
    \A r, s \in Streams : Cardinality(Takers(r)) <= Cardinality(Takers(s)) + 1

=============================================================================
