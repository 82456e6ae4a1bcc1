------------------------- MODULE ParallelAlgorithms -------------------------
(***************************************************************************)
(* The parallel algorithms (src/src/algorithms.rs).  A call adds tasks to  *)
(* a taskflow, which an executor then runs as TaskExecution promises: any  *)
(* task whose dependencies are done, several of them at a time.  The tasks *)
(* share what the closures capture, each piece under a mutex of its own,   *)
(* and one action stands for each critical section.                        *)
(*                                                                         *)
(* Elements are combined by concatenation, which is associative and        *)
(* nothing more: a result tells which elements went into it, in which      *)
(* order.  The elements to sort are numbers.                               *)
(***************************************************************************)
EXTENDS Naturals, SequencesExt, FiniteSetsExt

CONSTANT Calls   \* the calls: records of algorithm, data and chunkSize

VARIABLES
  call,       \* the call the taskflow was built by
  pc,         \* task -> waiting, pulled (holding its items) or done
  items,      \* task -> the items it has pulled
  cursor,     \* the shared iterator: items handed out so far
  partials,   \* partial_results, sorted_chunks, chunk_sums
  prefixes,   \* chunk_prefixes
  result      \* final_result, results, merged or the scanned vector

vars == <<call, pc, items, cursor, partials, prefixes, result>>

Pullers == {"for_each", "transform", "reduce"}
Scans   == {"inclusive_scan", "exclusive_scan"}

DataLen   == Len(call.data)
NumChunks == (DataLen + call.chunkSize - 1) \div call.chunkSize

\* The range of chunk k, counted from one.
Start(k) == (k - 1) * call.chunkSize + 1
End(k)   == Min({k * call.chunkSize, DataLen})
Chunk(k) == SubSeq(call.data, Start(k), End(k))

Chunks == 1 .. NumChunks

\* What is added after the tasks of the chunks: one task that combines, or the
\* second and third phase of a scan and the shift of an exclusive one.
Combiner == NumChunks + 1
Adders   == NumChunks + 2 .. 2 * NumChunks
Shifter  == 2 * NumChunks + 1

SortsAtOnce == call.algorithm = "sort" /\ DataLen <= call.chunkSize

\* Mutant: the additions of the third phase do not wait for the second.
DependencyHasty(d, t) ==
  CASE t = Combiner -> d \in Chunks
    [] OTHER -> t = Shifter /\ d < Shifter

\* succeed and precede: t comes after d.
Dependency(d, t) ==
  CASE t = Combiner -> d \in Chunks
    [] t \in Adders -> d = Combiner
    [] OTHER -> t = Shifter /\ d < Shifter

TasksOf(c) ==
  LET n == (Len(c.data) + c.chunkSize - 1) \div c.chunkSize IN
  CASE c.algorithm \in {"for_each", "transform"} -> 1 .. n
    [] c.algorithm = "reduce" -> 1 .. n + 1
    [] c.algorithm = "sort" -> 1 .. (IF Len(c.data) <= c.chunkSize THEN 1 ELSE n + 1)
    [] OTHER -> IF c.data = <<>> THEN {}
                ELSE 1 .. (IF c.algorithm = "inclusive_scan" THEN 2 * n ELSE 2 * n + 1)

Init ==
  /\ call \in Calls
  /\ pc = [t \in TasksOf(call) |-> "waiting"]
  /\ items = [t \in TasksOf(call) |-> <<>>]
  /\ cursor = 0
  /\ partials = IF call.algorithm \in Scans THEN [k \in Chunks |-> <<>>] ELSE <<>>
  /\ prefixes = [k \in Chunks |-> <<>>]
  /\ result = IF call.algorithm \in Scans THEN [i \in 1 .. DataLen |-> <<>>] ELSE <<>>

Ready(t) ==
  /\ pc[t] = "waiting"
  /\ \A d \in DOMAIN pc : Dependency(d, t) => pc[d] = "done"

Finish(t) == pc' = [pc EXCEPT ![t] = "done"]

\* The items of a task are those that nobody has taken before, whatever its
\* chunk number.
Pull(t) ==
  /\ call.algorithm \in Pullers /\ t \in Chunks /\ Ready(t)
  /\ LET upto == Min({cursor + call.chunkSize, DataLen}) IN
     /\ items' = [items EXCEPT ![t] = SubSeq(call.data, cursor + 1, upto)]
     /\ cursor' = upto
  /\ pc' = [pc EXCEPT ![t] = "pulled"]
  /\ UNCHANGED <<call, partials, prefixes, result>>

\* func has been called on every item, the transformed items are appended, or
\* the fold of the chunk is pushed; the identity is neutral.
Store(t) ==
  /\ pc[t] = "pulled"
  /\ IF call.algorithm = "reduce"
     THEN partials' = Append(partials, items[t]) /\ UNCHANGED result
     ELSE result' = result \o items[t] /\ UNCHANGED partials
  /\ Finish(t)
  /\ UNCHANGED <<call, items, cursor, prefixes>>

\* reduce_combine folds the partial results in the order they were pushed in.
Combine ==
  /\ call.algorithm = "reduce" /\ Ready(Combiner)
  /\ result' = FlattenSeq(partials)
  /\ Finish(Combiner)
  /\ UNCHANGED <<call, items, cursor, partials, prefixes>>
-----------------------------------------------------------------------------
(* parallel_sort.                                                          *)

Sorted(s) == SortSeq(s, LAMBDA x, y : x < y)

SortChunk(k) ==
  /\ call.algorithm = "sort" /\ ~SortsAtOnce /\ k \in Chunks /\ Ready(k)
  /\ partials' = Append(partials, Sorted(Chunk(k)))
  /\ Finish(k)
  /\ UNCHANGED <<call, items, cursor, prefixes, result>>

SortSequential ==
  /\ SortsAtOnce /\ Ready(1)
  /\ result' = Sorted(call.data)
  /\ Finish(1)
  /\ UNCHANGED <<call, items, cursor, partials, prefixes>>

\* The merge takes the least head of the chunks, the first of equal ones, until
\* every iterator is at its end.
RECURSIVE Merged(_)
Merged(chunks) ==
  LET heads == {k \in DOMAIN chunks : chunks[k] # <<>>}
      least == CHOOSE k \in heads :
                 \A j \in heads : \/ chunks[k][1] < chunks[j][1]
                                  \/ chunks[k][1] = chunks[j][1] /\ k <= j
  IN  IF heads = {} THEN <<>>
      ELSE <<chunks[least][1]>> \o Merged([chunks EXCEPT ![least] = Tail(@)])

\* The code drops the merged vector; result stands for it.
Merge ==
  /\ call.algorithm = "sort" /\ ~SortsAtOnce /\ Ready(Combiner)
  /\ result' = Merged(partials)
  /\ Finish(Combiner)
  /\ UNCHANGED <<call, items, cursor, partials, prefixes>>
-----------------------------------------------------------------------------
(* The scans.                                                              *)

\* The first phase: the sums of a chunk from its own first element on.
ScanChunk(k) ==
  /\ call.algorithm \in Scans /\ k \in Chunks /\ Ready(k)
  /\ result' = [i \in DOMAIN result |->
                  IF i \in Start(k) .. End(k) THEN SubSeq(call.data, Start(k), i)
                  ELSE result[i]]
  /\ partials' = [partials EXCEPT ![k] = Chunk(k)]
  /\ Finish(k)
  /\ UNCHANGED <<call, items, cursor, prefixes>>

\* The second phase, with the mutexes of the sums and of the prefixes held.
ScanSums ==
  /\ call.algorithm \in Scans /\ Combiner \in DOMAIN pc /\ Ready(Combiner)
  /\ prefixes' = [k \in Chunks |-> FlattenSeq(SubSeq(partials, 1, k))]
  /\ Finish(Combiner)
  /\ UNCHANGED <<call, items, cursor, partials, result>>

\* The third phase, for every chunk but the first.
AddPrefix(t) ==
  /\ call.algorithm \in Scans /\ t \in Adders /\ Ready(t)
  /\ LET k == t - NumChunks IN
     result' = [i \in DOMAIN result |->
                  IF i \in Start(k) .. End(k) THEN prefixes[k - 1] \o result[i] ELSE result[i]]
  /\ Finish(t)
  /\ UNCHANGED <<call, items, cursor, partials, prefixes>>

\* The shift of an exclusive scan, into a vector of its own.
Shift ==
  /\ call.algorithm = "exclusive_scan" /\ Shifter \in DOMAIN pc /\ Ready(Shifter)
  /\ result' = [i \in DOMAIN result |-> IF i = 1 THEN <<>> ELSE result[i - 1]]
  /\ Finish(Shifter)
  /\ UNCHANGED <<call, items, cursor, partials, prefixes>>

Next ==
  \/ \E t \in DOMAIN pc : Pull(t) \/ Store(t) \/ SortChunk(t) \/ ScanChunk(t) \/ AddPrefix(t)
  \/ Combine \/ SortSequential \/ Merge \/ ScanSums \/ Shift

Spec == Init /\ [][Next]_vars
-----------------------------------------------------------------------------
(* Properties.                                                             *)

\* The data of Pullers and Scans are the numbers from one on: s has every element
\* once, and the elements of a chunk one after the other.
InBlocks(s) ==
  /\ Len(s) = DataLen /\ ToSet(s) = 1 .. DataLen
  /\ \A i \in DOMAIN s :
        s[i] % call.chunkSize # 0 /\ s[i] < DataLen => i < Len(s) /\ s[i + 1] = s[i] + 1

\* However the tasks interleave, the result is that of the sequential algorithm:
\* each element is handled exactly once, and the chunks are combined whole, in
\* some order; what is sorted is an ordered permutation; and a scan has at each
\* place the elements up to it, or before it, in their order.
SequentialResult ==
  (\A t \in DOMAIN pc : pc[t] = "done") =>
    CASE call.algorithm \in Pullers -> InBlocks(result)
      [] call.algorithm = "sort" ->
           /\ \A v \in ToSet(call.data) \cup ToSet(result) :
                 Len(SelectSeq(result, LAMBDA x : x = v))
                   = Len(SelectSeq(call.data, LAMBDA x : x = v))
           /\ \A i, j \in DOMAIN result : i < j => result[i] <= result[j]
      [] call.algorithm = "inclusive_scan" ->
           result = [i \in 1 .. DataLen |-> SubSeq(call.data, 1, i)]
      [] OTHER -> result = [i \in 1 .. DataLen |-> SubSeq(call.data, 1, i - 1)]

=============================================================================
