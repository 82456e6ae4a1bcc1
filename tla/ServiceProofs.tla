---------------------------- MODULE ServiceProofs ----------------------------
(***************************************************************************)
(* Proofs about the services around the executors.                         *)
(*                                                                         *)
(* The GPU, for any number of guards, streams and threads.  The pool:      *)
(* types, the exact meaning of the counters, the least loaded choice, and  *)
(* even rotation.  The copies: what the queues of the device will do to    *)
(* the buffers of a thread, and what a wait has seen done.                 *)
(*                                                                         *)
(* The monitoring, for any number of threads, clients and callers, and any *)
(* length of the history.  The metrics: what every thread has still to add *)
(* to a total, and the way of the peak to the current size.  The           *)
(* dashboard: what the history has used up of the completions.  The        *)
(* profiler: which run a statistic belongs to.                             *)
(***************************************************************************)
EXTENDS Gpu, Monitoring, DataLemmas

\* A guard begins with the first stream.
FreshInv == \A g \in Guards : at[g] = "free" => cursor[g] = 0

\* What a guard that has not been overtaken knows of the streams it has looked at.
ScanInv ==
  assignment = "LeastPending" =>
    \A g \in Guards : at[g] \in {"scanning", "chosen"} /\ ~disturbed[g] =>
      /\ at[g] = "chosen" => cursor[g] = NumStreams
      /\ cursor[g] > 0 => lowest[g] = pendingOps[choice[g]]
      /\ \A s \in 0 .. cursor[g] - 1 : pendingOps[choice[g]] <= pendingOps[s]

\* Round robin: nobody compares counters, and every stream has been given out
\* equally often but for those the current round has already reached.
RotationInv ==
  assignment = "RoundRobin" =>
    /\ \A g \in Guards : at[g] # "scanning"
    /\ \E q \in Nat : \A s \in Streams :
         Cardinality(Takers(s)) = IF s < nextRobin % NumStreams THEN q + 1 ELSE q

PoolInv == TypeOK /\ PendingExact /\ FreshInv /\ ScanInv /\ RotationInv
-----------------------------------------------------------------------------
LEMMA HoldersFinite ==
  \A s \in Streams : IsFiniteSet(Holders(s)) /\ Cardinality(Holders(s)) \in Nat
<1>1. ASSUME NEW s \in Streams PROVE IsFiniteSet(Holders(s))
  <2>1. Holders(s) \subseteq Guards
    BY DEF Holders
  <2> QED BY <2>1, FS_Subset, StreamPoolAssumption
<1> QED BY <1>1, FS_CardinalityType

LEMMA TypesInit == Init => TypeOK
<1> SUFFICES ASSUME Init PROVE TypeOK
  OBVIOUS
<1>1. 0 \in Streams /\ 0 \in 0 .. NumStreams /\ 0 \in 0 .. MaxRecords
  BY StreamPoolAssumption DEF Streams
<1> QED BY <1>1 DEF Init, TypeOK

LEMMA TypesNext == TypeOK /\ [Next]_vars => TypeOK'
<1> SUFFICES ASSUME TypeOK, [Next]_vars PROVE TypeOK'
  OBVIOUS
<1> USE StreamPoolAssumption
<1>1. CASE UNCHANGED vars
  BY <1>1 DEF vars, TypeOK
<1>2. ASSUME NEW g \in Guards, AcquireRobin(g) PROVE TypeOK'
  <2>1. nextRobin % NumStreams \in Streams
    BY DEF TypeOK, Streams
  <2>2. nextRobin + 1 \in Nat
    BY DEF TypeOK
  <2> QED BY <1>2, <2>1, <2>2 DEF AcquireRobin, Unchanged, TypeOK
<1>3. ASSUME NEW g \in Guards, AcquireLeast(g) PROVE TypeOK'
  BY <1>3 DEF AcquireLeast, Unchanged, TypeOK
<1>4. ASSUME NEW g \in Guards, Look(g) PROVE TypeOK'
  <2>1. cursor[g] \in Streams /\ cursor[g] + 1 \in 0 .. NumStreams /\ pendingOps[cursor[g]] \in Int
    <3>1. cursor[g] \in 0 .. NumStreams /\ cursor[g] < NumStreams /\ pendingOps \in [Streams -> Int]
      BY <1>4 DEF Look, TypeOK
    <3> QED BY <3>1 DEF Streams
  <2> QED BY <1>4, <2>1 DEF Look, Unchanged, TypeOK
<1>5. ASSUME NEW s \in Streams, NEW n \in Int, Change(s, n)
      PROVE  pendingOps' \in [Streams -> Int] /\ disturbed' \in [Guards -> BOOLEAN]
  BY <1>5 DEF Change, Looking, TypeOK
<1>6. ASSUME NEW g \in Guards
      PROVE  /\ choice[g] \in Streams /\ pendingOps[choice[g]] + 1 \in Int
             /\ pendingOps[choice[g]] - 1 \in Int
  BY DEF TypeOK
<1>7. ASSUME NEW g \in Guards, Count(g) PROVE TypeOK'
  BY <1>5, <1>6, <1>7 DEF Count, TypeOK
<1>8. ASSUME NEW g \in Guards, RecordOp(g) PROVE TypeOK'
  <2>1. recorded[choice[g]] + 1 \in 0 .. MaxRecords
    BY <1>6, <1>8 DEF RecordOp, TypeOK
  <2> QED BY <1>5, <1>6, <1>8, <2>1 DEF RecordOp, TypeOK
<1>9. ASSUME NEW g \in Guards, DropLoad(g) PROVE TypeOK'
  BY <1>9 DEF DropLoad, Unchanged, TypeOK
<1>10. ASSUME NEW g \in Guards, DropSubtract(g) PROVE TypeOK'
  BY <1>5, <1>6, <1>10 DEF DropSubtract, TypeOK
<1> QED BY <1>1, <1>2, <1>3, <1>4, <1>7, <1>8, <1>9, <1>10 DEF Next
-----------------------------------------------------------------------------
\* A step of a guard that neither takes a place on a stream nor leaves one.
LEMMA ExactKept ==
  ASSUME TypeOK, PendingExact, pendingOps' = pendingOps, recorded' = recorded,
         NEW g \in Guards,
         \A h \in Guards \ {g} : at'[h] = at[h] /\ choice'[h] = choice[h],
         at'[g] \in {"held", "dropping"} <=> at[g] \in {"held", "dropping"},
         at[g] \in {"held", "dropping"} => choice'[g] = choice[g]
  PROVE  PendingExact'
<1>1. ASSUME NEW s \in Streams PROVE Holders(s)' = Holders(s)
  BY DEF Holders
<1> QED BY <1>1 DEF PendingExact

LEMMA ExactCount ==
  ASSUME TypeOK, PendingExact, NEW g \in Guards, Count(g)
  PROVE  PendingExact'
<1>1. choice[g] \in Streams /\ choice' = choice /\ recorded' = recorded
  BY DEF Count, TypeOK
<1>2. Holders(choice[g])' = Holders(choice[g]) \cup {g} /\ g \notin Holders(choice[g])
  BY <1>1 DEF Holders, Count, TypeOK
<1>3. Cardinality(Holders(choice[g])') = Cardinality(Holders(choice[g])) + 1
  BY <1>1, <1>2, HoldersFinite, FS_AddElement
<1>4. pendingOps'[choice[g]] = pendingOps[choice[g]] + 1
  BY <1>1 DEF Count, Change, TypeOK
<1>5. ASSUME NEW s \in Streams, s # choice[g]
      PROVE  Holders(s)' = Holders(s) /\ pendingOps'[s] = pendingOps[s]
  BY <1>1, <1>5 DEF Holders, Count, Change, TypeOK
<1>6. ASSUME NEW s \in Streams
      PROVE  pendingOps'[s] = Cardinality(Holders(s)') + recorded'[s]
  <2>1. pendingOps[s] = Cardinality(Holders(s)) + recorded[s]
    BY DEF PendingExact
  <2>2. Cardinality(Holders(s)) \in Nat /\ recorded[s] \in Nat
    BY HoldersFinite DEF TypeOK
  <2>3. CASE s # choice[g]
    BY <1>1, <1>5, <2>1, <2>3
  <2>4. CASE s = choice[g]
    BY <1>1, <1>3, <1>4, <2>1, <2>2, <2>4
  <2> QED BY <2>3, <2>4
<1> QED BY <1>6 DEF PendingExact

LEMMA ExactRecord ==
  ASSUME TypeOK, PendingExact, NEW g \in Guards, RecordOp(g)
  PROVE  PendingExact'
<1>1. choice[g] \in Streams /\ choice' = choice /\ at' = at
  BY DEF RecordOp, TypeOK
<1>2. ASSUME NEW s \in Streams
      PROVE  pendingOps'[s] = Cardinality(Holders(s)') + recorded'[s]
  <2>1. pendingOps[s] = Cardinality(Holders(s)) + recorded[s]
    BY DEF PendingExact
  <2>2. Cardinality(Holders(s)) \in Nat /\ recorded[s] \in Nat
    BY HoldersFinite DEF TypeOK
  <2>3. Holders(s)' = Holders(s)
    BY <1>1 DEF Holders
  <2>4. CASE s = choice[g]
    <3>1. pendingOps'[s] = pendingOps[s] + 1 /\ recorded'[s] = recorded[s] + 1
      BY <2>4 DEF RecordOp, Change, TypeOK
    <3> QED BY <2>1, <2>2, <2>3, <3>1
  <2>5. CASE s # choice[g]
    <3>1. pendingOps'[s] = pendingOps[s] /\ recorded'[s] = recorded[s]
      BY <2>5 DEF RecordOp, Change, TypeOK
    <3> QED BY <2>1, <2>3, <3>1
  <2> QED BY <2>4, <2>5
<1> QED BY <1>2 DEF PendingExact

LEMMA ExactDrop ==
  ASSUME TypeOK, PendingExact, NEW g \in Guards, DropSubtract(g)
  PROVE  PendingExact'
<1>1. choice[g] \in Streams /\ choice' = choice /\ recorded' = recorded
  BY DEF DropSubtract, TypeOK
<1>2. Holders(choice[g])' = Holders(choice[g]) \ {g} /\ g \in Holders(choice[g])
  BY <1>1 DEF Holders, DropSubtract, TypeOK
<1>3. Cardinality(Holders(choice[g])') = Cardinality(Holders(choice[g])) - 1
  BY <1>1, <1>2, HoldersFinite, FS_RemoveElement
<1>4. pendingOps'[choice[g]] = pendingOps[choice[g]] - 1
  BY <1>1 DEF DropSubtract, Change, TypeOK
<1>5. ASSUME NEW s \in Streams, s # choice[g]
      PROVE  Holders(s)' = Holders(s) /\ pendingOps'[s] = pendingOps[s]
  BY <1>1, <1>5 DEF Holders, DropSubtract, Change, TypeOK
<1>6. ASSUME NEW s \in Streams
      PROVE  pendingOps'[s] = Cardinality(Holders(s)') + recorded'[s]
  <2>1. pendingOps[s] = Cardinality(Holders(s)) + recorded[s]
    BY DEF PendingExact
  <2>2. Cardinality(Holders(s)) \in Nat /\ recorded[s] \in Nat
    BY HoldersFinite DEF TypeOK
  <2>3. CASE s # choice[g]
    BY <1>1, <1>5, <2>1, <2>3
  <2>4. CASE s = choice[g]
    BY <1>1, <1>3, <1>4, <2>1, <2>2, <2>4
  <2> QED BY <2>3, <2>4
<1> QED BY <1>6 DEF PendingExact

LEMMA ExactNext == TypeOK /\ PendingExact /\ [Next]_vars => PendingExact'
<1> SUFFICES ASSUME TypeOK, PendingExact, [Next]_vars PROVE PendingExact'
  OBVIOUS
<1>1. CASE UNCHANGED vars
  BY <1>1 DEF vars, PendingExact, Holders
<1>2. ASSUME NEW g \in Guards, AcquireRobin(g) PROVE PendingExact'
  BY <1>2, ExactKept DEF AcquireRobin, Unchanged, TypeOK
<1>3. ASSUME NEW g \in Guards, AcquireLeast(g) PROVE PendingExact'
  BY <1>3, ExactKept DEF AcquireLeast, Unchanged, TypeOK
<1>4. ASSUME NEW g \in Guards, Look(g) PROVE PendingExact'
  BY <1>4, ExactKept DEF Look, Unchanged, TypeOK
<1>5. ASSUME NEW g \in Guards, DropLoad(g) PROVE PendingExact'
  <2>1. choice[g] \in Streams /\ Cardinality(Holders(choice[g])) \in Nat
    BY HoldersFinite DEF TypeOK
  <2>2. g \in Holders(choice[g])
    BY <1>5 DEF DropLoad, Holders
  <2>3. Cardinality(Holders(choice[g]) \ {g}) = Cardinality(Holders(choice[g])) - 1
        /\ Cardinality(Holders(choice[g]) \ {g}) \in Nat
    BY <2>1, <2>2, HoldersFinite, FS_RemoveElement, FS_CardinalityType
  <2>4. pendingOps[choice[g]] > 0
    BY <2>1, <2>3 DEF PendingExact, TypeOK
  <2>5. at' = [at EXCEPT ![g] = "dropping"] /\ choice' = choice
        /\ pendingOps' = pendingOps /\ recorded' = recorded
    BY <1>5, <2>4 DEF DropLoad, Unchanged
  <2>6. at[g] = "held"
    BY <1>5 DEF DropLoad
  <2> QED BY <2>5, <2>6, ExactKept DEF TypeOK
<1> QED BY <1>1, <1>2, <1>3, <1>4, <1>5, ExactCount, ExactRecord, ExactDrop DEF Next
-----------------------------------------------------------------------------
\* Whoever changes a counter disturbs all that are looking.
LEMMA ScanChange ==
  ASSUME TypeOK, ScanInv, NEW g \in Guards, NEW s \in Streams, NEW n \in Int, Change(s, n),
         \A h \in Guards : at'[h] \in {"scanning", "chosen"} => at'[h] = at[h],
         UNCHANGED <<assignment, cursor, choice, lowest>>
  PROVE  ScanInv'
<1>1. ASSUME NEW h \in Guards, at'[h] \in {"scanning", "chosen"} PROVE disturbed'[h]
  BY <1>1 DEF Change, Looking
<1> QED BY <1>1 DEF ScanInv

LEMMA ScanLook ==
  ASSUME TypeOK, ScanInv, NEW g \in Guards, Look(g)
  PROVE  ScanInv'
<1> SUFFICES ASSUME assignment = "LeastPending", NEW h \in Guards,
                    at'[h] \in {"scanning", "chosen"}, ~disturbed'[h]
             PROVE  /\ at'[h] = "chosen" => cursor'[h] = NumStreams
                    /\ cursor'[h] > 0 => lowest'[h] = pendingOps'[choice'[h]]
                    /\ \A s \in 0 .. cursor'[h] - 1 : pendingOps'[choice'[h]] <= pendingOps'[s]
  BY DEF ScanInv, Look
<1>1. pendingOps' = pendingOps /\ disturbed' = disturbed
  BY DEF Look, Unchanged
<1>2. CASE h # g
  <2>1. at'[h] = at[h] /\ cursor'[h] = cursor[h] /\ lowest'[h] = lowest[h] /\ choice'[h] = choice[h]
    BY <1>2 DEF Look, TypeOK
  <2> QED BY <1>1, <2>1 DEF ScanInv
<1>3. CASE h = g
  <2> DEFINE c == cursor[g]
  <2>1. c \in 0 .. NumStreams /\ c \in Streams /\ NumStreams \in Nat
        /\ choice[g] \in Streams /\ lowest[g] \in Int /\ pendingOps \in [Streams -> Int]
    <3>1. NumStreams \in Nat
      BY StreamPoolAssumption
    <3>2. c \in 0 .. NumStreams
      BY DEF TypeOK
    <3>3. c < NumStreams
      BY DEF Look
    <3>4. c \in Streams
      BY <3>1, <3>2, <3>3 DEF Streams
    <3>5. choice[g] \in Streams /\ lowest[g] \in Int /\ pendingOps \in [Streams -> Int]
      BY DEF TypeOK
    <3> HIDE DEF c
    <3> QED BY <3>1, <3>2, <3>4, <3>5
  <2>2. /\ at[g] = "scanning"
        /\ c > 0 => lowest[g] = pendingOps[choice[g]]
        /\ \A s \in 0 .. c - 1 : pendingOps[choice[g]] <= pendingOps[s]
    BY <1>1, <1>3 DEF ScanInv, Look
  <2>3. /\ cursor'[g] = c + 1
        /\ at'[g] = "chosen" => c + 1 = NumStreams
        /\ choice'[g] = IF Better(g) THEN c ELSE choice[g]
        /\ lowest'[g] = IF Better(g) THEN pendingOps[c] ELSE lowest[g]
    BY <2>2 DEF Look, TypeOK
  <2>4. lowest'[g] = pendingOps[choice'[g]]
    BY <2>1, <2>2, <2>3 DEF Better
  <2>5. ASSUME NEW s \in 0 .. c PROVE pendingOps[choice'[g]] <= pendingOps[s]
    <3>1. s \in Streams /\ (s = c \/ s \in 0 .. c - 1)
      BY <2>1 DEF Streams
    <3>2. pendingOps[s] \in Int /\ pendingOps[c] \in Int /\ pendingOps[choice[g]] \in Int
      BY <2>1, <3>1
    <3>3. CASE Better(g)
      <4>1. choice'[g] = c
        BY <2>3, <3>3
      <4>2. CASE s = c
        BY <3>2, <4>1, <4>2
      <4>3. CASE s \in 0 .. c - 1
        <5>1. c > 0
          BY <2>1, <4>3
        <5>2. pendingOps[c] < pendingOps[choice[g]]
          BY <2>2, <3>3, <5>1 DEF Better
        <5> QED BY <2>2, <3>2, <4>1, <4>3, <5>2
      <4> QED BY <3>1, <4>2, <4>3
    <3>4. CASE ~Better(g)
      <4>1. choice'[g] = choice[g] /\ c > 0
        BY <2>1, <2>3, <3>4 DEF Better
      <4>2. pendingOps[choice[g]] <= pendingOps[c]
        BY <2>1, <2>2, <3>2, <3>4, <4>1 DEF Better
      <4> QED BY <2>2, <3>1, <4>1, <4>2
    <3> QED BY <3>3, <3>4
  <2>6. cursor'[g] - 1 = c
    BY <2>1, <2>3
  <2>7. \A s \in 0 .. cursor'[g] - 1 : pendingOps'[choice'[g]] <= pendingOps'[s]
    BY <1>1, <2>5, <2>6
  <2>8. at'[g] = "chosen" => cursor'[g] = NumStreams
    BY <2>3
  <2> QED BY <1>1, <1>3, <2>4, <2>7, <2>8
<1> QED BY <1>2, <1>3

LEMMA FreshNext == TypeOK /\ FreshInv /\ [Next]_vars => FreshInv'
<1> SUFFICES ASSUME TypeOK, FreshInv, [Next]_vars, NEW g \in Guards, at'[g] = "free"
             PROVE  cursor'[g] = 0
  BY DEF FreshInv
<1>1. CASE UNCHANGED vars
  BY <1>1 DEF vars, FreshInv
<1>2. ASSUME NEW h \in Guards,
             AcquireRobin(h) \/ AcquireLeast(h) \/ Look(h) \/ Count(h)
             \/ RecordOp(h) \/ DropLoad(h) \/ DropSubtract(h)
      PROVE  at[g] = "free" /\ cursor'[g] = cursor[g]
  BY <1>2 DEF AcquireRobin, AcquireLeast, Look, Count, RecordOp, DropLoad, DropSubtract, TypeOK
<1> QED BY <1>1, <1>2 DEF Next, FreshInv

LEMMA ScanNext == TypeOK /\ FreshInv /\ ScanInv /\ [Next]_vars => ScanInv'
<1> SUFFICES ASSUME TypeOK, FreshInv, ScanInv, [Next]_vars PROVE ScanInv'
  OBVIOUS
<1>1. CASE UNCHANGED vars
  BY <1>1 DEF vars, ScanInv
<1>2. ASSUME NEW g \in Guards, AcquireRobin(g) PROVE ScanInv'
  BY <1>2 DEF AcquireRobin, ScanInv
<1>3. ASSUME NEW g \in Guards, AcquireLeast(g) PROVE ScanInv'
  <2>1. cursor[g] = 0
    BY <1>3 DEF AcquireLeast, FreshInv
  <2>2. at' = [at EXCEPT ![g] = "scanning"] /\ UNCHANGED <<assignment, cursor, choice, lowest>>
        /\ pendingOps' = pendingOps /\ disturbed' = disturbed
    BY <1>3 DEF AcquireLeast, Unchanged
  <2>3. 0 .. cursor[g] - 1 = {}
    BY <2>1
  <2> QED BY <2>1, <2>2, <2>3 DEF ScanInv, TypeOK
<1>4. ASSUME NEW g \in Guards
      PROVE  /\ choice[g] \in Streams /\ pendingOps[choice[g]] + 1 \in Int
             /\ pendingOps[choice[g]] - 1 \in Int
  BY DEF TypeOK
<1>5. ASSUME NEW g \in Guards, Count(g) PROVE ScanInv'
  BY <1>4, <1>5, ScanChange DEF Count, TypeOK
<1>6. ASSUME NEW g \in Guards, RecordOp(g) PROVE ScanInv'
  BY <1>4, <1>6, ScanChange DEF RecordOp, TypeOK
<1>7. ASSUME NEW g \in Guards, DropSubtract(g) PROVE ScanInv'
  BY <1>4, <1>7, ScanChange DEF DropSubtract, TypeOK
<1>8. ASSUME NEW g \in Guards, DropLoad(g) PROVE ScanInv'
  BY <1>8 DEF DropLoad, Unchanged, ScanInv, TypeOK
<1> QED BY <1>1, <1>2, <1>3, <1>5, <1>6, <1>7, <1>8, ScanLook DEF Next
-----------------------------------------------------------------------------
(* Round robin.                                                            *)

LEMMA TakersFinite ==
  \A s \in Streams : IsFiniteSet(Takers(s)) /\ Cardinality(Takers(s)) \in Nat
<1>1. ASSUME NEW s \in Streams PROVE IsFiniteSet(Takers(s))
  <2>1. Takers(s) \subseteq Guards
    BY DEF Takers
  <2> QED BY <2>1, FS_Subset, StreamPoolAssumption
<1> QED BY <1>1, FS_CardinalityType

\* A step that takes no stream.
LEMMA RotationKept ==
  ASSUME TypeOK, RotationInv, assignment' = assignment, nextRobin' = nextRobin, choice' = choice,
         \A g \in Guards : at'[g] = "free" <=> at[g] = "free",
         \A g \in Guards : at'[g] = "scanning" => at[g] = "scanning"
  PROVE  RotationInv'
<1>1. ASSUME NEW s \in Streams PROVE Takers(s)' = Takers(s)
  BY DEF Takers
<1> QED BY <1>1 DEF RotationInv

LEMMA RotationTake ==
  ASSUME TypeOK, RotationInv, NEW g \in Guards, AcquireRobin(g)
  PROVE  RotationInv'
<1>0. PICK r \in Streams : r = nextRobin % NumStreams
  BY StreamPoolAssumption, ModuloNext DEF Streams, TypeOK
<1>1. /\ NumStreams \in Nat \ {0} /\ nextRobin \in Nat /\ nextRobin' = nextRobin + 1
      /\ assignment = "RoundRobin" /\ assignment' = assignment
      /\ at[g] = "free" /\ at'[g] = "chosen" /\ choice'[g] = r
      /\ \A h \in Guards \ {g} : at'[h] = at[h] /\ choice'[h] = choice[h]
  BY <1>0, StreamPoolAssumption DEF AcquireRobin, TypeOK
<1>2. r \in Streams /\ r \in 0 .. NumStreams - 1
      /\ nextRobin' % NumStreams = IF r = NumStreams - 1 THEN 0 ELSE r + 1
  BY <1>0, <1>1, ModuloNext DEF Streams
<1>3. PICK q \in Nat : \A s \in Streams :
        Cardinality(Takers(s)) = IF s < r THEN q + 1 ELSE q
  BY <1>0, <1>1 DEF RotationInv
<1>4. Cardinality(Takers(r)') = q + 1
  <2>1. Takers(r)' = Takers(r) \cup {g} /\ g \notin Takers(r)
    BY <1>1 DEF Takers
  <2>2. Cardinality(Takers(r)) = q
    BY <1>2, <1>3
  <2> QED BY <1>2, <2>1, <2>2, TakersFinite, FS_AddElement
<1>5. ASSUME NEW s \in Streams, s # r PROVE Cardinality(Takers(s)') = IF s < r THEN q + 1 ELSE q
  <2>1. Takers(s)' = Takers(s)
    BY <1>1, <1>5 DEF Takers
  <2> QED BY <1>3, <2>1
<1>6. \A s \in Streams : s \in 0 .. NumStreams - 1
  BY DEF Streams
<1>7. CASE r = NumStreams - 1
  <2>1. nextRobin' % NumStreams = 0
    BY <1>2, <1>7
  <2>2. ASSUME NEW s \in Streams
        PROVE  Cardinality(Takers(s)') = IF s < 0 THEN (q + 1) + 1 ELSE q + 1
    <3>1. s \in 0 .. NumStreams - 1 /\ (s = r \/ s < r)
      BY <1>1, <1>6, <1>7
    <3> QED BY <1>4, <1>5, <3>1
  <2>3. q + 1 \in Nat
    OBVIOUS
  <2> QED BY <1>1, <2>1, <2>2, <2>3 DEF RotationInv
<1>8. CASE r # NumStreams - 1
  <2>1. nextRobin' % NumStreams = r + 1
    BY <1>2, <1>8
  <2>2. ASSUME NEW s \in Streams
        PROVE  Cardinality(Takers(s)') = IF s < r + 1 THEN q + 1 ELSE q
    <3>1. s \in Int /\ r \in Int
      BY <1>2, <1>6
    <3> QED BY <1>4, <1>5, <3>1
  <2> QED BY <1>1, <2>1, <2>2 DEF RotationInv
<1> QED BY <1>7, <1>8

LEMMA RotationNext == TypeOK /\ RotationInv /\ [Next]_vars => RotationInv'
<1> SUFFICES ASSUME TypeOK, RotationInv, [Next]_vars PROVE RotationInv'
  OBVIOUS
<1>1. CASE UNCHANGED vars
  BY <1>1, RotationKept DEF vars
<1>2. ASSUME NEW g \in Guards, AcquireLeast(g) PROVE RotationInv'
  BY <1>2 DEF AcquireLeast, RotationInv
<1>3. ASSUME NEW g \in Guards, Look(g) PROVE RotationInv'
  BY <1>3 DEF Look, RotationInv
<1>4. ASSUME NEW g \in Guards, Count(g) PROVE RotationInv'
  BY <1>4, RotationKept DEF Count, TypeOK
<1>5. ASSUME NEW g \in Guards, RecordOp(g) PROVE RotationInv'
  BY <1>5, RotationKept DEF RecordOp, TypeOK
<1>6. ASSUME NEW g \in Guards, DropLoad(g) PROVE RotationInv'
  BY <1>6, RotationKept DEF DropLoad, TypeOK
<1>7. ASSUME NEW g \in Guards, DropSubtract(g) PROVE RotationInv'
  BY <1>7, RotationKept DEF DropSubtract, TypeOK
<1> QED BY <1>1, <1>2, <1>3, <1>4, <1>5, <1>6, <1>7, RotationTake DEF Next
-----------------------------------------------------------------------------
(* Queues of copies.                                                       *)

\* A copy on a queue.
Copies == [by : Users, direction : {"h2d", "d2h"}, value : Nat]

Writes(q, u) == {i \in DOMAIN q : q[i].by = u /\ q[i].direction = "h2d"}
Reads(q, u)  == {i \in DOMAIN q : q[i].by = u /\ q[i].direction = "d2h"}

\* The last position in S before i, if there is one.
Latest(S, i) == {j \in S : j < i /\ \A k \in S : k < i => k <= j}

\* What the device buffer of u, now d, will hold when the queue q has been executed
\* up to position i.
Before(q, u, d, i, v) ==
  \/ \E j \in Latest(Writes(q, u), i) : q[j].value = v
  \/ (\A j \in Writes(q, u) : j >= i) /\ d = v

\* When q has been executed, the device buffer of u, now d, will hold w, and the
\* host buffer, now h, will hold r.
Settled(q, u, d, h, w, r) ==
  /\ Before(q, u, d, Len(q) + 1, w)
  /\ \/ \E j \in Latest(Reads(q, u), Len(q) + 1) : Before(q, u, d, j, r)
     \/ Reads(q, u) = {} /\ h = r

LEMMA AppendCopy ==
  ASSUME NEW q \in Seq(Copies), NEW c \in Copies, NEW u
  PROVE  /\ Append(q, c) \in Seq(Copies) /\ Len(Append(q, c)) = Len(q) + 1 /\ Len(q) \in Nat
         /\ \A i \in 1 .. Len(q) : Append(q, c)[i] = q[i]
         /\ Append(q, c)[Len(q) + 1] = c
         /\ Writes(q, u) \subseteq 1 .. Len(q) /\ Reads(q, u) \subseteq 1 .. Len(q)
         /\ c.by = u /\ c.direction = "h2d" =>
              Writes(Append(q, c), u) = Writes(q, u) \cup {Len(q) + 1}
         /\ c.by # u \/ c.direction # "h2d" => Writes(Append(q, c), u) = Writes(q, u)
         /\ c.by = u /\ c.direction = "d2h" =>
              Reads(Append(q, c), u) = Reads(q, u) \cup {Len(q) + 1}
         /\ c.by # u \/ c.direction # "d2h" => Reads(Append(q, c), u) = Reads(q, u)
<1> DEFINE p == Append(q, c)
<1>1. /\ p \in Seq(Copies) /\ Len(p) = Len(q) + 1 /\ Len(q) \in Nat
      /\ DOMAIN q = 1 .. Len(q) /\ DOMAIN p = 1 .. Len(q) + 1
      /\ \A i \in 1 .. Len(q) : p[i] = q[i]
      /\ p[Len(q) + 1] = c
  BY AppendProperties, LenProperties
<1> HIDE DEF p
<1>2. 1 .. Len(q) + 1 = 1 .. Len(q) \cup {Len(q) + 1}
  BY <1>1
<1>3. Writes(q, u) \subseteq 1 .. Len(q) /\ Reads(q, u) \subseteq 1 .. Len(q)
  BY <1>1 DEF Writes, Reads
<1>4. IF c.by = u /\ c.direction = "h2d"
      THEN Writes(p, u) = Writes(q, u) \cup {Len(q) + 1} ELSE Writes(p, u) = Writes(q, u)
  BY <1>1, <1>2 DEF Writes
<1>5. IF c.by = u /\ c.direction = "d2h"
      THEN Reads(p, u) = Reads(q, u) \cup {Len(q) + 1} ELSE Reads(p, u) = Reads(q, u)
  BY <1>1, <1>2 DEF Reads
<1> QED BY <1>1, <1>3, <1>4, <1>5 DEF p

\* What comes behind a position does not matter to it.
LEMMA BeforeAppend ==
  ASSUME NEW q \in Seq(Copies), NEW c \in Copies, NEW u, NEW d, NEW v,
         NEW i \in 1 .. Len(q) + 1
  PROVE  Before(Append(q, c), u, d, i, v) <=> Before(q, u, d, i, v)
<1> DEFINE p == Append(q, c)
<1>1. /\ Len(q) \in Nat
      /\ \A j \in 1 .. Len(q) : p[j] = q[j]
      /\ Writes(q, u) \subseteq 1 .. Len(q)
      /\ Writes(p, u) = Writes(q, u) \/ Writes(p, u) = Writes(q, u) \cup {Len(q) + 1}
  BY AppendCopy
<1> HIDE DEF p
<1>2. Latest(Writes(p, u), i) = Latest(Writes(q, u), i)
  BY <1>1 DEF Latest
<1>3. \A j \in Latest(Writes(q, u), i) : p[j] = q[j]
  BY <1>1 DEF Latest
<1>4. (\A j \in Writes(p, u) : j >= i) <=> (\A j \in Writes(q, u) : j >= i)
  BY <1>1
<1>5. Before(p, u, d, i, v) <=> Before(q, u, d, i, v)
  BY <1>2, <1>3, <1>4 DEF Before
<1> QED BY <1>5 DEF p

\* A copy by somebody else.
LEMMA AppendOther ==
  ASSUME NEW q \in Seq(Copies), NEW c \in Copies, NEW u, c.by # u, NEW d, NEW h, NEW w, NEW r,
         Settled(q, u, d, h, w, r)
  PROVE  Settled(Append(q, c), u, d, h, w, r)
<1> DEFINE p == Append(q, c)
<1>1. /\ Len(p) = Len(q) + 1 /\ Len(q) \in Nat
      /\ \A j \in 1 .. Len(q) : p[j] = q[j]
      /\ Writes(q, u) \subseteq 1 .. Len(q) /\ Reads(q, u) \subseteq 1 .. Len(q)
      /\ Writes(p, u) = Writes(q, u) /\ Reads(p, u) = Reads(q, u)
  BY AppendCopy
<1>2. \A v : \A i \in 1 .. Len(q) + 1 : Before(p, u, d, i, v) <=> Before(q, u, d, i, v)
  BY BeforeAppend
<1> HIDE DEF p
<1>3. /\ Latest(Writes(q, u), Len(p) + 1) = Latest(Writes(q, u), Len(q) + 1)
      /\ Latest(Reads(q, u), Len(p) + 1) = Latest(Reads(q, u), Len(q) + 1)
  BY <1>1 DEF Latest
<1>4. Before(p, u, d, Len(p) + 1, w)
  <2>1. Before(q, u, d, Len(q) + 1, w)
    BY DEF Settled
  <2>2. Latest(Writes(p, u), Len(p) + 1) = Latest(Writes(q, u), Len(q) + 1)
    BY <1>1, <1>3
  <2>3. \A j \in Writes(p, u) : ~(j >= Len(q) + 1)
    BY <1>1
  <2>4. (\A j \in Writes(q, u) : j >= Len(q) + 1) => \A j \in Writes(p, u) : j >= Len(p) + 1
    BY <1>1, <2>3
  <2>5. \A j \in Latest(Writes(q, u), Len(q) + 1) : p[j] = q[j]
    BY <1>1 DEF Latest
  <2> QED BY <2>1, <2>2, <2>4, <2>5 DEF Before
<1>5. \A j \in Latest(Reads(q, u), Len(q) + 1) :
        j \in Latest(Reads(p, u), Len(p) + 1) /\ j \in 1 .. Len(q) + 1
  BY <1>1, <1>3 DEF Latest
<1>6. Settled(p, u, d, h, w, r)
  BY <1>1, <1>2, <1>4, <1>5 DEF Settled
<1> QED BY <1>6 DEF p

\* A copy to the device: it will hold what is copied.
LEMMA AppendWrite ==
  ASSUME NEW q \in Seq(Copies), NEW c \in Copies, NEW u, c.by = u, c.direction = "h2d",
         NEW d, NEW h, NEW w, NEW r, Settled(q, u, d, h, w, r)
  PROVE  Settled(Append(q, c), u, d, h, c.value, r)
<1> DEFINE p == Append(q, c)
<1>0. c.direction # "d2h"
  OBVIOUS
<1>1. /\ Len(p) = Len(q) + 1 /\ Len(q) \in Nat
      /\ p[Len(q) + 1] = c
      /\ Writes(q, u) \subseteq 1 .. Len(q) /\ Reads(q, u) \subseteq 1 .. Len(q)
      /\ Writes(p, u) = Writes(q, u) \cup {Len(q) + 1} /\ Reads(p, u) = Reads(q, u)
  <2>1. Writes(p, u) = Writes(q, u) \cup {Len(q) + 1}
    BY AppendCopy
  <2>2. Reads(p, u) = Reads(q, u)
    BY <1>0, AppendCopy
  <2>3. /\ Len(p) = Len(q) + 1 /\ Len(q) \in Nat
        /\ p[Len(q) + 1] = c
        /\ Writes(q, u) \subseteq 1 .. Len(q) /\ Reads(q, u) \subseteq 1 .. Len(q)
    BY AppendCopy
  <2> QED BY <2>1, <2>2, <2>3
<1>2. \A v : \A i \in 1 .. Len(q) + 1 : Before(p, u, d, i, v) <=> Before(q, u, d, i, v)
  BY BeforeAppend
<1> HIDE DEF p
<1>3. Len(q) + 1 \in Latest(Writes(p, u), Len(p) + 1)
  BY <1>1 DEF Latest
<1>4. Before(p, u, d, Len(p) + 1, c.value)
  BY <1>1, <1>3 DEF Before
<1>5. \A j \in Latest(Reads(q, u), Len(q) + 1) :
        j \in Latest(Reads(p, u), Len(p) + 1) /\ j \in 1 .. Len(q) + 1
  BY <1>1 DEF Latest
<1>6. Settled(p, u, d, h, c.value, r)
  BY <1>1, <1>2, <1>4, <1>5 DEF Settled
<1> QED BY <1>6 DEF p

\* A copy to the host: it will bring what the device will hold.
LEMMA AppendRead ==
  ASSUME NEW q \in Seq(Copies), NEW c \in Copies, NEW u, c.by = u, c.direction = "d2h",
         NEW d, NEW h, NEW w, NEW r, Settled(q, u, d, h, w, r)
  PROVE  Settled(Append(q, c), u, d, h, w, w)
<1> DEFINE p == Append(q, c)
<1>0. c.direction # "h2d"
  OBVIOUS
<1>1. /\ Len(p) = Len(q) + 1 /\ Len(q) \in Nat
      /\ \A j \in 1 .. Len(q) : p[j] = q[j]
      /\ Writes(q, u) \subseteq 1 .. Len(q) /\ Reads(q, u) \subseteq 1 .. Len(q)
      /\ Writes(p, u) = Writes(q, u) /\ Reads(p, u) = Reads(q, u) \cup {Len(q) + 1}
  <2>1. Reads(p, u) = Reads(q, u) \cup {Len(q) + 1}
    BY AppendCopy
  <2>2. Writes(p, u) = Writes(q, u)
    BY <1>0, AppendCopy
  <2>3. /\ Len(p) = Len(q) + 1 /\ Len(q) \in Nat
        /\ \A j \in 1 .. Len(q) : p[j] = q[j]
        /\ Writes(q, u) \subseteq 1 .. Len(q) /\ Reads(q, u) \subseteq 1 .. Len(q)
    BY AppendCopy
  <2> QED BY <2>1, <2>2, <2>3
<1>2. Before(q, u, d, Len(q) + 1, w) /\ Before(p, u, d, Len(q) + 1, w)
  BY <1>1, BeforeAppend DEF Settled
<1> HIDE DEF p
<1>3. Len(q) + 1 \in Latest(Reads(p, u), Len(p) + 1)
  BY <1>1 DEF Latest
<1>4. Before(p, u, d, Len(p) + 1, w)
  <2>1. Latest(Writes(p, u), Len(p) + 1) = Latest(Writes(p, u), Len(q) + 1)
    BY <1>1 DEF Latest
  <2>2. (\A j \in Writes(p, u) : j >= Len(q) + 1) => \A j \in Writes(p, u) : j >= Len(p) + 1
    BY <1>1
  <2> QED BY <1>2, <2>1, <2>2 DEF Before
<1>5. Settled(p, u, d, h, w, w)
  BY <1>2, <1>3, <1>4 DEF Settled
<1> QED BY <1>5 DEF p
-----------------------------------------------------------------------------
LEMMA TailCopy ==
  ASSUME NEW q \in Seq(Copies), q # <<>>, NEW u
  PROVE  /\ Tail(q) \in Seq(Copies) /\ Len(Tail(q)) = Len(q) - 1 /\ Len(q) \in Nat \ {0}
         /\ Head(q) = q[1] /\ q[1] \in Copies
         /\ \A i \in 1 .. Len(q) - 1 : Tail(q)[i] = q[i + 1]
         /\ Writes(q, u) \subseteq 1 .. Len(q) /\ Reads(q, u) \subseteq 1 .. Len(q)
         /\ Writes(Tail(q), u) = {i \in 1 .. Len(q) - 1 : i + 1 \in Writes(q, u)}
         /\ Reads(Tail(q), u) = {i \in 1 .. Len(q) - 1 : i + 1 \in Reads(q, u)}
         /\ 1 \in Writes(q, u) <=> Head(q).by = u /\ Head(q).direction = "h2d"
         /\ 1 \in Reads(q, u) <=> Head(q).by = u /\ Head(q).direction = "d2h"
<1> DEFINE p == Tail(q)
<1>1. /\ p \in Seq(Copies) /\ Len(p) = Len(q) - 1 /\ Len(q) \in Nat \ {0}
      /\ Head(q) = q[1] /\ q[1] \in Copies
      /\ DOMAIN q = 1 .. Len(q) /\ DOMAIN p = 1 .. Len(q) - 1
      /\ \A i \in 1 .. Len(q) - 1 : p[i] = q[i + 1]
  BY HeadTailProperties, EmptySeq, LenProperties
<1> HIDE DEF p
<1>2. \A i \in 1 .. Len(q) - 1 : i + 1 \in 1 .. Len(q)
  BY <1>1
<1>3. Writes(q, u) \subseteq 1 .. Len(q) /\ Reads(q, u) \subseteq 1 .. Len(q)
  BY <1>1 DEF Writes, Reads
<1>4. Writes(p, u) = {i \in 1 .. Len(q) - 1 : i + 1 \in Writes(q, u)}
  BY <1>1, <1>2 DEF Writes
<1>5. Reads(p, u) = {i \in 1 .. Len(q) - 1 : i + 1 \in Reads(q, u)}
  BY <1>1, <1>2 DEF Reads
<1>6. 1 \in Writes(q, u) <=> Head(q).by = u /\ Head(q).direction = "h2d"
  BY <1>1 DEF Writes
<1>7. 1 \in Reads(q, u) <=> Head(q).by = u /\ Head(q).direction = "d2h"
  BY <1>1 DEF Reads
<1> QED BY <1>1, <1>3, <1>4, <1>5, <1>6, <1>7 DEF p

\* The positions move by one.
LEMMA LatestTail ==
  ASSUME NEW n \in Nat, NEW S, S \subseteq 1 .. n + 1, NEW T, T = {i \in 1 .. n : i + 1 \in S},
         NEW i \in 1 .. n + 1, NEW j \in Latest(S, i + 1), j # 1
  PROVE  j - 1 \in Latest(T, i) /\ j - 1 \in 1 .. n
<1>1. j \in S /\ j \in 1 .. n + 1 /\ j < i + 1 /\ \A k \in S : k < i + 1 => k <= j
  BY DEF Latest
<1>2. j - 1 \in 1 .. n /\ (j - 1) + 1 = j /\ j - 1 < i
  BY <1>1
<1>3. j - 1 \in T
  BY <1>1, <1>2
<1>4. ASSUME NEW k \in T, k < i PROVE k <= j - 1
  <2>1. k \in 1 .. n /\ k + 1 \in S /\ k + 1 < i + 1
    BY <1>4
  <2>2. k + 1 <= j
    BY <1>1, <2>1
  <2> QED BY <1>1, <2>1, <2>2
<1> QED BY <1>2, <1>3, <1>4 DEF Latest

\* When the head has been executed the rest still brings what it would have brought;
\* e is what the device buffer holds then.
LEMMA BeforeTail ==
  ASSUME NEW q \in Seq(Copies), q # <<>>, NEW u, NEW d, NEW e,
         e = IF 1 \in Writes(q, u) THEN Head(q).value ELSE d,
         NEW i \in 1 .. Len(q), NEW v, Before(q, u, d, i + 1, v)
  PROVE  Before(Tail(q), u, e, i, v)
<1> DEFINE p == Tail(q)
           n == Len(q) - 1
<1>1. /\ Len(p) = n /\ n \in Nat /\ n + 1 = Len(q)
      /\ Head(q) = q[1]
      /\ \A k \in 1 .. n : p[k] = q[k + 1]
      /\ Writes(q, u) \subseteq 1 .. n + 1
      /\ Writes(p, u) = {k \in 1 .. n : k + 1 \in Writes(q, u)}
  BY TailCopy
<1>2. i \in 1 .. n + 1
  BY <1>1
<1> HIDE DEF p, n
<1>3. ASSUME NEW j \in Latest(Writes(q, u), i + 1), q[j].value = v, j # 1
      PROVE  Before(p, u, e, i, v)
  <2>1. j - 1 \in Latest(Writes(p, u), i) /\ j - 1 \in 1 .. n
    BY <1>1, <1>2, <1>3, LatestTail
  <2>2. j \in 1 .. n + 1
    BY <1>1 DEF Latest
  <2>3. p[j - 1].value = v
    BY <1>1, <1>3, <2>1, <2>2
  <2> QED BY <2>1, <2>3 DEF Before
<1>4. ASSUME \A k \in Writes(q, u) : k < i + 1 => k <= 1, e = v PROVE Before(p, u, e, i, v)
  <2>1. ASSUME NEW k \in Writes(p, u) PROVE k >= i
    BY <1>1, <1>2, <1>4
  <2> QED BY <1>4, <2>1 DEF Before
<1>5. ASSUME NEW j \in Latest(Writes(q, u), i + 1), q[j].value = v, j = 1
      PROVE  Before(p, u, e, i, v)
  <2>1. 1 \in Writes(q, u) /\ \A k \in Writes(q, u) : k < i + 1 => k <= 1
    BY <1>5 DEF Latest
  <2>2. e = v
    BY <1>1, <1>5, <2>1
  <2> QED BY <1>4, <2>1, <2>2
<1>6. ASSUME \A k \in Writes(q, u) : k >= i + 1, d = v PROVE Before(p, u, e, i, v)
  <2>1. 1 \notin Writes(q, u)
    BY <1>2, <1>6, <1>1
  <2>2. ASSUME NEW k \in Writes(q, u), k < i + 1 PROVE k <= 1
    BY <1>1, <1>2, <1>6, <2>2
  <2> QED BY <1>4, <1>6, <2>1, <2>2
<1>7. Before(p, u, e, i, v)
  BY <1>3, <1>5, <1>6 DEF Before
<1> QED BY <1>7 DEF p

\* The device has executed the head: e and g are what the buffers of u hold then.
LEMMA SettledTail ==
  ASSUME NEW q \in Seq(Copies), q # <<>>, NEW u, NEW d, NEW h, NEW w, NEW r,
         Settled(q, u, d, h, w, r), NEW e, NEW g,
         e = IF 1 \in Writes(q, u) THEN Head(q).value ELSE d,
         g = IF 1 \in Reads(q, u) THEN d ELSE h
  PROVE  Settled(Tail(q), u, e, g, w, r)
<1> DEFINE p == Tail(q)
           n == Len(q) - 1
<1>1. /\ Len(p) = n /\ n \in Nat /\ n + 1 = Len(q)
      /\ Writes(q, u) \subseteq 1 .. n + 1 /\ Reads(q, u) \subseteq 1 .. n + 1
      /\ Reads(p, u) = {k \in 1 .. n : k + 1 \in Reads(q, u)}
  BY TailCopy
<1>2. \A v : \A i \in 1 .. n + 1 : Before(q, u, d, i + 1, v) => Before(p, u, e, i, v)
  BY <1>1, BeforeTail
<1> HIDE DEF p, n
<1>3. Before(p, u, e, Len(p) + 1, w)
  <2>1. Before(q, u, d, (n + 1) + 1, w) /\ n + 1 \in 1 .. n + 1
    BY <1>1 DEF Settled
  <2> QED BY <1>1, <1>2, <2>1
<1>4. ASSUME NEW j \in Latest(Reads(q, u), Len(q) + 1), Before(q, u, d, j, r), j # 1
      PROVE  Settled(p, u, e, g, w, r)
  <2>1. n + 1 \in 1 .. n + 1 /\ j \in Latest(Reads(q, u), (n + 1) + 1)
    BY <1>1
  <2>2. j - 1 \in Latest(Reads(p, u), n + 1) /\ j - 1 \in 1 .. n
    BY <1>1, <1>4, <2>1, LatestTail
  <2>3. j - 1 \in 1 .. n + 1 /\ (j - 1) + 1 = j
    BY <1>1, <1>4, <2>2 DEF Latest
  <2>4. Before(p, u, e, j - 1, r)
    BY <1>2, <1>4, <2>3
  <2> QED BY <1>1, <1>3, <2>2, <2>4 DEF Settled
<1>5. ASSUME Reads(p, u) = {}, g = r PROVE Settled(p, u, e, g, w, r)
  BY <1>3, <1>5 DEF Settled
<1>6. ASSUME 1 \in Latest(Reads(q, u), Len(q) + 1), Before(q, u, d, 1, r)
      PROVE  Settled(p, u, e, g, w, r)
  <2>1. 1 \in Reads(q, u) /\ \A k \in Reads(q, u) : k < Len(q) + 1 => k <= 1
    BY <1>6 DEF Latest
  <2>2. Reads(p, u) = {}
    BY <1>1, <2>1
  <2>3. Latest(Writes(q, u), 1) = {}
    BY <1>1 DEF Latest
  <2>4. d = r
    BY <1>6, <2>3 DEF Before
  <2> QED BY <1>5, <2>1, <2>2, <2>4
<1>7. ASSUME Reads(q, u) = {}, h = r PROVE Settled(p, u, e, g, w, r)
  BY <1>1, <1>5, <1>7
<1>8. Settled(p, u, e, g, w, r)
  BY <1>4, <1>6, <1>7 DEF Settled
<1> QED BY <1>8 DEF p

\* Nothing is queued: the buffers hold what they should.
LEMMA SettledIdle ==
  ASSUME NEW q, NEW u, Writes(q, u) = {}, Reads(q, u) = {},
         NEW d, NEW h, NEW w, NEW r
  PROVE  Settled(q, u, d, h, w, r) <=> d = w /\ h = r
BY DEF Settled, Before, Latest
-----------------------------------------------------------------------------
TransferTypes ==
  /\ queues \in [Transfer!Streams -> Seq(Copies)]
  /\ made \in [Users -> Nat]
  /\ device \in [Users -> Int] /\ host \in [Users -> Int]
  /\ written \in [Users -> Int] /\ read \in [Users -> Int]
  /\ entangled \subseteq Users
  /\ waits \in [Users -> Seq(Transfer!Streams)]
  /\ due \in [Users -> SUBSET (Transfer!Streams \X Users \X Nat)]

\* No copy carries a number its thread has not given out.
NumberInv ==
  /\ \A s \in Transfer!Streams : \A i \in DOMAIN queues[s] :
       queues[s][i].value <= made[queues[s][i].by]
  /\ \A u, v \in Users, s \in Transfer!Streams, n \in Nat : <<s, v, n>> \in due[u] => n <= made[v]

\* A backend that copies at once leaves nothing on the streams.
AtOnceInv == ~Transfer!Backend.queues => \A s \in Transfer!Streams : queues[s] = <<>>

\* A thread that keeps to one queue at a time has copies on one stream at most, and
\* these will bring what its history says.
CopyInv ==
  Transfer!Backend.moves =>
    \A u \in Users \ entangled : \E s \in Transfer!Streams :
      /\ Transfer!Outstanding(u) \subseteq {s}
      /\ Settled(queues[s], u, device[u], host[u], written[u], read[u])

TransferInv == TransferTypes /\ NumberInv /\ Transfer!BarrierHolds /\ AtOnceInv /\ CopyInv
-----------------------------------------------------------------------------
LEMMA BackendFacts ==
  /\ Transfer!Backend.fresh \subseteq Int
  /\ Transfer!Backend.moves \in BOOLEAN /\ Transfer!Backend.queues \in BOOLEAN
<1>1. Transfer!Backend \in {Transfer!CudaBackend, Transfer!RocmBackend, Transfer!OpenCLBackend,
                            Transfer!StubBackend}
  BY DEF Transfer!Backend
<1>2. Transfer!CudaBackend.fresh \subseteq Int /\ Transfer!CudaBackend.moves \in BOOLEAN /\ Transfer!CudaBackend.queues \in BOOLEAN
  BY DEF Transfer!CudaBackend, Transfer!Garbage
<1>3. Transfer!RocmBackend.fresh \subseteq Int /\ Transfer!RocmBackend.moves \in BOOLEAN /\ Transfer!RocmBackend.queues \in BOOLEAN
  BY DEF Transfer!RocmBackend, Transfer!Garbage
<1>4. Transfer!OpenCLBackend.fresh \subseteq Int /\ Transfer!OpenCLBackend.moves \in BOOLEAN /\ Transfer!OpenCLBackend.queues \in BOOLEAN
  BY DEF Transfer!OpenCLBackend, Transfer!Garbage
<1>5. Transfer!StubBackend.fresh \subseteq Int /\ Transfer!StubBackend.moves \in BOOLEAN /\ Transfer!StubBackend.queues \in BOOLEAN
  BY DEF Transfer!StubBackend, Transfer!Garbage
<1> QED BY <1>1, <1>2, <1>3, <1>4, <1>5

LEMMA TransferTypesInit == Transfer!Init => TransferTypes
<1> SUFFICES ASSUME Transfer!Init PROVE TransferTypes
  OBVIOUS
<1>1. <<>> \in Seq(Copies) /\ <<>> \in Seq(Transfer!Streams)
  BY EmptySeq
<1> QED BY <1>1, BackendFacts DEF Transfer!Init, TransferTypes

\* What a call gives its copy.
LEMMA EffectTypes ==
  ASSUME TransferTypes, NEW u \in Users, NEW direction, NEW value \in Int,
         Transfer!Effect(u, direction, value)
  PROVE  device' \in [Users -> Int] /\ host' \in [Users -> Int]
BY DEF TransferTypes, Transfer!Effect

LEMMA CallTypes ==
  ASSUME TransferTypes, NEW u \in Users, NEW direction, NEW elsewhere,
         Transfer!Calls(u), Transfer!Notes(u, direction, elsewhere)
  PROVE  /\ kind' = kind /\ waits' = waits /\ due' = due
         /\ made[u] + 1 \in Nat /\ made' \in [Users -> Nat]
         /\ written' \in [Users -> Int] /\ read' \in [Users -> Int]
         /\ entangled' \subseteq Users
<1>1. made[u] + 1 \in Nat /\ made' \in [Users -> Nat]
  BY DEF TransferTypes, Transfer!Calls
<1> QED BY <1>1 DEF TransferTypes, Transfer!Calls, Transfer!Notes

LEMMA TransferTypesNext == TransferTypes /\ [Transfer!Next]_transferVars => TransferTypes'
<1> SUFFICES ASSUME TransferTypes, [Transfer!Next]_transferVars PROVE TransferTypes'
  OBVIOUS
<1>1. CASE UNCHANGED transferVars
  BY <1>1 DEF transferVars, TransferTypes
<1>2. ASSUME NEW u \in Users, NEW direction \in {"h2d", "d2h"}, Transfer!CopySync(u, direction)
      PROVE  TransferTypes'
  <2>1. /\ kind' = kind /\ waits' = waits /\ due' = due /\ queues' = queues
        /\ made[u] + 1 \in Nat /\ made' \in [Users -> Nat]
        /\ written' \in [Users -> Int] /\ read' \in [Users -> Int]
        /\ entangled' \subseteq Users
    BY <1>2, CallTypes DEF Transfer!CopySync
  <2>2. Transfer!Effect(u, direction, made[u] + 1) /\ made[u] + 1 \in Int
    BY <1>2, <2>1 DEF Transfer!CopySync
  <2>3. device' \in [Users -> Int] /\ host' \in [Users -> Int]
    BY <2>2, EffectTypes
  <2> QED BY <2>1, <2>3 DEF TransferTypes
<1>3. ASSUME NEW u \in Users, NEW direction \in {"h2d", "d2h"}, NEW s \in Transfer!Streams,
             Transfer!CopyAsync(u, direction, s)
      PROVE  TransferTypes'
  <2>1. /\ kind' = kind /\ waits' = waits /\ due' = due
        /\ made[u] + 1 \in Nat /\ made' \in [Users -> Nat]
        /\ written' \in [Users -> Int] /\ read' \in [Users -> Int]
        /\ entangled' \subseteq Users
    BY <1>3, CallTypes DEF Transfer!CopyAsync
  <2>2. queues' \in [Transfer!Streams -> Seq(Copies)]
    <3> DEFINE c == [by |-> u, direction |-> direction, value |-> made[u] + 1]
    <3>1. c \in Copies
      BY <2>1 DEF Copies
    <3>2. queues[s] \in Seq(Copies)
      BY DEF TransferTypes
    <3>3. Append(queues[s], c) \in Seq(Copies)
      BY <3>1, <3>2, AppendFacts
    <3>4. queues' = queues \/ queues' = [queues EXCEPT ![s] = Append(queues[s], c)]
      BY <1>3 DEF Transfer!CopyAsync
    <3> HIDE DEF c
    <3> QED BY <3>3, <3>4 DEF TransferTypes
  <2>3. device' \in [Users -> Int] /\ host' \in [Users -> Int]
    <3>1. Transfer!Effect(u, direction, made[u] + 1) \/ UNCHANGED <<device, host>>
      BY <1>3 DEF Transfer!CopyAsync
    <3>2. made[u] + 1 \in Int
      BY <2>1
    <3> QED BY <3>1, <3>2, EffectTypes DEF TransferTypes
  <2> QED BY <2>1, <2>2, <2>3 DEF TransferTypes
<1>4. ASSUME NEW u \in Users, NEW streams \in Seq(Transfer!Streams), Transfer!BeginWait(u, streams)
      PROVE  TransferTypes'
  <2>1. UNION {Transfer!Operations(s) : s \in ToSet(streams)}
          \in SUBSET (Transfer!Streams \X Users \X Nat)
    <3>1. ASSUME NEW s \in Transfer!Streams, NEW i \in DOMAIN queues[s]
          PROVE  <<s, queues[s][i].by, queues[s][i].value>> \in Transfer!Streams \X Users \X Nat
      <4>1. queues[s][i] \in Copies
        BY ElementOfSeq, LenProperties DEF TransferTypes
      <4> QED BY <4>1 DEF Copies
    <3>2. ToSet(streams) \subseteq Transfer!Streams
      BY LenProperties, ElementOfSeq DEF ToSet
    <3> QED BY <3>1, <3>2 DEF Transfer!Operations
  <2> QED BY <1>4, <2>1 DEF Transfer!BeginWait, Transfer!ToSet, ToSet, TransferTypes
<1>5. \A s \in Transfer!Streams : <<s>> \in Seq(Transfer!Streams)
  OBVIOUS
<1>6. [s \in Transfer!Streams |-> s] \in Seq(Transfer!Streams)
  BY StreamPoolAssumption, SeqDef DEF Transfer!Streams
<1>7. ASSUME NEW u \in Users, Transfer!WaitNext(u) PROVE TransferTypes'
  <2>1. Tail(waits[u]) \in Seq(Transfer!Streams)
    BY <1>7, EmptySeq, HeadTailProperties DEF Transfer!WaitNext, TransferTypes
  <2> QED BY <1>7, <2>1 DEF Transfer!WaitNext, TransferTypes
<1>8. ASSUME NEW u \in Users, Transfer!WaitFails(u) PROVE TransferTypes'
  BY <1>8, EmptySeq DEF Transfer!WaitFails, TransferTypes
<1>9. ASSUME NEW s \in Transfer!Streams, Transfer!Execute(s) PROVE TransferTypes'
  <2>1. queues[s] \in Seq(Copies) /\ queues[s] # <<>>
    BY <1>9 DEF Transfer!Execute, TransferTypes
  <2>2. Head(queues[s]) \in Copies /\ Tail(queues[s]) \in Seq(Copies)
    BY <2>1, EmptySeq, HeadTailProperties
  <2>3. Head(queues[s]).by \in Users /\ Head(queues[s]).value \in Int
    BY <2>2 DEF Copies
  <2>4. device' \in [Users -> Int] /\ host' \in [Users -> Int]
    BY <1>9, <2>3, EffectTypes DEF Transfer!Execute
  <2>5. queues' \in [Transfer!Streams -> Seq(Copies)]
    BY <1>9, <2>2 DEF Transfer!Execute, TransferTypes
  <2>6. due' \in [Users -> SUBSET (Transfer!Streams \X Users \X Nat)]
    BY <1>9 DEF Transfer!Execute, TransferTypes
  <2> QED BY <1>9, <2>4, <2>5, <2>6 DEF Transfer!Execute, TransferTypes
<1>10. ASSUME NEW u \in Users, Transfer!SynchronizeNothing(u) PROVE TransferTypes'
  <2>1. \A s \in Transfer!Streams : Transfer!Operations(s) \subseteq Transfer!Streams \X Users \X Nat
    <3> SUFFICES ASSUME NEW s \in Transfer!Streams, NEW i \in DOMAIN queues[s]
                 PROVE  queues[s][i].by \in Users /\ queues[s][i].value \in Nat
      BY DEF Transfer!Operations
    <3>1. queues[s][i] \in Copies
      BY ElementOfSeq, LenProperties DEF TransferTypes
    <3> QED BY <3>1 DEF Copies
  <2>2. UNION {Transfer!Operations(s) : s \in Transfer!Streams}
          \in SUBSET (Transfer!Streams \X Users \X Nat)
    BY <2>1
  <2> QED BY <1>10, <2>2 DEF Transfer!SynchronizeNothing, TransferTypes
<1> QED BY <1>1, <1>2, <1>3, <1>4, <1>5, <1>6, <1>7, <1>8, <1>9, <1>10
        DEF Transfer!Next, Transfer!Synchronize, Transfer!SynchronizeAll, Transfer!SynchronizeDevice
-----------------------------------------------------------------------------
\* What is on a stream carries numbers that have been given out.
LEMMA NumberFacts ==
  ASSUME TransferTypes, NumberInv, NEW s \in Transfer!Streams, NEW v \in Users, NEW n \in Nat,
         <<s, v, n>> \in Transfer!Operations(s)
  PROVE  n <= made[v]
<1>1. PICK i \in DOMAIN queues[s] : <<s, v, n>> = <<s, queues[s][i].by, queues[s][i].value>>
  BY DEF Transfer!Operations
<1> QED BY <1>1 DEF NumberInv

\* An operation on a stream names the stream, a thread and a number.
LEMMA OperationTypes ==
  ASSUME TransferTypes, NEW s \in Transfer!Streams, NEW o \in Transfer!Operations(s)
  PROVE  \E v \in Users, n \in Nat : o = <<s, v, n>>
<1>1. PICK i \in DOMAIN queues[s] : o = <<s, queues[s][i].by, queues[s][i].value>>
  BY DEF Transfer!Operations
<1>2. queues[s][i] \in Copies
  BY ElementOfSeq, LenProperties DEF TransferTypes
<1> QED BY <1>1, <1>2 DEF Copies

LEMMA OperationsAppend ==
  ASSUME NEW q \in Seq(Copies), NEW c \in Copies, NEW i \in DOMAIN Append(q, c)
  PROVE  \/ i \in DOMAIN q /\ Append(q, c)[i] = q[i]
         \/ Append(q, c)[i] = c
<1>1. DOMAIN q = 1 .. Len(q) /\ DOMAIN Append(q, c) = 1 .. Len(q) + 1 /\ Len(q) \in Nat
  BY AppendProperties, LenProperties
<1>2. Append(q, c)[Len(q) + 1] = c /\ \A j \in 1 .. Len(q) : Append(q, c)[j] = q[j]
  BY AppendProperties
<1> QED BY <1>1, <1>2

LEMMA OperationsTail ==
  ASSUME NEW q \in Seq(Copies), q # <<>>, NEW i \in DOMAIN Tail(q)
  PROVE  i + 1 \in DOMAIN q /\ Tail(q)[i] = q[i + 1]
<1>1. DOMAIN q = 1 .. Len(q) /\ DOMAIN Tail(q) = 1 .. Len(q) - 1 /\ Len(q) \in Nat
  BY EmptySeq, HeadTailProperties, LenProperties
<1>2. \A j \in 1 .. Len(q) - 1 : Tail(q)[j] = q[j + 1]
  BY EmptySeq, HeadTailProperties
<1> QED BY <1>1, <1>2

\* A copy that is queued takes the number its thread gives out with it.
LEMMA CopyFacts ==
  ASSUME TransferTypes, NEW u \in Users, NEW direction \in {"h2d", "d2h"}, NEW s \in Transfer!Streams,
         Transfer!CopyAsync(u, direction, s)
  PROVE  /\ made[u] + 1 \in Nat /\ made'[u] = made[u] + 1
         /\ \A v \in Users \ {u} : made'[v] = made[v]
         /\ kind' = kind /\ waits' = waits /\ due' = due /\ unwaited' = unwaited
         /\ \/ ~Transfer!Backend.queues /\ queues' = queues
               /\ Transfer!Effect(u, direction, made[u] + 1)
            \/ /\ Transfer!Backend.queues /\ UNCHANGED <<device, host>>
               /\ \E c \in Copies :
                    /\ c.by = u /\ c.direction = direction /\ c.value = made[u] + 1
                    /\ queues'[s] = Append(queues[s], c)
                    /\ \A t \in Transfer!Streams \ {s} : queues'[t] = queues[t]
<1>1. /\ made[u] + 1 \in Nat /\ made'[u] = made[u] + 1
      /\ \A v \in Users \ {u} : made'[v] = made[v]
      /\ kind' = kind /\ waits' = waits /\ due' = due /\ unwaited' = unwaited
  BY DEF Transfer!CopyAsync, Transfer!Calls, TransferTypes
<1>2. PICK c : c = [by |-> u, direction |-> direction, value |-> made[u] + 1]
  OBVIOUS
<1>3. c \in Copies /\ c.by = u /\ c.direction = direction /\ c.value = made[u] + 1
  BY <1>1, <1>2 DEF Copies
<1>4. CASE ~Transfer!Backend.queues
  BY <1>1, <1>4 DEF Transfer!CopyAsync
<1>5. CASE Transfer!Backend.queues
  <2>1. queues' = [queues EXCEPT ![s] = Append(queues[s], c)] /\ UNCHANGED <<device, host>>
    BY <1>2, <1>5 DEF Transfer!CopyAsync
  <2>2. queues'[s] = Append(queues[s], c) /\ \A t \in Transfer!Streams \ {s} : queues'[t] = queues[t]
    BY <2>1 DEF TransferTypes
  <2> QED BY <1>1, <1>3, <1>5, <2>1, <2>2
<1> QED BY <1>4, <1>5

LEMMA ExecuteFacts ==
  ASSUME TransferTypes, NEW s \in Transfer!Streams, Transfer!Execute(s)
  PROVE  /\ queues[s] \in Seq(Copies) /\ queues[s] # <<>>
         /\ queues'[s] = Tail(queues[s])
         /\ \A t \in Transfer!Streams \ {s} : queues'[t] = queues[t]
         /\ \A u \in Users : due'[u] \subseteq due[u]
         /\ UNCHANGED <<kind, made, written, read, entangled, waits, unwaited>>
BY DEF Transfer!Execute, TransferTypes

LEMMA NumberNext ==
  TransferTypes /\ NumberInv /\ [Transfer!Next]_transferVars => NumberInv'
<1> SUFFICES ASSUME TransferTypes, NumberInv, [Transfer!Next]_transferVars PROVE NumberInv'
  OBVIOUS
<1> DEFINE Named == \A s \in Transfer!Streams : \A i : i \in DOMAIN queues[s] =>
                      queues[s][i].by \in Users /\ queues[s][i].value \in Nat
<1>1. Named
  <2> SUFFICES ASSUME NEW s \in Transfer!Streams, NEW i \in DOMAIN queues[s]
               PROVE  queues[s][i].by \in Users /\ queues[s][i].value \in Nat
    OBVIOUS
  <2>1. queues[s][i] \in Copies
    BY ElementOfSeq, LenProperties DEF TransferTypes
  <2> QED BY <2>1 DEF Copies
<1>2. ASSUME queues' = queues, \A v \in Users : made'[v] \in Nat /\ made[v] <= made'[v], due' = due
      PROVE  NumberInv'
  <2>1. ASSUME NEW s \in Transfer!Streams, NEW i \in DOMAIN queues[s]
        PROVE  queues[s][i].value <= made'[queues[s][i].by]
    <3>1. /\ queues[s][i].by \in Users /\ queues[s][i].value \in Nat
          /\ queues[s][i].value <= made[queues[s][i].by]
      BY <1>1 DEF NumberInv
    <3>2. made[queues[s][i].by] \in Nat
      BY <3>1 DEF TransferTypes
    <3> QED BY <1>2, <3>1, <3>2
  <2>2. ASSUME NEW u \in Users, NEW v \in Users, NEW s \in Transfer!Streams, NEW n \in Nat,
               <<s, v, n>> \in due'[u]
        PROVE  n <= made'[v]
    <3>1. n <= made[v] /\ made[v] \in Nat
      BY <1>2, <2>2 DEF NumberInv, TransferTypes
    <3> QED BY <1>2, <3>1
  <2> QED BY <1>2, <2>1, <2>2 DEF NumberInv
<1>3. CASE UNCHANGED transferVars
  BY <1>3 DEF transferVars, NumberInv
<1>4. ASSUME NEW u \in Users, NEW direction \in {"h2d", "d2h"}, Transfer!CopySync(u, direction)
      PROVE  NumberInv'
  <2>1. \A v \in Users : made'[v] \in Nat /\ made[v] <= made'[v]
    BY <1>4 DEF Transfer!CopySync, Transfer!Calls, TransferTypes
  <2> QED BY <1>2, <1>4, <2>1 DEF Transfer!CopySync, Transfer!Calls
<1>5. ASSUME NEW u \in Users, NEW direction \in {"h2d", "d2h"}, NEW s \in Transfer!Streams,
             Transfer!CopyAsync(u, direction, s)
      PROVE  NumberInv'
  <2>1. /\ made'[u] = made[u] + 1 /\ \A v \in Users \ {u} : made'[v] = made[v]
        /\ made[u] + 1 \in Nat /\ due' = due
    BY <1>5, CopyFacts
  <2>2. \A v \in Users : made'[v] \in Nat /\ made[v] <= made'[v]
    <3>1. \A v \in Users : made[v] \in Nat
      BY DEF TransferTypes
    <3> QED BY <2>1, <3>1
  <2>3. CASE queues' = queues
    BY <1>2, <2>1, <2>2, <2>3
  <2>4. ASSUME NEW c \in Copies, c.by = u, c.value = made[u] + 1, queues'[s] = Append(queues[s], c),
               \A t \in Transfer!Streams \ {s} : queues'[t] = queues[t]
        PROVE  NumberInv'
    <3>1. ASSUME NEW t \in Transfer!Streams, NEW i \in DOMAIN queues'[t]
          PROVE  queues'[t][i].value <= made'[queues'[t][i].by]
      <4>1. CASE i \in DOMAIN queues[t] /\ queues'[t][i] = queues[t][i]
        <5>1. /\ queues[t][i].by \in Users /\ queues[t][i].value \in Nat
              /\ queues[t][i].value <= made[queues[t][i].by]
          BY <1>1, <4>1 DEF NumberInv
        <5>2. made[queues[t][i].by] \in Nat
          BY <5>1 DEF TransferTypes
        <5> QED BY <2>2, <4>1, <5>1, <5>2
      <4>2. CASE queues'[t][i] = c
        BY <2>1, <2>4, <4>2
      <4>3. t # s => i \in DOMAIN queues[t] /\ queues'[t][i] = queues[t][i]
        BY <2>4
      <4>4. t = s => (i \in DOMAIN queues[t] /\ queues'[t][i] = queues[t][i]) \/ queues'[t][i] = c
        <5>1. queues[s] \in Seq(Copies)
          BY DEF TransferTypes
        <5>2. ASSUME t = s PROVE i \in DOMAIN Append(queues[s], c)
          BY <2>4, <5>2
        <5> QED BY <2>4, <5>1, <5>2, OperationsAppend
      <4> QED BY <4>1, <4>2, <4>3, <4>4
    <3>2. ASSUME NEW v \in Users, NEW w \in Users, NEW t \in Transfer!Streams, NEW n \in Nat,
                 <<t, w, n>> \in due'[v]
          PROVE  n <= made'[w]
      <4>1. n <= made[w] /\ made[w] \in Nat
        BY <2>1, <3>2 DEF NumberInv, TransferTypes
      <4> QED BY <2>2, <4>1
    <3> QED BY <3>1, <3>2 DEF NumberInv
  <2> QED BY <1>5, <2>3, <2>4, CopyFacts
<1>6. ASSUME NEW u \in Users, NEW streams \in Seq(Transfer!Streams), Transfer!BeginWait(u, streams)
      PROVE  NumberInv'
  <2>1. queues' = queues /\ made' = made
    BY <1>6 DEF Transfer!BeginWait
  <2>2. ASSUME NEW v \in Users, NEW w \in Users, NEW t \in Transfer!Streams, NEW n \in Nat,
               <<t, w, n>> \in due'[v]
        PROVE  n <= made[w]
    <3>1. CASE v # u
      BY <1>6, <2>2, <3>1 DEF Transfer!BeginWait, NumberInv, TransferTypes
    <3>2. CASE v = u
      <4>1. <<t, w, n>> \in UNION {Transfer!Operations(s) : s \in Transfer!ToSet(streams)}
        BY <1>6, <2>2, <3>2 DEF Transfer!BeginWait, TransferTypes
      <4>2. PICK s \in Transfer!ToSet(streams) : <<t, w, n>> \in Transfer!Operations(s)
        BY <4>1
      <4>3. s = t
        BY <4>2 DEF Transfer!Operations
      <4> QED BY <4>2, <4>3, NumberFacts
    <3> QED BY <3>1, <3>2
  <2> QED BY <2>1, <2>2 DEF NumberInv
<1>7. \A s \in Transfer!Streams : <<s>> \in Seq(Transfer!Streams)
  OBVIOUS
<1>8. [s \in Transfer!Streams |-> s] \in Seq(Transfer!Streams)
  BY StreamPoolAssumption, SeqDef DEF Transfer!Streams
<1>9. ASSUME NEW u \in Users, Transfer!WaitNext(u) PROVE NumberInv'
  BY <1>9 DEF Transfer!WaitNext, NumberInv
<1>10. ASSUME NEW u \in Users, Transfer!WaitFails(u) PROVE NumberInv'
  BY <1>10 DEF Transfer!WaitFails, NumberInv, TransferTypes
<1>11. ASSUME NEW s \in Transfer!Streams, Transfer!Execute(s) PROVE NumberInv'
  <2>1. /\ queues[s] \in Seq(Copies) /\ queues[s] # <<>> /\ queues'[s] = Tail(queues[s])
        /\ \A t \in Transfer!Streams \ {s} : queues'[t] = queues[t]
        /\ \A u \in Users : due'[u] \subseteq due[u]
        /\ made' = made
    BY <1>11, ExecuteFacts
  <2>2. ASSUME NEW t \in Transfer!Streams, NEW i \in DOMAIN queues'[t]
        PROVE  queues'[t][i].value <= made[queues'[t][i].by]
    <3>1. \E j \in DOMAIN queues[t] : queues'[t][i] = queues[t][j]
      <4>1. CASE t # s
        BY <2>1, <4>1
      <4>2. CASE t = s
        <5>1. i \in DOMAIN Tail(queues[s])
          BY <2>1, <4>2
        <5>2. i + 1 \in DOMAIN queues[s] /\ Tail(queues[s])[i] = queues[s][i + 1]
          BY <2>1, <5>1, OperationsTail
        <5> QED BY <2>1, <4>2, <5>2
      <4> QED BY <4>1, <4>2
    <3> QED BY <3>1 DEF NumberInv
  <2>3. \A u, v \in Users, t \in Transfer!Streams, n \in Nat : <<t, v, n>> \in due'[u] => n <= made[v]
    BY <2>1 DEF NumberInv
  <2> QED BY <2>1, <2>2, <2>3 DEF NumberInv
<1>12. ASSUME NEW u \in Users, Transfer!SynchronizeNothing(u) PROVE NumberInv'
  <2>1. queues' = queues /\ made' = made
    BY <1>12 DEF Transfer!SynchronizeNothing
  <2>2. ASSUME NEW v \in Users, NEW w \in Users, NEW t \in Transfer!Streams, NEW n \in Nat,
               <<t, w, n>> \in due'[v]
        PROVE  n <= made[w]
    <3>1. CASE v # u
      BY <1>12, <2>2, <3>1 DEF Transfer!SynchronizeNothing, NumberInv, TransferTypes
    <3>2. CASE v = u
      <4>1. <<t, w, n>> \in UNION {Transfer!Operations(s) : s \in Transfer!Streams}
        BY <1>12, <2>2, <3>2 DEF Transfer!SynchronizeNothing, TransferTypes
      <4>2. PICK s \in Transfer!Streams : <<t, w, n>> \in Transfer!Operations(s)
        BY <4>1
      <4>3. s = t
        BY <4>2 DEF Transfer!Operations
      <4> QED BY <4>2, <4>3, NumberFacts
    <3> QED BY <3>1, <3>2
  <2> QED BY <2>1, <2>2 DEF NumberInv
<1> QED BY <1>3, <1>4, <1>5, <1>6, <1>7, <1>8, <1>9, <1>10, <1>11, <1>12
        DEF Transfer!Next, Transfer!Synchronize, Transfer!SynchronizeAll, Transfer!SynchronizeDevice

\* A stream on which nothing but new copies has come up does not break a barrier.
LEMMA BarrierKept ==
  ASSUME TransferTypes, NumberInv, Transfer!BarrierHolds, waits' = waits, unwaited' = unwaited,
         \A u \in Users : due'[u] \subseteq due[u],
         \A s \in Transfer!Streams : \A i \in DOMAIN queues'[s] :
            \/ \E j \in DOMAIN queues[s] : queues'[s][i] = queues[s][j]
            \/ /\ queues'[s][i].by \in Users
               /\ queues'[s][i].value \in Nat /\ ~(queues'[s][i].value <= made[queues'[s][i].by])
  PROVE  Transfer!BarrierHolds'
<1> SUFFICES ASSUME NEW u \in Users \ unwaited, NEW s \in Transfer!Streams \ Transfer!ToSet(waits[u]),
                    NEW o \in due'[u], o \in Transfer!Operations(s)'
             PROVE  FALSE
  BY DEF Transfer!BarrierHolds, Transfer!Passed
<1>1. o \in due[u] /\ o \notin Transfer!Operations(s)
  BY DEF Transfer!BarrierHolds, Transfer!Passed
<1>2. PICK i \in DOMAIN queues'[s] : o = <<s, queues'[s][i].by, queues'[s][i].value>>
  BY DEF Transfer!Operations
<1>3. CASE \E j \in DOMAIN queues[s] : queues'[s][i] = queues[s][j]
  BY <1>1, <1>2, <1>3 DEF Transfer!Operations
<1>4. CASE /\ queues'[s][i].by \in Users
           /\ queues'[s][i].value \in Nat /\ ~(queues'[s][i].value <= made[queues'[s][i].by])
  BY <1>1, <1>2, <1>4 DEF NumberInv
<1> QED BY <1>3, <1>4

LEMMA BarrierNext ==
  TransferTypes /\ NumberInv /\ Transfer!BarrierHolds /\ [Transfer!Next]_transferVars
    => Transfer!BarrierHolds'
<1> SUFFICES ASSUME TransferTypes, NumberInv, Transfer!BarrierHolds, [Transfer!Next]_transferVars
             PROVE  Transfer!BarrierHolds'
  OBVIOUS
<1>1. ASSUME queues' = queues, waits' = waits, due' = due, unwaited' = unwaited PROVE Transfer!BarrierHolds'
  BY <1>1, BarrierKept
<1>2. CASE UNCHANGED transferVars
  BY <1>1, <1>2 DEF transferVars
<1>3. ASSUME NEW u \in Users, NEW direction \in {"h2d", "d2h"}, Transfer!CopySync(u, direction)
      PROVE  Transfer!BarrierHolds'
  BY <1>1, <1>3 DEF Transfer!CopySync, Transfer!Calls
<1>4. ASSUME NEW u \in Users, NEW direction \in {"h2d", "d2h"}, NEW s \in Transfer!Streams,
             Transfer!CopyAsync(u, direction, s)
      PROVE  Transfer!BarrierHolds'
  <2>1. made[u] \in Nat /\ made[u] + 1 \in Nat /\ waits' = waits /\ due' = due /\ unwaited' = unwaited
    <3>1. made[u] \in Nat
      BY DEF TransferTypes
    <3> QED BY <1>4, <3>1, CopyFacts
  <2>2. CASE queues' = queues
    BY <1>1, <2>1, <2>2
  <2>3. ASSUME NEW c \in Copies, c.by = u, c.value = made[u] + 1, queues'[s] = Append(queues[s], c),
               \A t \in Transfer!Streams \ {s} : queues'[t] = queues[t]
        PROVE  Transfer!BarrierHolds'
    <3>1. c.by \in Users /\ c.value \in Nat /\ ~(c.value <= made[c.by])
      BY <2>1, <2>3
    <3>2. ASSUME NEW t \in Transfer!Streams, NEW i \in DOMAIN queues'[t]
          PROVE  (\E j \in DOMAIN queues[t] : queues'[t][i] = queues[t][j]) \/ queues'[t][i] = c
      <4>1. CASE t # s
        BY <2>3, <3>2, <4>1
      <4>2. CASE t = s
        <5>1. queues[s] \in Seq(Copies) /\ i \in DOMAIN Append(queues[s], c)
          BY <2>3, <3>2, <4>2 DEF TransferTypes
        <5> QED BY <2>3, <4>2, <5>1, OperationsAppend
      <4> QED BY <4>1, <4>2
    <3> QED BY <2>1, <3>1, <3>2, BarrierKept
  <2> QED BY <1>4, <2>2, <2>3, CopyFacts
<1>5. ASSUME NEW u \in Users, NEW streams \in Seq(Transfer!Streams), Transfer!BeginWait(u, streams)
      PROVE  Transfer!BarrierHolds'
  <2> SUFFICES ASSUME NEW v \in Users \ unwaited', NEW s \in Transfer!Streams \ Transfer!ToSet(waits'[v]),
                      NEW o \in due'[v], o \in Transfer!Operations(s)
               PROVE  FALSE
    BY <1>5 DEF Transfer!BarrierHolds, Transfer!Passed, Transfer!Operations, Transfer!BeginWait
  <2>1. CASE v # u
    BY <1>5, <2>1 DEF Transfer!BeginWait, Transfer!BarrierHolds, Transfer!Passed, TransferTypes
  <2>2. CASE v = u
    <3>1. /\ s \notin Transfer!ToSet(streams)
          /\ o \in UNION {Transfer!Operations(t) : t \in Transfer!ToSet(streams)}
      BY <1>5, <2>2 DEF Transfer!BeginWait, TransferTypes
    <3>2. PICK t \in Transfer!ToSet(streams) : o \in Transfer!Operations(t)
      BY <3>1
    <3> QED BY <3>1, <3>2 DEF Transfer!Operations
  <2> QED BY <2>1, <2>2
<1>6. \A s \in Transfer!Streams : <<s>> \in Seq(Transfer!Streams)
  OBVIOUS
<1>7. [s \in Transfer!Streams |-> s] \in Seq(Transfer!Streams)
  BY StreamPoolAssumption, SeqDef DEF Transfer!Streams
<1>8. ASSUME NEW u \in Users, Transfer!WaitNext(u) PROVE Transfer!BarrierHolds'
  <2>1. waits[u] \in Seq(Transfer!Streams) /\ waits[u] # <<>>
    BY <1>8 DEF Transfer!WaitNext, TransferTypes
  <2>2. \A s \in Transfer!ToSet(waits[u]) : s = Head(waits[u]) \/ s \in Transfer!ToSet(Tail(waits[u]))
    <3> SUFFICES ASSUME NEW i \in DOMAIN waits[u], i # 1
                 PROVE  \E j \in DOMAIN Tail(waits[u]) : Tail(waits[u])[j] = waits[u][i]
      BY <2>1, EmptySeq, HeadTailProperties DEF Transfer!ToSet
    <3>1. /\ DOMAIN waits[u] = 1 .. Len(waits[u]) /\ Len(waits[u]) \in Nat
          /\ DOMAIN Tail(waits[u]) = 1 .. Len(waits[u]) - 1
          /\ \A k \in 1 .. Len(waits[u]) - 1 : Tail(waits[u])[k] = waits[u][k + 1]
      BY <2>1, EmptySeq, HeadTailProperties, LenProperties
    <3>2. i - 1 \in 1 .. Len(waits[u]) - 1 /\ (i - 1) + 1 = i
      BY <3>1
    <3> QED BY <3>1, <3>2
  <2> SUFFICES ASSUME NEW v \in Users \ unwaited', NEW s \in Transfer!Streams \ Transfer!ToSet(waits'[v]),
                      NEW o \in due[v], o \in Transfer!Operations(s)
               PROVE  FALSE
    BY <1>8 DEF Transfer!BarrierHolds, Transfer!Passed, Transfer!Operations, Transfer!WaitNext
  <2>3. CASE v # u
    BY <1>8, <2>3 DEF Transfer!WaitNext, Transfer!BarrierHolds, Transfer!Passed, TransferTypes
  <2>4. CASE v = u
    <3>1. s \notin Transfer!ToSet(Tail(waits[u]))
      BY <1>8, <2>4 DEF Transfer!WaitNext, TransferTypes
    <3>2. CASE s \in Transfer!ToSet(waits[u])
      BY <1>8, <2>2, <2>4, <3>1, <3>2 DEF Transfer!WaitNext
    <3>3. CASE s \notin Transfer!ToSet(waits[u])
      BY <1>8, <2>4, <3>3 DEF Transfer!WaitNext, Transfer!BarrierHolds, Transfer!Passed
    <3> QED BY <3>2, <3>3
  <2> QED BY <2>3, <2>4
<1>9. ASSUME NEW u \in Users, Transfer!WaitFails(u) PROVE Transfer!BarrierHolds'
  <2> SUFFICES ASSUME NEW v \in Users \ unwaited', NEW s \in Transfer!Streams \ Transfer!ToSet(waits'[v]),
                      NEW o \in due'[v], o \in Transfer!Operations(s)
               PROVE  FALSE
    BY <1>9 DEF Transfer!BarrierHolds, Transfer!Passed, Transfer!Operations, Transfer!WaitFails
  <2>1. v # u /\ v \notin unwaited /\ waits'[v] = waits[v] /\ due'[v] = due[v]
    BY <1>9 DEF Transfer!WaitFails, TransferTypes
  <2> QED BY <2>1 DEF Transfer!BarrierHolds, Transfer!Passed
<1>10. ASSUME NEW s \in Transfer!Streams, Transfer!Execute(s) PROVE Transfer!BarrierHolds'
  <2>1. /\ queues[s] \in Seq(Copies) /\ queues[s] # <<>> /\ queues'[s] = Tail(queues[s])
        /\ \A t \in Transfer!Streams \ {s} : queues'[t] = queues[t]
        /\ \A u \in Users : due'[u] \subseteq due[u]
        /\ waits' = waits /\ unwaited' = unwaited
    BY <1>10, ExecuteFacts
  <2>2. ASSUME NEW t \in Transfer!Streams, NEW i \in DOMAIN queues'[t]
        PROVE  \E j \in DOMAIN queues[t] : queues'[t][i] = queues[t][j]
    <3>1. CASE t # s
      BY <2>1, <3>1
    <3>2. CASE t = s
      <4>1. i \in DOMAIN Tail(queues[s])
        BY <2>1, <3>2
      <4>2. i + 1 \in DOMAIN queues[s] /\ Tail(queues[s])[i] = queues[s][i + 1]
        BY <2>1, <4>1, OperationsTail
      <4> QED BY <2>1, <3>2, <4>2
    <3> QED BY <3>1, <3>2
  <2> QED BY <2>1, <2>2, BarrierKept
<1>11. ASSUME NEW u \in Users, Transfer!SynchronizeNothing(u) PROVE Transfer!BarrierHolds'
  <2> SUFFICES ASSUME NEW v \in Users \ unwaited', NEW s \in Transfer!Streams \ Transfer!ToSet(waits'[v]),
                      NEW o \in due'[v], o \in Transfer!Operations(s)
               PROVE  FALSE
    BY <1>11 DEF Transfer!BarrierHolds, Transfer!Passed, Transfer!Operations, Transfer!SynchronizeNothing
  <2>1. v # u /\ v \notin unwaited /\ waits' = waits /\ due'[v] = due[v]
    BY <1>11 DEF Transfer!SynchronizeNothing, TransferTypes
  <2> QED BY <2>1 DEF Transfer!BarrierHolds, Transfer!Passed
<1> QED BY <1>2, <1>3, <1>4, <1>5, <1>6, <1>7, <1>8, <1>9, <1>10, <1>11
        DEF Transfer!Next, Transfer!Synchronize, Transfer!SynchronizeAll, Transfer!SynchronizeDevice
-----------------------------------------------------------------------------
LEMMA BackendKept == kind' = kind => Transfer!Backend' = Transfer!Backend
BY DEF Transfer!Backend, Transfer!CudaBackend, Transfer!RocmBackend, Transfer!OpenCLBackend,
       Transfer!StubBackend

LEMMA AtOnceNext ==
  TransferTypes /\ AtOnceInv /\ [Transfer!Next]_transferVars => AtOnceInv'
<1> SUFFICES ASSUME TransferTypes, AtOnceInv, [Transfer!Next]_transferVars PROVE AtOnceInv'
  OBVIOUS
<1>1. ASSUME queues' = queues, kind' = kind PROVE AtOnceInv'
  BY <1>1, BackendKept DEF AtOnceInv
<1>2. CASE UNCHANGED transferVars
  BY <1>1, <1>2 DEF transferVars
<1>3. ASSUME NEW u \in Users, NEW direction \in {"h2d", "d2h"}, Transfer!CopySync(u, direction)
      PROVE  AtOnceInv'
  BY <1>1, <1>3 DEF Transfer!CopySync, Transfer!Calls
<1>4. ASSUME NEW u \in Users, NEW direction \in {"h2d", "d2h"}, NEW s \in Transfer!Streams,
             Transfer!CopyAsync(u, direction, s)
      PROVE  AtOnceInv'
  <2>1. kind' = kind /\ (Transfer!Backend.queues \/ queues' = queues)
    BY <1>4, CopyFacts
  <2>2. CASE Transfer!Backend.queues
    BY <2>1, <2>2, BackendKept DEF AtOnceInv
  <2> QED BY <1>1, <2>1, <2>2
<1>5. ASSUME NEW u \in Users, NEW streams, Transfer!BeginWait(u, streams) PROVE AtOnceInv'
  BY <1>1, <1>5 DEF Transfer!BeginWait
<1>6. ASSUME NEW u \in Users,
             Transfer!WaitNext(u) \/ Transfer!WaitFails(u) \/ Transfer!SynchronizeNothing(u)
      PROVE  AtOnceInv'
  BY <1>1, <1>6 DEF Transfer!WaitNext, Transfer!WaitFails, Transfer!SynchronizeNothing
<1>7. ASSUME NEW s \in Transfer!Streams, Transfer!Execute(s) PROVE AtOnceInv'
  BY <1>7, BackendKept DEF Transfer!Execute, AtOnceInv
<1> QED BY <1>2, <1>3, <1>4, <1>5, <1>6, <1>7
        DEF Transfer!Next, Transfer!Synchronize, Transfer!SynchronizeAll, Transfer!SynchronizeDevice
-----------------------------------------------------------------------------
LEMMA OutstandingFacts ==
  ASSUME TransferTypes, NEW u \in Users, NEW s \in Transfer!Streams
  PROVE  s \notin Transfer!Outstanding(u) <=> Writes(queues[s], u) = {} /\ Reads(queues[s], u) = {}
<1>1. Transfer!OwnIn(u, s) = Writes(queues[s], u) \cup Reads(queues[s], u)
  <2>1. ASSUME NEW i \in DOMAIN queues[s] PROVE queues[s][i].direction \in {"h2d", "d2h"}
    <3>1. queues[s][i] \in Copies
      BY ElementOfSeq, LenProperties DEF TransferTypes
    <3> QED BY <3>1 DEF Copies
  <2> QED BY <2>1 DEF Transfer!OwnIn, Writes, Reads
<1> QED BY <1>1 DEF Transfer!Outstanding

\* A thread with nothing outstanding has what it should have in its buffers.
LEMMA IdleFacts ==
  ASSUME TransferTypes, NEW u \in Users, Transfer!Outstanding(u) = {}, NEW s \in Transfer!Streams,
         NEW d, NEW h, NEW w, NEW r
  PROVE  Settled(queues[s], u, d, h, w, r) <=> d = w /\ h = r
<1>1. Writes(queues[s], u) = {} /\ Reads(queues[s], u) = {}
  BY OutstandingFacts
<1> QED BY <1>1, SettledIdle

LEMMA CopyInvUse ==
  ASSUME CopyInv, Transfer!Backend.moves, NEW u \in Users \ entangled
  PROVE  \E s \in Transfer!Streams :
           /\ Transfer!Outstanding(u) \subseteq {s}
           /\ Settled(queues[s], u, device[u], host[u], written[u], read[u])
BY DEF CopyInv

\* What a copy does to the buffers and to the history of its thread, and to no other.
LEMMA EffectFacts ==
  ASSUME TransferTypes, NEW u \in Users, NEW direction \in {"h2d", "d2h"}, NEW value,
         Transfer!Effect(u, direction, value), Transfer!Backend.moves
  PROVE  /\ \A v \in Users \ {u} : device'[v] = device[v] /\ host'[v] = host[v]
         /\ direction = "h2d" => device'[u] = value /\ host'[u] = host[u]
         /\ direction = "d2h" => device'[u] = device[u] /\ host'[u] = device[u]
BY DEF Transfer!Effect, TransferTypes

LEMMA NotesFacts ==
  ASSUME TransferTypes, NEW u \in Users, NEW direction \in {"h2d", "d2h"}, NEW elsewhere,
         Transfer!Notes(u, direction, elsewhere)
  PROVE  /\ entangled \subseteq entangled' /\ entangled' \subseteq entangled \cup {u}
         /\ u \notin entangled' => elsewhere = {} /\ u \notin entangled
         /\ \A v \in Users \ {u} : written'[v] = written[v] /\ read'[v] = read[v]
         /\ direction = "h2d" => written'[u] = made[u] + 1 /\ read'[u] = read[u]
         /\ direction = "d2h" => written'[u] = written[u] /\ read'[u] = written[u]
BY DEF Transfer!Notes, TransferTypes

\* A copy made at once by a thread that has nothing outstanding.
LEMMA CopyNow ==
  ASSUME TransferTypes, CopyInv, NEW u \in Users, NEW direction \in {"h2d", "d2h"}, NEW elsewhere,
         Transfer!Notes(u, direction, elsewhere), Transfer!Effect(u, direction, made[u] + 1),
         queues' = queues, kind' = kind, elsewhere = {} => Transfer!Outstanding(u) = {}
  PROVE  CopyInv'
<1> SUFFICES ASSUME Transfer!Backend.moves, NEW v \in Users \ entangled'
             PROVE  \E s \in Transfer!Streams :
                      /\ Transfer!Outstanding(v) \subseteq {s}
                      /\ Settled(queues[s], v, device'[v], host'[v], written'[v], read'[v])
  BY BackendKept DEF CopyInv, Transfer!Outstanding, Transfer!OwnIn
<1>1. v \in Users \ entangled
  BY NotesFacts
<1>2. PICK s \in Transfer!Streams : /\ Transfer!Outstanding(v) \subseteq {s}
                                   /\ Settled(queues[s], v, device[v], host[v], written[v], read[v])
  BY <1>1, CopyInvUse
<1>3. CASE v # u
  <2>1. device'[v] = device[v] /\ host'[v] = host[v] /\ written'[v] = written[v] /\ read'[v] = read[v]
    BY <1>3, EffectFacts, NotesFacts
  <2> QED BY <1>2, <2>1
<1>4. CASE v = u
  <2>1. Transfer!Outstanding(u) = {}
    BY <1>4, NotesFacts
  <2>2. device[u] = written[u] /\ host[u] = read[u]
    BY <1>2, <1>4, <2>1, IdleFacts
  <2>3. device'[u] = written'[u] /\ host'[u] = read'[u]
    BY <2>2, EffectFacts, NotesFacts
  <2>4. Settled(queues[s], u, device'[u], host'[u], written'[u], read'[u])
    BY <2>1, <2>3, IdleFacts
  <2> QED BY <1>2, <1>4, <2>4
<1> QED BY <1>3, <1>4

\* A copy that is queued on s.
LEMMA CopyQueued ==
  ASSUME TransferTypes, CopyInv, NEW u \in Users, NEW direction \in {"h2d", "d2h"},
         NEW s \in Transfer!Streams, NEW c \in Copies,
         c.by = u, c.direction = direction, c.value = made[u] + 1,
         Transfer!Notes(u, direction, Transfer!Outstanding(u) \ {s}),
         UNCHANGED <<kind, device, host>>, queues'[s] = Append(queues[s], c),
         \A t \in Transfer!Streams \ {s} : queues'[t] = queues[t]
  PROVE  CopyInv'
<1> SUFFICES ASSUME Transfer!Backend.moves, NEW v \in Users \ entangled'
             PROVE  \E t \in Transfer!Streams :
                      /\ Transfer!Outstanding(v)' \subseteq {t}
                      /\ Settled(queues'[t], v, device[v], host[v], written'[v], read'[v])
  BY BackendKept DEF CopyInv
<1>1. v \in Users \ entangled /\ queues[s] \in Seq(Copies)
  BY NotesFacts DEF TransferTypes
<1>2. PICK t \in Transfer!Streams : /\ Transfer!Outstanding(v) \subseteq {t}
                                   /\ Settled(queues[t], v, device[v], host[v], written[v], read[v])
  BY <1>1, CopyInvUse
<1>3. \A x \in Transfer!Streams \ {s} :
        x \in Transfer!Outstanding(v)' => x \in Transfer!Outstanding(v)
  BY DEF Transfer!Outstanding, Transfer!OwnIn
<1>4. CASE v # u
  <2>1. written'[v] = written[v] /\ read'[v] = read[v]
    BY <1>4, NotesFacts
  <2>2. s \in Transfer!Outstanding(v)' => s \in Transfer!Outstanding(v)
    <3>1. ASSUME NEW i \in DOMAIN Append(queues[s], c), Append(queues[s], c)[i].by = v
          PROVE  i \in DOMAIN queues[s] /\ queues[s][i].by = v
      BY <1>1, <1>4, <3>1, OperationsAppend
    <3> QED BY <3>1 DEF Transfer!Outstanding, Transfer!OwnIn
  <2>3. Transfer!Outstanding(v)' \subseteq {t}
    BY <1>2, <1>3, <2>2 DEF Transfer!Outstanding
  <2>4. Settled(queues'[t], v, device[v], host[v], written[v], read[v])
    <3>1. CASE t = s
      <4>1. c.by # v /\ queues'[t] = Append(queues[t], c) /\ queues[t] \in Seq(Copies)
        BY <1>1, <1>4, <3>1
      <4> QED BY <1>2, <4>1, AppendOther
    <3>2. CASE t # s
      BY <1>2, <3>2
    <3> QED BY <3>1, <3>2
  <2> QED BY <2>1, <2>3, <2>4
<1>5. CASE v = u
  <2>1. Transfer!Outstanding(u) \subseteq {s}
    BY <1>5, NotesFacts
  <2>2. Settled(queues[s], u, device[u], host[u], written[u], read[u])
    <3>1. CASE t = s
      BY <1>2, <1>5, <3>1
    <3>2. CASE t # s
      <4>1. Transfer!Outstanding(u) = {}
        BY <1>2, <1>5, <2>1, <3>2
      <4> QED BY <1>2, <1>5, <4>1, IdleFacts
    <3> QED BY <3>1, <3>2
  <2>3. Transfer!Outstanding(u)' \subseteq {s}
    BY <1>3, <1>5, <2>1 DEF Transfer!Outstanding
  <2>4. CASE direction = "h2d"
    <3>1. written'[u] = c.value /\ read'[u] = read[u]
      BY <2>4, NotesFacts
    <3>2. Settled(Append(queues[s], c), u, device[u], host[u], c.value, read[u])
      BY <1>1, <2>2, <2>4, AppendWrite
    <3> QED BY <1>5, <2>3, <3>1, <3>2
  <2>5. CASE direction = "d2h"
    <3>1. written'[u] = written[u] /\ read'[u] = written[u]
      BY <2>5, NotesFacts
    <3>2. Settled(Append(queues[s], c), u, device[u], host[u], written[u], written[u])
      BY <1>1, <2>2, <2>5, AppendRead
    <3> QED BY <1>5, <2>3, <3>1, <3>2
  <2> QED BY <2>4, <2>5
<1> QED BY <1>4, <1>5

\* The device executes the head of s.
LEMMA CopyExecuted ==
  ASSUME TransferTypes, CopyInv, NEW s \in Transfer!Streams, Transfer!Execute(s)
  PROVE  CopyInv'
<1>1. /\ queues[s] \in Seq(Copies) /\ queues[s] # <<>> /\ queues'[s] = Tail(queues[s])
      /\ \A t \in Transfer!Streams \ {s} : queues'[t] = queues[t]
      /\ UNCHANGED <<kind, made, written, read, entangled, waits>>
  BY ExecuteFacts
<1> SUFFICES ASSUME Transfer!Backend.moves, NEW v \in Users \ entangled
             PROVE  \E t \in Transfer!Streams :
                      /\ Transfer!Outstanding(v)' \subseteq {t}
                      /\ Settled(queues'[t], v, device'[v], host'[v], written[v], read[v])
  BY <1>1, BackendKept DEF CopyInv
<1>2. PICK t \in Transfer!Streams : /\ Transfer!Outstanding(v) \subseteq {t}
                                   /\ Settled(queues[t], v, device[v], host[v], written[v], read[v])
  BY CopyInvUse
<1>3. Transfer!Outstanding(v)' \subseteq {t}
  <2>1. \A x \in Transfer!Streams \ {s} :
          x \in Transfer!Outstanding(v)' => x \in Transfer!Outstanding(v)
    BY <1>1 DEF Transfer!Outstanding, Transfer!OwnIn
  <2>2. s \in Transfer!Outstanding(v)' => s \in Transfer!Outstanding(v)
    <3>1. ASSUME NEW i \in DOMAIN Tail(queues[s]), Tail(queues[s])[i].by = v
          PROVE  i + 1 \in DOMAIN queues[s] /\ queues[s][i + 1].by = v
      BY <1>1, <3>1, OperationsTail
    <3> QED BY <1>1, <3>1 DEF Transfer!Outstanding, Transfer!OwnIn
  <2> QED BY <1>2, <2>1, <2>2 DEF Transfer!Outstanding
<1>4. PICK o : o = Head(queues[s])
  OBVIOUS
<1>5. /\ o \in Copies /\ o.by \in Users /\ o.direction \in {"h2d", "d2h"}
      /\ Transfer!Effect(o.by, o.direction, o.value)
      /\ 1 \in Writes(queues[s], v) <=> o.by = v /\ o.direction = "h2d"
      /\ 1 \in Reads(queues[s], v) <=> o.by = v /\ o.direction = "d2h"
  <2>1. /\ o \in Copies
        /\ 1 \in Writes(queues[s], v) <=> o.by = v /\ o.direction = "h2d"
        /\ 1 \in Reads(queues[s], v) <=> o.by = v /\ o.direction = "d2h"
    BY <1>1, <1>4, TailCopy
  <2>2. Transfer!Effect(o.by, o.direction, o.value)
    BY <1>4 DEF Transfer!Execute
  <2> QED BY <2>1, <2>2 DEF Copies
<1>6. /\ device'[v] = IF 1 \in Writes(queues[s], v) THEN o.value ELSE device[v]
      /\ host'[v] = IF 1 \in Reads(queues[s], v) THEN device[v] ELSE host[v]
  BY <1>5, EffectFacts
<1>7. CASE t = s
  <2>1. Settled(Tail(queues[s]), v, device'[v], host'[v], written[v], read[v])
    BY <1>1, <1>2, <1>4, <1>6, <1>7, SettledTail
  <2> QED BY <1>1, <1>3, <1>7, <2>1
<1>8. CASE t # s
  <2>1. Writes(queues[s], v) = {} /\ Reads(queues[s], v) = {}
    BY <1>2, <1>8, OutstandingFacts
  <2> QED BY <1>1, <1>2, <1>3, <1>6, <1>8, <2>1
<1> QED BY <1>7, <1>8

LEMMA CopyNext ==
  TransferTypes /\ AtOnceInv /\ CopyInv /\ [Transfer!Next]_transferVars => CopyInv'
<1> SUFFICES ASSUME TransferTypes, AtOnceInv, CopyInv, [Transfer!Next]_transferVars PROVE CopyInv'
  OBVIOUS
<1>1. ASSUME UNCHANGED <<kind, queues, device, host, written, read, entangled>> PROVE CopyInv'
  BY <1>1, BackendKept DEF CopyInv, Transfer!Outstanding, Transfer!OwnIn
<1>2. CASE UNCHANGED transferVars
  BY <1>1, <1>2 DEF transferVars
<1>3. ASSUME NEW u \in Users, NEW direction \in {"h2d", "d2h"}, Transfer!CopySync(u, direction)
      PROVE  CopyInv'
  BY <1>3, CopyNow DEF Transfer!CopySync, Transfer!Calls
<1>4. ASSUME NEW u \in Users, NEW direction \in {"h2d", "d2h"}, NEW s \in Transfer!Streams,
             Transfer!CopyAsync(u, direction, s)
      PROVE  CopyInv'
  <2>1. Transfer!Notes(u, direction, Transfer!Outstanding(u) \ {s}) /\ kind' = kind
    BY <1>4 DEF Transfer!CopyAsync, Transfer!Calls
  <2>2. ASSUME ~Transfer!Backend.queues, queues' = queues, Transfer!Effect(u, direction, made[u] + 1)
        PROVE  CopyInv'
    <3>1. Transfer!Outstanding(u) = {}
      BY <2>2 DEF AtOnceInv, Transfer!Outstanding, Transfer!OwnIn
    <3> QED BY <2>1, <2>2, <3>1, CopyNow
  <2>3. ASSUME NEW c \in Copies, c.by = u, c.direction = direction, c.value = made[u] + 1,
               UNCHANGED <<device, host>>, queues'[s] = Append(queues[s], c),
               \A t \in Transfer!Streams \ {s} : queues'[t] = queues[t]
        PROVE  CopyInv'
    BY <2>1, <2>3, CopyQueued
  <2> QED BY <1>4, <2>2, <2>3, CopyFacts
<1>5. ASSUME NEW u \in Users, NEW streams, Transfer!BeginWait(u, streams) PROVE CopyInv'
  BY <1>1, <1>5 DEF Transfer!BeginWait
<1>6. ASSUME NEW u \in Users,
             Transfer!WaitNext(u) \/ Transfer!WaitFails(u) \/ Transfer!SynchronizeNothing(u)
      PROVE  CopyInv'
  BY <1>1, <1>6 DEF Transfer!WaitNext, Transfer!WaitFails, Transfer!SynchronizeNothing
<1> QED BY <1>2, <1>3, <1>4, <1>5, <1>6, CopyExecuted
        DEF Transfer!Next, Transfer!Synchronize, Transfer!SynchronizeAll, Transfer!SynchronizeDevice
-----------------------------------------------------------------------------
LEMMA TransferInit == Transfer!Init => TransferInv
<1> SUFFICES ASSUME Transfer!Init PROVE TransferInv
  OBVIOUS
<1>1. TransferTypes
  BY TransferTypesInit
<1>2. NumberInv /\ AtOnceInv
  BY EmptySeq DEF Transfer!Init, NumberInv, AtOnceInv
<1>3. Transfer!BarrierHolds
  BY DEF Transfer!Init, Transfer!BarrierHolds, Transfer!Passed
<1>4. CopyInv
  <2> SUFFICES ASSUME NEW u \in Users
               PROVE  \E s \in Transfer!Streams :
                        /\ Transfer!Outstanding(u) \subseteq {s}
                        /\ Settled(queues[s], u, device[u], host[u], written[u], read[u])
    BY DEF CopyInv
  <2>1. 1 \in Transfer!Streams
    BY StreamPoolAssumption DEF Transfer!Streams
  <2>2. Transfer!Outstanding(u) = {}
    BY EmptySeq DEF Transfer!Init, Transfer!Outstanding, Transfer!OwnIn
  <2>3. device[u] = written[u] /\ host[u] = read[u]
    BY DEF Transfer!Init
  <2> QED BY <1>1, <2>1, <2>2, <2>3, IdleFacts
<1> QED BY <1>1, <1>2, <1>3, <1>4 DEF TransferInv

LEMMA TransferNext == TransferInv /\ [Transfer!Next]_transferVars => TransferInv'
BY TransferTypesNext, NumberNext, BarrierNext, AtOnceNext, CopyNext DEF TransferInv

LEMMA TransferUse == TransferInv => Transfer!BarrierHolds /\ Transfer!CopiesArrive
<1> SUFFICES ASSUME TransferInv PROVE Transfer!CopiesArrive
  BY DEF TransferInv
<1> SUFFICES ASSUME Transfer!Backend.moves, NEW u \in Users \ entangled, Transfer!Outstanding(u) = {}
             PROVE  device[u] = written[u] /\ host[u] = read[u]
  BY DEF Transfer!CopiesArrive
<1>1. \E s \in Transfer!Streams : Settled(queues[s], u, device[u], host[u], written[u], read[u])
  BY CopyInvUse DEF TransferInv
<1> QED BY <1>1, IdleFacts DEF TransferInv
-----------------------------------------------------------------------------
(* Launch dimensions.                                                      *)

LEMMA Covers ==
  ASSUME NEW elements \in 0 .. Transfer!Modulus - 1, NEW perBlock \in Nat \ {0},
         elements + perBlock <= Transfer!Modulus
  PROVE  LET blocks == Transfer!Blocks(elements, perBlock)
         IN  blocks * perBlock >= elements /\ (blocks * perBlock) - elements < perBlock
<1> DEFINE a == elements + perBlock - 1
<1>1. a \in Nat /\ a < 16 /\ a \in 0 .. 15 /\ elements \in 0 .. 15 /\ perBlock \in 1 .. 16
  BY DEF Transfer!Modulus
<1>2. elements % 16 = elements /\ a % 16 = a
  BY <1>1
<1>3. Transfer!Blocks(elements, perBlock) = a \div perBlock
  BY <1>2 DEF Transfer!Blocks, Transfer!Modulus
<1> DEFINE b == a \div perBlock
<1>4. b \in Int /\ b * perBlock <= a /\ a < b * perBlock + perBlock /\ b * perBlock \in Int
  BY <1>1, DivisionFacts
<1> HIDE DEF b
<1>5. b * perBlock >= elements /\ (b * perBlock) - elements < perBlock
  BY <1>1, <1>4
<1> QED BY <1>3, <1>5 DEF b

LEMMA LaunchesCoverAll == Transfer!LaunchesCover
<1> SUFFICES ASSUME NEW elements \in 0 .. Transfer!Modulus - 1, NEW perBlock \in 1 .. 4,
                    elements + perBlock <= Transfer!Modulus
             PROVE  LET blocks == Transfer!Blocks(elements, perBlock)
                    IN  blocks * perBlock >= elements /\ (blocks * perBlock) - elements < perBlock
  BY DEF Transfer!LaunchesCover
<1> QED BY Covers
-----------------------------------------------------------------------------
(* The theorems.                                                           *)

LEMMA PoolInit == Init => PoolInv
<1> SUFFICES ASSUME Init PROVE PoolInv
  OBVIOUS
<1>1. TypeOK
  BY TypesInit
<1>2. ASSUME NEW s \in Streams PROVE pendingOps[s] = Cardinality(Holders(s)) + recorded[s]
  <2>1. Holders(s) = {}
    BY DEF Init, Holders
  <2> QED BY <2>1, FS_EmptySet DEF Init
<1>3. FreshInv /\ ScanInv
  BY DEF Init, FreshInv, ScanInv
<1>4. RotationInv
  <2>1. ASSUME NEW s \in Streams
        PROVE  Cardinality(Takers(s)) = IF s < nextRobin % NumStreams THEN 0 + 1 ELSE 0
    <3>1. Takers(s) = {}
      BY DEF Init, Takers
    <3>2. ~(s < nextRobin % NumStreams)
      BY StreamPoolAssumption DEF Init, Streams
    <3> QED BY <3>1, <3>2, FS_EmptySet
  <2>2. \A g \in Guards : at[g] # "scanning"
    BY DEF Init
  <2> QED BY <2>1, <2>2 DEF RotationInv
<1> QED BY <1>1, <1>2, <1>3, <1>4 DEF PoolInv, PendingExact

LEMMA PoolNext == PoolInv /\ [Next]_vars => PoolInv'
BY TypesNext, ExactNext, FreshNext, ScanNext, RotationNext DEF PoolInv

LEMMA PoolAlways == Spec => []PoolInv
BY PoolInit, PoolNext, PTL DEF Spec

\* The types hold, and so every choice is a stream of the pool (acquire, drop).
THEOREM PoolTypes == Spec => []TypeOK
<1>1. PoolInv => TypeOK
  BY DEF PoolInv
<1> QED BY <1>1, PoolAlways, PTL

\* A counter is the number of live guards on its stream and of what has been
\* recorded there, whatever the interleaving of acquire, record_op and drop.
THEOREM CountersExact == Spec => []PendingExact
<1>1. PoolInv => PendingExact
  BY DEF PoolInv
<1> QED BY <1>1, PoolAlways, PTL

\* The test of drop is never needed: a guard that lives finds its counter above
\* zero, and the subtraction that follows cannot take it below.
THEOREM NeverBelowZero ==
  Spec => [](\A g \in Guards : at[g] \in {"held", "dropping"} => pendingOps[choice[g]] > 0)
<1>1. ASSUME PoolInv, NEW g \in Guards, at[g] \in {"held", "dropping"}
      PROVE  pendingOps[choice[g]] > 0
  <2> DEFINE H == Holders(choice[g])
  <2>1. choice[g] \in Streams /\ recorded[choice[g]] \in Nat /\ g \in H
    BY <1>1 DEF PoolInv, TypeOK, Holders
  <2>2. IsFiniteSet(H) /\ Cardinality(H) \in Nat
    BY <2>1, HoldersFinite
  <2>3. Cardinality(H \ {g}) = Cardinality(H) - 1 /\ Cardinality(H \ {g}) \in Nat
    BY <2>1, <2>2, FS_RemoveElement, FS_CardinalityType
  <2>4. pendingOps[choice[g]] = Cardinality(H) + recorded[choice[g]]
    BY <1>1, <2>1 DEF PoolInv, PendingExact
  <2> HIDE DEF H
  <2> QED BY <2>1, <2>2, <2>3, <2>4
<1>2. PoolInv => \A g \in Guards : at[g] \in {"held", "dropping"} => pendingOps[choice[g]] > 0
  BY <1>1
<1> QED BY <1>2, PoolAlways, PTL

LEMMA LeastUse == PoolInv => LeastChosen
<1> SUFFICES ASSUME PoolInv, assignment = "LeastPending", NEW g \in Guards,
                    at[g] = "chosen", ~disturbed[g], NEW s \in Streams
             PROVE  pendingOps[choice[g]] <= pendingOps[s]
  BY DEF LeastChosen
<1>1. cursor[g] = NumStreams
  BY DEF PoolInv, ScanInv
<1> QED BY <1>1 DEF PoolInv, ScanInv, Streams

\* acquire hands out a least loaded stream whenever no counter has changed while
\* it looked.
THEOREM LeastLoaded == Spec => []LeastChosen
BY LeastUse, PoolAlways, PTL

LEMMA RotationUse == PoolInv => RotationEven
<1> SUFFICES ASSUME PoolInv, assignment = "RoundRobin", NEW r \in Streams, NEW s \in Streams
             PROVE  Cardinality(Takers(r)) <= Cardinality(Takers(s)) + 1
  BY DEF RotationEven
<1>1. PICK q \in Nat : \A t \in Streams :
        Cardinality(Takers(t)) = IF t < nextRobin % NumStreams THEN q + 1 ELSE q
  BY DEF PoolInv, RotationInv
<1>2. Cardinality(Takers(r)) \in {q, q + 1} /\ Cardinality(Takers(s)) \in {q, q + 1}
  BY <1>1
<1> QED BY <1>2

\* However the callers of acquire interleave, round robin has given no stream out
\* more than once more than another.
THEOREM TurnsTaken == Spec => []RotationEven
BY RotationUse, PoolAlways, PTL

\* Pool and copies together: streams are counted and handed out as promised, a wait
\* that went well has been a barrier, a thread that keeps to one queue at a time
\* finds its copies, and launches cover their elements.
THEOREM StreamsAlwaysSound == GpuSpec => []StreamsSound
<1> DEFINE Inv == PoolInv /\ TransferInv
<1>1. GpuInit => Inv
  BY PoolInit, TransferInit DEF GpuInit
<1>2. Inv /\ [GpuNext]_gpuVars => Inv'
  <2> SUFFICES ASSUME PoolInv, TransferInv, [GpuNext]_gpuVars PROVE PoolInv' /\ TransferInv'
    OBVIOUS
  <2>1. [Next]_vars /\ [Transfer!Next]_transferVars
    BY DEF GpuNext, gpuVars, poolVars
  <2> QED BY <2>1, PoolNext, TransferNext
<1>3. Inv => StreamsSound
  <2>1. PoolInv => PendingExact /\ LeastChosen /\ RotationEven
    BY LeastUse, RotationUse DEF PoolInv
  <2> QED BY <2>1, TransferUse, LaunchesCoverAll DEF StreamsSound
<1> QED BY <1>1, <1>2, <1>3, PTL DEF GpuSpec
-----------------------------------------------------------------------------
(* The monitoring.                                                         *)

\* What a thread still has to add to the total of a counter, or has added to the
\* total and not to its own.
Counted   == [w \in Threads |-> workerTasks[w] + IF step[w] \in {"time", "busy", "worker"} THEN 1 ELSE 0]
Timed     == [w \in Threads |-> workerBusy[w] + IF step[w] = "busy" THEN reg[w] ELSE 0]
Unadded   == [w \in Threads |-> IF step[w] = "time" THEN reg[w] ELSE 0]
Uncounted == [w \in Threads |-> IF step[w] = "executed" THEN 1 ELSE 0]

Cells == {"executed", "failed", "totalTime", "timings", "started", "workers", "peak", "current"}

RecordingInv ==
  /\ executed \in Nat /\ totalTime \in Nat /\ current \in Nat /\ peak \in Nat
  /\ workerTasks \in [Threads -> Nat] /\ workerBusy \in [Threads -> Nat]
  /\ step \in [Threads -> {"idle", "timing", "executed", "time", "busy", "worker", "failed",
                           "load", "exchange"}]
  /\ reg \in [Threads -> Nat]
  /\ arg \in [Threads -> {0} \cup TaskIds \cup Sizes]
  /\ IsFiniteSet(timings) /\ sizes \subseteq Sizes
  /\ \A w \in Threads :
       /\ step[w] \in {"load", "exchange"} => arg[w] \in sizes
       /\ step[w] \in {"timing", "executed", "time", "busy", "worker"} => reg[w] <= 1
  /\ toReset \in Seq(Cells)
  /\ toReset # <<>> => resets /\ toReset[Len(toReset)] = "current"

CountsInv ==
  ~resets =>
    /\ executed = Telemetry!SumOver(Counted) /\ totalTime = Telemetry!SumOver(Timed)
    /\ totalTime + Telemetry!SumOver(Unadded) <= executed
    /\ Cardinality(timings) <= executed + Telemetry!SumOver(Uncounted)

PeakInv ==
  ~resets =>
    /\ peak \in {0} \cup sizes
    /\ \A s \in sizes : s <= peak \/ \E w \in Threads : step[w] \in {"load", "exchange"} /\ arg[w] = s
    /\ \A w \in Threads : step[w] = "exchange" => reg[w] <= peak

\* The peak is on its way to the current size, resets or not.
CurrentInv ==
  \/ toReset # <<>> \/ current <= peak
  \/ \E w \in Threads :
       /\ arg[w] = current
       /\ \/ step[w] = "load"
          \/ step[w] = "exchange" /\ (arg[w] > reg[w] \/ reg[w] <= peak)

TelemetryInv == RecordingInv /\ CountsInv /\ PeakInv /\ CurrentInv

Samples == [n : Nat, completed : Nat, delta : Nat]

SampleInv ==
  /\ completed \in Nat /\ finished \in Nat /\ samples \in Nat /\ lastSeen \in Nat
  /\ snap \in Samples /\ history \in Seq(Samples)
  /\ received \in [Clients -> Seq(Samples)]
  /\ conn \in [Clients -> {"away", "request", "replay", "check", "latest", "write", "over"}]
  /\ collector = "push" => snap.n = samples /\ lastSeen = snap.completed /\ samples > 0
  /\ ~wasReset => lastSeen <= completed
  /\ server = "bind" => collector = "none"

\* What the deltas have used up of the completions.
Spent == Board!Deltas(history) + IF collector = "push" THEN snap.delta ELSE 0

HistoryInv ==
  /\ Len(history) <= Board!Max({1, HistoryLen})
  /\ Spent <= finished /\ Spent + (completed - lastSeen) <= finished
  /\ \A i \in 1 .. Len(history) : history[i].n \in 1 .. samples
  /\ \A i \in 1 .. Len(history) : history[i].n + Len(history) - i = history[Len(history)].n
  /\ ~wasReset =>
       \A i \in 1 .. Len(history) - 1 :
         history[i + 1].completed = history[i].completed + history[i + 1].delta
  /\ history # <<>> =>
       LET last == history[Len(history)] IN
       IF collector = "push"
       THEN last.n + 1 = samples /\ (~wasReset => snap.completed = last.completed + snap.delta)
       ELSE last.n = samples /\ lastSeen = last.completed

EventsInv ==
  \A c \in Clients :
    /\ conn[c] \in {"away", "request"} => received[c] = <<>>
    /\ conn[c] = "replay" =>
         /\ lock = c /\ Len(received[c]) <= Len(history)
         /\ \A i \in 1 .. Len(received[c]) : received[c][i] = history[i]
    /\ \A i \in 1 .. Len(received[c]) :
         /\ history # <<>> /\ received[c][i].n \in 1 .. history[Len(history)].n
         /\ i > 1 => received[c][i - 1].n <= received[c][i].n

BoardInv == SampleInv /\ HistoryInv /\ EventsInv

\* A task that has not been overtaken by a start was recorded in the current run,
\* unless the statistics are about to be cleared.
ProfileInv ==
  /\ clock \in Nat /\ startTime \in 0 .. clock
  /\ doing \in [Callers -> {"idle", "start", "clear", "push", "read", "copy", "unset"}]
  /\ seen \in [Callers -> Nat] /\ overtaken \in [Callers -> BOOLEAN]
  /\ taskStats \in Seq([called : Nat, overtaken : BOOLEAN])
  /\ \A c \in Callers : /\ doing[c] = "push" /\ ~overtaken[c] => seen[c] = clock
                        /\ doing[c] = "copy" => seen[c] <= clock
  /\ \/ \E c \in Callers : doing[c] = "clear"
     \/ \A i \in 1 .. Len(taskStats) : taskStats[i].overtaken \/ taskStats[i].called = clock
  /\ Profile!ProfileCoherent

MonitoringInv == TelemetryInv /\ BoardInv /\ ProfileInv
-----------------------------------------------------------------------------
(* Sums over the threads.                                                  *)

LEMMA SumFacts ==
  ASSUME NEW f \in [Threads -> Nat]
  PROVE  \E g : Sums(g, f, Threads) /\ g[Threads] = Telemetry!SumOver(f)
<1> DEFINE iter == CHOOSE g : g = [s \in SUBSET Threads |->
                                     IF s = {} THEN 0
                                     ELSE f[CHOOSE x \in s : TRUE] + g[s \ {CHOOSE x \in s : TRUE}]]
<1>1. PICK c : c = [s \in SUBSET Threads |-> CHOOSE x \in s : TRUE]
  OBVIOUS
<1>2. \A s \in SUBSET Threads : c[s] = CHOOSE x \in s : TRUE
  BY <1>1
<1>3. \A s \in SUBSET Threads : s # {} => c[s] \in s
  BY <1>2
<1>4. PICK h \in [Threads \X Nat -> Nat] : \A w \in Threads : \A v \in Nat : h[<<w, v>>] = f[w] + v
  <2>1. PICK h : h = [z \in Threads \X Nat |-> f[z[1]] + z[2]]
    OBVIOUS
  <2> QED BY <2>1
<1>5. PICK g : Folds(g, Threads, Nat, 0, c, h)
  BY <1>3, FoldExists, MonitoringAssumption
<1>6. g \in [SUBSET Threads -> Nat] /\ \A s \in SUBSET Threads : g[s] = IF s = {} THEN 0 ELSE f[c[s]] + g[s \ {c[s]}]
  <2>1. g \in [SUBSET Threads -> Nat] /\ \A s \in SUBSET Threads : g[s] = IF s = {} THEN 0 ELSE h[<<c[s], g[s \ {c[s]}]>>]
    BY <1>5 DEF Folds
  <2>2. \A s \in SUBSET Threads : s # {} => c[s] \in Threads /\ g[s \ {c[s]}] \in Nat
    BY <1>3, <2>1
  <2> QED BY <1>4, <2>1, <2>2
<1>7. g = [s \in SUBSET Threads |-> IF s = {} THEN 0
                                    ELSE f[CHOOSE x \in s : TRUE] + g[s \ {CHOOSE x \in s : TRUE}]]
  BY <1>2, <1>6
<1>8. iter = [s \in SUBSET Threads |-> IF s = {} THEN 0
                                       ELSE f[CHOOSE x \in s : TRUE] + iter[s \ {CHOOSE x \in s : TRUE}]]
  BY <1>7
<1>9. Telemetry!SumOver(f) = iter[Threads]
  BY DEF Telemetry!SumOver, Telemetry!MapThenSumSet, Telemetry!MapThenFoldSet
<1> HIDE DEF iter
<1>10. iter[Threads] = g[Threads]
  <2>1. PICK k : k = iter
    OBVIOUS
  <2>2. k = [s \in SUBSET Threads |-> IF s = {} THEN 0
                                      ELSE f[CHOOSE x \in s : TRUE] + k[s \ {CHOOSE x \in s : TRUE}]]
    BY <1>8, <2>1
  <2>3. \A s \in SUBSET Threads : k[s] = IF s = {} THEN 0
                                         ELSE f[CHOOSE x \in s : TRUE] + k[s \ {CHOOSE x \in s : TRUE}]
    BY <2>2
  <2>4. k[{}] = g[{}]
    BY <1>6, <2>3
  <2>5. \A s \in SUBSET Threads : s # {} => k[s] = f[c[s]] + k[s \ {c[s]}]
    <3> SUFFICES ASSUME NEW s \in SUBSET Threads, s # {}
                 PROVE  k[s] = f[c[s]] + k[s \ {c[s]}]
      OBVIOUS
    <3>1. c[s] = CHOOSE x \in s : TRUE
      BY <1>2
    <3>2. k[s] = f[CHOOSE x \in s : TRUE] + k[s \ {CHOOSE x \in s : TRUE}]
      BY <2>3
    <3> QED BY <3>1, <3>2
  <2>6. \A s \in SUBSET Threads : s # {} /\ k[s \ {c[s]}] = g[s \ {c[s]}] => k[s] = g[s]
    BY <1>6, <2>5
  <2>7. \A s \in SUBSET Threads : k[s] = g[s]
    <3>1. Follows(k, g, Threads, c)
      BY <1>3, <2>4, <2>6 DEF Follows
    <3> QED BY <3>1, FoldUnique, MonitoringAssumption
  <2> QED BY <2>1, <2>7
<1>11. Sums(g, f, Threads)
  BY <1>3, <1>6, SumAnyOrder, MonitoringAssumption
<1> QED BY <1>9, <1>10, <1>11

LEMMA SumNat ==
  ASSUME NEW f \in [Threads -> Nat]
  PROVE  Telemetry!SumOver(f) \in Nat
<1>1. PICK g : Sums(g, f, Threads) /\ g[Threads] = Telemetry!SumOver(f)
  BY SumFacts
<1> QED BY <1>1 DEF Sums

LEMMA SumBelow ==
  ASSUME NEW e \in [Threads -> Nat], NEW f \in [Threads -> Nat], \A w \in Threads : e[w] <= f[w]
  PROVE  Telemetry!SumOver(e) <= Telemetry!SumOver(f)
<1>1. PICK d : Sums(d, e, Threads) /\ d[Threads] = Telemetry!SumOver(e)
  BY SumFacts
<1>2. PICK g : Sums(g, f, Threads) /\ g[Threads] = Telemetry!SumOver(f)
  BY SumFacts
<1> QED BY <1>1, <1>2, SumMonotone, MonitoringAssumption

\* A sum changes by what one of its elements changes.
LEMMA SumMove ==
  ASSUME NEW e \in [Threads -> Nat], NEW f \in [Threads -> Nat], NEW w \in Threads,
         \A x \in Threads : x # w => e[x] = f[x]
  PROVE  Telemetry!SumOver(f) = Telemetry!SumOver(e) - e[w] + f[w]
<1>1. PICK d : Sums(d, e, Threads) /\ d[Threads] = Telemetry!SumOver(e)
  BY SumFacts
<1>2. PICK g : Sums(g, f, Threads) /\ g[Threads] = Telemetry!SumOver(f)
  BY SumFacts
<1>3. Threads \ {w} \in SUBSET Threads /\ \A x \in Threads \ {w} : e[x] <= f[x] /\ f[x] <= e[x]
  OBVIOUS
<1>4. d[Threads \ {w}] <= g[Threads \ {w}] /\ g[Threads \ {w}] <= d[Threads \ {w}]
  BY <1>1, <1>2, <1>3, SumMonotone, MonitoringAssumption
<1>5. PICK m \in Nat, n \in Nat : m = d[Threads \ {w}] /\ n = g[Threads \ {w}]
  BY <1>1, <1>2, <1>3 DEF Sums
<1>6. d[Threads] = e[w] + m /\ g[Threads] = f[w] + n
  BY <1>1, <1>2, <1>5 DEF Sums
<1>7. e[w] \in Nat /\ f[w] \in Nat /\ m = n
  BY <1>4, <1>5
<1> QED BY <1>1, <1>2, <1>6, <1>7

LEMMA SumZero ==
  ASSUME NEW f \in [Threads -> Nat], \A w \in Threads : f[w] = 0
  PROVE  Telemetry!SumOver(f) = 0
<1>1. PICK g : Sums(g, f, Threads) /\ g[Threads] = Telemetry!SumOver(f)
  BY SumFacts
<1>2. PICK k : k = [s \in SUBSET Threads |-> 0]
  OBVIOUS
<1>3. k \in [SUBSET Threads -> Nat] /\ \A s \in SUBSET Threads : k[s] = 0
  BY <1>2
<1>4. Sums(k, f, Threads)
  BY <1>3 DEF Sums
<1>5. g[Threads] <= k[Threads]
  BY <1>1, <1>4, SumMonotone, MonitoringAssumption
<1>6. g[Threads] \in Nat /\ k[Threads] = 0
  BY <1>1, <1>3 DEF Sums
<1> QED BY <1>1, <1>5, <1>6
-----------------------------------------------------------------------------
(* The metrics.                                                            *)

LEMMA RecordingInit ==
  ASSUME Telemetry!Init
  PROVE  RecordingInv
<1>1. IsFiniteSet({})
  BY FS_EmptySet
<1> QED BY <1>1 DEF Telemetry!Init, RecordingInv

LEMMA RecordingStep ==
  ASSUME RecordingInv, Telemetry!Next
  PROVE  RecordingInv'
<1> USE DEF RecordingInv
<1> DEFINE Steps == {"idle", "timing", "executed", "time", "busy", "worker", "failed", "load", "exchange"}
<1>1. ASSUME NEW w \in Threads, NEW t \in TaskIds, Telemetry!RecordStart(w, t) PROVE RecordingInv'
  BY <1>1 DEF Telemetry!RecordStart, Telemetry!Counters, Telemetry!Memory, Telemetry!History
<1>2. ASSUME NEW w \in Threads, NEW t \in TaskIds, Telemetry!RecordCompletion(w, t) PROVE RecordingInv'
  BY <1>2 DEF Telemetry!RecordCompletion, Telemetry!Begin, Telemetry!Counters, Telemetry!Memory, Telemetry!History
<1>3. ASSUME NEW w \in Threads, Telemetry!StoreTiming(w) PROVE RecordingInv'
  <2>1. IsFiniteSet(timings')
    BY <1>3, FS_AddElement DEF Telemetry!StoreTiming
  <2> QED BY <1>3, <2>1 DEF Telemetry!StoreTiming, Telemetry!Goto, Telemetry!Counters, Telemetry!Memory, Telemetry!History
<1>4. ASSUME NEW w \in Threads, Telemetry!CountExecuted(w) PROVE RecordingInv'
  BY <1>4 DEF Telemetry!CountExecuted, Telemetry!Goto, Telemetry!Memory, Telemetry!History
<1>5. ASSUME NEW w \in Threads, Telemetry!AddTime(w) PROVE RecordingInv'
  BY <1>5 DEF Telemetry!AddTime, Telemetry!Goto, Telemetry!Memory, Telemetry!History
<1>6. ASSUME NEW w \in Threads, Telemetry!AddBusy(w) PROVE RecordingInv'
  <2>1. workerBusy[w] + reg[w] \in Nat
    OBVIOUS
  <2> QED BY <1>6, <2>1 DEF Telemetry!AddBusy, Telemetry!Goto, Telemetry!Memory, Telemetry!History
<1>7. ASSUME NEW w \in Threads, Telemetry!CountWorker(w) PROVE RecordingInv'
  <2>1. workerTasks[w] + 1 \in Nat
    OBVIOUS
  <2> QED BY <1>7, <2>1 DEF Telemetry!CountWorker, Telemetry!Goto, Telemetry!Memory, Telemetry!History
<1>8. ASSUME NEW w \in Threads, NEW t \in TaskIds, Telemetry!RecordFailure(w, t) PROVE RecordingInv'
  BY <1>8 DEF Telemetry!RecordFailure, Telemetry!Begin, Telemetry!Counters, Telemetry!Memory, Telemetry!History
<1>9. ASSUME NEW w \in Threads, Telemetry!CountFailed(w) PROVE RecordingInv'
  BY <1>9 DEF Telemetry!CountFailed, Telemetry!Goto, Telemetry!Memory, Telemetry!History
<1>10. ASSUME NEW w \in Threads, Telemetry!LoadPeak(w) PROVE RecordingInv'
  BY <1>10 DEF Telemetry!LoadPeak, Telemetry!Goto, Telemetry!Counters, Telemetry!Memory, Telemetry!History
<1>11. ASSUME NEW w \in Threads, Telemetry!Exchange(w) PROVE RecordingInv'
  <2>1. arg[w] \in Nat
    BY <1>11, MonitoringAssumption DEF Telemetry!Exchange
  <2>2. /\ executed' = executed /\ totalTime' = totalTime /\ current' = current /\ sizes' = sizes
        /\ workerTasks' = workerTasks /\ workerBusy' = workerBusy /\ timings' = timings
        /\ toReset' = toReset /\ resets' = resets
    BY <1>11 DEF Telemetry!Exchange, Telemetry!Counters, Telemetry!History
  <2>3. /\ step[w] = "exchange" /\ peak' \in {peak, arg[w]}
        /\ \/ step' = step /\ arg' = arg /\ reg' = [reg EXCEPT ![w] = peak]
           \/ /\ step' = [step EXCEPT ![w] = "idle"] /\ arg' = [arg EXCEPT ![w] = 0]
              /\ reg' = [reg EXCEPT ![w] = 0]
    BY <1>11 DEF Telemetry!Exchange, Telemetry!Goto
  <2>4. peak' \in Nat /\ step' \in [Threads -> Steps]
    BY <2>1, <2>3
  <2>7. reg' \in [Threads -> Nat]
    <3>1. PICK n \in Nat : reg' = [reg EXCEPT ![w] = n]
      BY <2>3
    <3>2. reg \in [Threads -> Nat]
      OBVIOUS
    <3> HIDE DEF RecordingInv
    <3> QED BY <3>1, <3>2
  <2>6. arg' \in [Threads -> {0} \cup TaskIds \cup Sizes]
    BY <2>3
  <2>5. \A v \in Threads :
          /\ step'[v] \in {"load", "exchange"} => arg'[v] \in sizes'
          /\ step'[v] \in {"timing", "executed", "time", "busy", "worker"} => reg'[v] <= 1
    BY <2>2, <2>3
  <2> QED BY <2>2, <2>4, <2>5, <2>6, <2>7
<1>12. ASSUME NEW w \in Threads, NEW size \in Sizes, Telemetry!RecordMemory(w, size) PROVE RecordingInv'
  <2>1. current' \in Nat /\ sizes' \subseteq Sizes
    BY <1>12, MonitoringAssumption DEF Telemetry!RecordMemory
  <2>2. step' = [step EXCEPT ![w] = "load"] /\ arg' = [arg EXCEPT ![w] = size]
    BY <1>12 DEF Telemetry!RecordMemory, Telemetry!Begin
  <2>3. /\ executed' = executed /\ totalTime' = totalTime /\ peak' = peak /\ reg' = reg
        /\ workerTasks' = workerTasks /\ workerBusy' = workerBusy /\ timings' = timings
        /\ toReset' = toReset /\ resets' = resets
    BY <1>12 DEF Telemetry!RecordMemory, Telemetry!Counters
  <2>4. /\ step' \in [Threads -> Steps] /\ arg' \in [Threads -> {0} \cup TaskIds \cup Sizes]
        /\ \A v \in Threads :
             /\ step'[v] \in {"load", "exchange"} => arg'[v] \in sizes'
             /\ step'[v] \in {"timing", "executed", "time", "busy", "worker"} => reg'[v] <= 1
    <3>1. sizes' = sizes \cup {size}
      BY <1>12 DEF Telemetry!RecordMemory
    <3> QED BY <2>2, <2>3, <3>1
  <2> QED BY <2>1, <2>3, <2>4
<1>13. CASE Telemetry!Reset
  <2>1. toReset' \in Seq(Cells) /\ toReset'[Len(toReset')] = "current" /\ resets'
    <3>1. toReset' = <<"executed", "failed", "totalTime", "timings", "started", "workers", "peak", "current">>
          /\ resets'
      BY <1>13 DEF Telemetry!Reset, Telemetry!ResetOrder
    <3>2. toReset' \in Seq(Cells)
      BY <3>1 DEF Cells
    <3>3. Len(toReset') = 8
      BY <3>1
    <3>4. toReset'[8] = "current"
      BY <3>1
    <3> QED BY <3>1, <3>2, <3>3, <3>4
  <2> QED BY <1>13, <2>1 DEF Telemetry!Reset, Telemetry!Counters, Telemetry!Memory
<1>14. CASE Telemetry!ResetNext
  <2>1. toReset # <<>> /\ toReset' = Tail(toReset) /\ resets /\ resets' = resets
        /\ toReset[Len(toReset)] = "current"
    BY <1>14 DEF Telemetry!ResetNext
  <2>2. toReset' \in Seq(Cells) /\ (toReset' # <<>> => toReset'[Len(toReset')] = "current")
    <3>1. /\ Len(toReset) \in Nat \ {0} /\ Tail(toReset) \in Seq(Cells)
          /\ Len(Tail(toReset)) = Len(toReset) - 1
          /\ \A i \in 1 .. Len(Tail(toReset)) : Tail(toReset)[i] = toReset[i + 1]
      BY <2>1, EmptySeq, LenProperties, HeadTailProperties
    <3>2. Tail(toReset) # <<>> => Len(Tail(toReset)) # 0
      BY <3>1, EmptySeq
    <3>3. Len(Tail(toReset)) # 0 => Tail(toReset)[Len(Tail(toReset))] = toReset[Len(toReset)]
      BY <3>1
    <3> QED BY <2>1, <3>1, <3>2, <3>3
  <2>3. IsFiniteSet(timings')
    BY <1>14, FS_EmptySet DEF Telemetry!ResetNext, Telemetry!Cleared
  <2>4. /\ executed' \in Nat /\ totalTime' \in Nat /\ current' \in Nat /\ peak' \in Nat
        /\ workerTasks' \in [Threads -> Nat] /\ workerBusy' \in [Threads -> Nat]
    BY <1>14 DEF Telemetry!ResetNext, Telemetry!Cleared
  <2>5. step' = step /\ reg' = reg /\ arg' = arg /\ sizes' = sizes
    BY <1>14 DEF Telemetry!ResetNext
  <2>6. /\ step' \in [Threads -> Steps] /\ reg' \in [Threads -> Nat]
        /\ arg' \in [Threads -> {0} \cup TaskIds \cup Sizes] /\ sizes' \subseteq Sizes
        /\ \A v \in Threads :
             /\ step'[v] \in {"load", "exchange"} => arg'[v] \in sizes'
             /\ step'[v] \in {"timing", "executed", "time", "busy", "worker"} => reg'[v] <= 1
    BY <2>5
  <2> QED BY <2>1, <2>2, <2>3, <2>4, <2>6
<1> HIDE DEF RecordingInv
<1> QED
  BY <1>1, <1>2, <1>3, <1>4, <1>5, <1>6, <1>7, <1>8, <1>9, <1>10, <1>11, <1>12, <1>13, <1>14
  DEF Telemetry!Next

\* What the parts of the sums are when one thread is at a step.
LEMMA PartTypes ==
  ASSUME RecordingInv
  PROVE  /\ Counted \in [Threads -> Nat] /\ Timed \in [Threads -> Nat]
         /\ Unadded \in [Threads -> Nat] /\ Uncounted \in [Threads -> Nat]
  BY DEF RecordingInv, Counted, Timed, Unadded, Uncounted

\* The sums change by what the thread that takes a step changes.
LEMMA SumsMove ==
  ASSUME RecordingInv, RecordingInv', NEW w \in Threads,
         \A x \in Threads : x # w =>
           /\ step'[x] = step[x] /\ reg'[x] = reg[x]
           /\ workerTasks'[x] = workerTasks[x] /\ workerBusy'[x] = workerBusy[x]
  PROVE  /\ Telemetry!SumOver(Counted') = Telemetry!SumOver(Counted) - Counted[w] + Counted'[w]
         /\ Telemetry!SumOver(Timed') = Telemetry!SumOver(Timed) - Timed[w] + Timed'[w]
         /\ Telemetry!SumOver(Unadded') = Telemetry!SumOver(Unadded) - Unadded[w] + Unadded'[w]
         /\ Telemetry!SumOver(Uncounted') = Telemetry!SumOver(Uncounted) - Uncounted[w] + Uncounted'[w]
<1>1. /\ Counted \in [Threads -> Nat] /\ Timed \in [Threads -> Nat]
      /\ Unadded \in [Threads -> Nat] /\ Uncounted \in [Threads -> Nat]
  BY PartTypes
<1>2. /\ Counted' \in [Threads -> Nat] /\ Timed' \in [Threads -> Nat]
      /\ Unadded' \in [Threads -> Nat] /\ Uncounted' \in [Threads -> Nat]
  <2>1. reg' \in [Threads -> Nat] /\ workerTasks' \in [Threads -> Nat] /\ workerBusy' \in [Threads -> Nat]
    BY DEF RecordingInv
  <2> QED BY <2>1 DEF Counted, Timed, Unadded, Uncounted
<1>3. \A x \in Threads : x # w => Counted[x] = Counted'[x]
  BY DEF Counted
<1>4. \A x \in Threads : x # w => Timed[x] = Timed'[x]
  BY DEF Timed
<1>5. \A x \in Threads : x # w => Unadded[x] = Unadded'[x]
  BY DEF Unadded
<1>6. \A x \in Threads : x # w => Uncounted[x] = Uncounted'[x]
  BY DEF Uncounted
<1>7. Telemetry!SumOver(Counted') = Telemetry!SumOver(Counted) - Counted[w] + Counted'[w]
  BY <1>1, <1>2, <1>3, SumMove
<1>8. Telemetry!SumOver(Timed') = Telemetry!SumOver(Timed) - Timed[w] + Timed'[w]
  BY <1>1, <1>2, <1>4, SumMove
<1>9. Telemetry!SumOver(Unadded') = Telemetry!SumOver(Unadded) - Unadded[w] + Unadded'[w]
  BY <1>1, <1>2, <1>5, SumMove
<1>10. Telemetry!SumOver(Uncounted') = Telemetry!SumOver(Uncounted) - Uncounted[w] + Uncounted'[w]
  BY <1>1, <1>2, <1>6, SumMove
<1> QED BY <1>7, <1>8, <1>9, <1>10

\* A step of one thread keeps the counts when it moves them as much as the totals.
LEMMA CountsMove ==
  ASSUME RecordingInv, RecordingInv', CountsInv, resets' = resets, NEW w \in Threads,
         \A x \in Threads : x # w =>
           /\ step'[x] = step[x] /\ reg'[x] = reg[x]
           /\ workerTasks'[x] = workerTasks[x] /\ workerBusy'[x] = workerBusy[x],
         executed' + Counted[w] = executed + Counted'[w],
         totalTime' + Timed[w] = totalTime + Timed'[w],
         totalTime' + Unadded'[w] + executed <= totalTime + Unadded[w] + executed',
         Cardinality(timings') + executed + Uncounted[w] <= Cardinality(timings) + executed' + Uncounted'[w]
  PROVE  CountsInv'
<1>1. /\ Telemetry!SumOver(Counted') = Telemetry!SumOver(Counted) - Counted[w] + Counted'[w]
      /\ Telemetry!SumOver(Timed') = Telemetry!SumOver(Timed) - Timed[w] + Timed'[w]
      /\ Telemetry!SumOver(Unadded') = Telemetry!SumOver(Unadded) - Unadded[w] + Unadded'[w]
      /\ Telemetry!SumOver(Uncounted') = Telemetry!SumOver(Uncounted) - Uncounted[w] + Uncounted'[w]
  BY SumsMove
<1>2. /\ Counted \in [Threads -> Nat] /\ Timed \in [Threads -> Nat]
      /\ Unadded \in [Threads -> Nat] /\ Uncounted \in [Threads -> Nat]
  BY PartTypes
<1>3. /\ Telemetry!SumOver(Counted) \in Nat /\ Telemetry!SumOver(Timed) \in Nat
      /\ Telemetry!SumOver(Unadded) \in Nat /\ Telemetry!SumOver(Uncounted) \in Nat
  BY <1>2, SumNat
<1>4. /\ Counted[w] \in Nat /\ Timed[w] \in Nat /\ Unadded[w] \in Nat /\ Uncounted[w] \in Nat
  BY <1>2
<1>5. /\ Counted'[w] \in Nat /\ Timed'[w] \in Nat /\ Unadded'[w] \in Nat /\ Uncounted'[w] \in Nat
  <2>1. reg'[w] \in Nat /\ workerTasks'[w] \in Nat /\ workerBusy'[w] \in Nat
    BY DEF RecordingInv
  <2> QED BY <2>1 DEF Counted, Timed, Unadded, Uncounted
<1>6. /\ executed \in Nat /\ executed' \in Nat /\ totalTime \in Nat /\ totalTime' \in Nat
      /\ Cardinality(timings) \in Nat /\ Cardinality(timings') \in Nat
  BY FS_CardinalityType DEF RecordingInv
<1> SUFFICES ASSUME ~resets'
             PROVE  /\ executed' = Telemetry!SumOver(Counted') /\ totalTime' = Telemetry!SumOver(Timed')
                    /\ totalTime' + Telemetry!SumOver(Unadded') <= executed'
                    /\ Cardinality(timings') <= executed' + Telemetry!SumOver(Uncounted')
  BY DEF CountsInv
<1>7. /\ executed = Telemetry!SumOver(Counted) /\ totalTime = Telemetry!SumOver(Timed)
      /\ totalTime + Telemetry!SumOver(Unadded) <= executed
      /\ Cardinality(timings) <= executed + Telemetry!SumOver(Uncounted)
  BY DEF CountsInv
<1>8. executed' = Telemetry!SumOver(Counted')
  <2>1. executed' = executed - Counted[w] + Counted'[w]
    <3>1. PICK a \in Nat, b \in Nat, c \in Nat, d \in Nat :
            a = executed' /\ b = Counted[w] /\ c = executed /\ d = Counted'[w]
      BY <1>4, <1>5, <1>6
    <3>2. a + b = c + d
      BY <3>1
    <3>3. a = c - b + d
      BY <3>2
    <3> QED BY <3>1, <3>3
  <2> QED BY <1>1, <1>7, <2>1
<1>11. totalTime' = Telemetry!SumOver(Timed')
  <2>1. totalTime' = totalTime - Timed[w] + Timed'[w]
    <3>1. PICK a \in Nat, b \in Nat, c \in Nat, d \in Nat :
            a = totalTime' /\ b = Timed[w] /\ c = totalTime /\ d = Timed'[w]
      BY <1>4, <1>5, <1>6
    <3>2. a + b = c + d
      BY <3>1
    <3>3. a = c - b + d
      BY <3>2
    <3> QED BY <3>1, <3>3
  <2> QED BY <1>1, <1>7, <2>1
<1>9. totalTime' + Telemetry!SumOver(Unadded') <= executed'
  BY <1>1, <1>3, <1>4, <1>5, <1>6, <1>7
<1>10. Cardinality(timings') <= executed' + Telemetry!SumOver(Uncounted')
  BY <1>1, <1>3, <1>4, <1>5, <1>6, <1>7
<1> QED BY <1>8, <1>9, <1>10, <1>11

LEMMA CountsStep ==
  ASSUME RecordingInv, RecordingInv', CountsInv, Telemetry!Next
  PROVE  CountsInv'
<1> DEFINE Steps == {"idle", "timing", "executed", "time", "busy", "worker", "failed", "load", "exchange"}
<1>0. /\ executed \in Nat /\ totalTime \in Nat /\ IsFiniteSet(timings) /\ Cardinality(timings) \in Nat
      /\ step \in [Threads -> Steps] /\ reg \in [Threads -> Nat]
      /\ workerTasks \in [Threads -> Nat] /\ workerBusy \in [Threads -> Nat]
      /\ \A w \in Threads : step[w] \in {"executed", "time", "busy"} => reg[w] <= 1
  BY FS_CardinalityType DEF RecordingInv
\* A step that touches no counter and no register, and is not one of the four that count.
<1>1. ASSUME NEW w \in Threads, NEW to, step[w] \in {"idle", "failed", "load", "exchange"},
             to \in {"idle", "failed", "load", "exchange"},
             step' = [step EXCEPT ![w] = to], \A x \in Threads : x # w => reg'[x] = reg[x],
             executed' = executed, totalTime' = totalTime, workerTasks' = workerTasks,
             workerBusy' = workerBusy, timings' = timings, resets' = resets
      PROVE  CountsInv'
  <2>1. /\ Counted[w] = workerTasks[w] /\ Counted'[w] = workerTasks[w]
        /\ Timed[w] = workerBusy[w] /\ Timed'[w] = workerBusy[w]
        /\ Unadded[w] = 0 /\ Unadded'[w] = 0 /\ Uncounted[w] = 0 /\ Uncounted'[w] = 0
    BY <1>0, <1>1 DEF Counted, Timed, Unadded, Uncounted
  <2>2. \A x \in Threads : x # w =>
          /\ step'[x] = step[x] /\ reg'[x] = reg[x]
          /\ workerTasks'[x] = workerTasks[x] /\ workerBusy'[x] = workerBusy[x]
    BY <1>0, <1>1
  <2>3. workerTasks[w] \in Nat /\ workerBusy[w] \in Nat
    BY <1>0
  <2> QED BY <1>0, <1>1, <2>1, <2>2, <2>3, CountsMove
<1>2. ASSUME NEW w \in Threads, NEW t \in TaskIds, Telemetry!RecordStart(w, t) PROVE CountsInv'
  <2>1. step[w] = "idle" /\ step' = step /\ reg' = reg
        /\ executed' = executed /\ totalTime' = totalTime /\ workerTasks' = workerTasks
        /\ workerBusy' = workerBusy /\ timings' = timings /\ resets' = resets
    BY <1>2 DEF Telemetry!RecordStart, Telemetry!Counters, Telemetry!History
  <2>2. step' = [step EXCEPT ![w] = "idle"]
    BY <1>0, <2>1
  <2> QED BY <1>1, <2>1, <2>2
<1>3. ASSUME NEW w \in Threads, NEW t \in TaskIds, Telemetry!RecordCompletion(w, t) PROVE CountsInv'
  <2>1. /\ step[w] = "idle" /\ step' = [step EXCEPT ![w] = "timing"]
        /\ \A x \in Threads : x # w => reg'[x] = reg[x]
        /\ executed' = executed /\ totalTime' = totalTime /\ workerTasks' = workerTasks
        /\ workerBusy' = workerBusy /\ timings' = timings /\ resets' = resets
    BY <1>0, <1>3 DEF Telemetry!RecordCompletion, Telemetry!Begin, Telemetry!Counters, Telemetry!History
  <2>2. /\ Counted[w] = workerTasks[w] /\ Counted'[w] = workerTasks[w]
        /\ Timed[w] = workerBusy[w] /\ Timed'[w] = workerBusy[w]
        /\ Unadded[w] = 0 /\ Unadded'[w] = 0 /\ Uncounted[w] = 0 /\ Uncounted'[w] = 0
    BY <1>0, <2>1 DEF Counted, Timed, Unadded, Uncounted
  <2>3. \A x \in Threads : x # w =>
          /\ step'[x] = step[x] /\ reg'[x] = reg[x]
          /\ workerTasks'[x] = workerTasks[x] /\ workerBusy'[x] = workerBusy[x]
    BY <1>0, <2>1
  <2>4. workerTasks[w] \in Nat /\ workerBusy[w] \in Nat
    BY <1>0
  <2> QED BY <1>0, <2>1, <2>2, <2>3, <2>4, CountsMove
<1>4. ASSUME NEW w \in Threads, Telemetry!StoreTiming(w) PROVE CountsInv'
  <2>1. /\ step[w] = "timing" /\ step' = [step EXCEPT ![w] = "executed"] /\ reg' = reg
        /\ executed' = executed /\ totalTime' = totalTime /\ workerTasks' = workerTasks
        /\ workerBusy' = workerBusy /\ timings' = timings \cup {arg[w]} /\ resets' = resets
    BY <1>0, <1>4 DEF Telemetry!StoreTiming, Telemetry!Goto, Telemetry!Counters, Telemetry!History
  <2>2. /\ Counted[w] = workerTasks[w] /\ Counted'[w] = workerTasks[w]
        /\ Timed[w] = workerBusy[w] /\ Timed'[w] = workerBusy[w]
        /\ Unadded[w] = 0 /\ Unadded'[w] = 0 /\ Uncounted[w] = 0 /\ Uncounted'[w] = 1
    BY <1>0, <2>1 DEF Counted, Timed, Unadded, Uncounted
  <2>3. \A x \in Threads : x # w =>
          /\ step'[x] = step[x] /\ reg'[x] = reg[x]
          /\ workerTasks'[x] = workerTasks[x] /\ workerBusy'[x] = workerBusy[x]
    BY <1>0, <2>1
  <2>4. workerTasks[w] \in Nat /\ workerBusy[w] \in Nat
    BY <1>0
  <2>5. Cardinality(timings') \in Nat /\ Cardinality(timings') <= Cardinality(timings) + 1
    <3>1. IsFiniteSet(timings')
      BY DEF RecordingInv
    <3>2. Cardinality(timings \cup {arg[w]}) \in {Cardinality(timings), Cardinality(timings) + 1}
      BY <1>0, FS_AddElement
    <3> QED BY <1>0, <2>1, <3>1, <3>2, FS_CardinalityType
  <2>6. executed' + Counted[w] = executed + Counted'[w] /\ totalTime' + Timed[w] = totalTime + Timed'[w]
        /\ totalTime' + Unadded'[w] + executed <= totalTime + Unadded[w] + executed'
    BY <1>0, <2>1, <2>2, <2>4
  <2>7. Cardinality(timings') + executed + Uncounted[w] <= Cardinality(timings) + executed' + Uncounted'[w]
    BY <1>0, <2>1, <2>2, <2>5
  <2> QED BY <2>1, <2>3, <2>6, <2>7, CountsMove
<1>5. ASSUME NEW w \in Threads, Telemetry!CountExecuted(w) PROVE CountsInv'
  <2>1. /\ step[w] = "executed" /\ step' = [step EXCEPT ![w] = "time"] /\ reg' = reg
        /\ executed' = executed + 1 /\ totalTime' = totalTime /\ workerTasks' = workerTasks
        /\ workerBusy' = workerBusy /\ timings' = timings /\ resets' = resets
    BY <1>0, <1>5 DEF Telemetry!CountExecuted, Telemetry!Goto, Telemetry!History
  <2>2. /\ Counted[w] = workerTasks[w] /\ Counted'[w] = workerTasks[w] + 1
        /\ Timed[w] = workerBusy[w] /\ Timed'[w] = workerBusy[w]
        /\ Unadded[w] = 0 /\ Unadded'[w] = reg[w] /\ Uncounted[w] = 1 /\ Uncounted'[w] = 0
    BY <1>0, <2>1 DEF Counted, Timed, Unadded, Uncounted
  <2>3. \A x \in Threads : x # w =>
          /\ step'[x] = step[x] /\ reg'[x] = reg[x]
          /\ workerTasks'[x] = workerTasks[x] /\ workerBusy'[x] = workerBusy[x]
    BY <1>0, <2>1
  <2>4. workerTasks[w] \in Nat /\ workerBusy[w] \in Nat /\ reg[w] \in Nat /\ reg[w] <= 1
    BY <1>0, <2>1
  <2> QED BY <1>0, <2>1, <2>2, <2>3, <2>4, CountsMove
<1>6. ASSUME NEW w \in Threads, Telemetry!AddTime(w) PROVE CountsInv'
  <2>1. /\ step[w] = "time" /\ step' = [step EXCEPT ![w] = "busy"] /\ reg' = reg
        /\ executed' = executed /\ totalTime' = totalTime + reg[w] /\ workerTasks' = workerTasks
        /\ workerBusy' = workerBusy /\ timings' = timings /\ resets' = resets
    BY <1>0, <1>6 DEF Telemetry!AddTime, Telemetry!Goto, Telemetry!History
  <2>2. /\ Counted[w] = workerTasks[w] + 1 /\ Counted'[w] = workerTasks[w] + 1
        /\ Timed[w] = workerBusy[w] /\ Timed'[w] = workerBusy[w] + reg[w]
        /\ Unadded[w] = reg[w] /\ Unadded'[w] = 0 /\ Uncounted[w] = 0 /\ Uncounted'[w] = 0
    BY <1>0, <2>1 DEF Counted, Timed, Unadded, Uncounted
  <2>3. \A x \in Threads : x # w =>
          /\ step'[x] = step[x] /\ reg'[x] = reg[x]
          /\ workerTasks'[x] = workerTasks[x] /\ workerBusy'[x] = workerBusy[x]
    BY <1>0, <2>1
  <2>4. workerTasks[w] \in Nat /\ workerBusy[w] \in Nat /\ reg[w] \in Nat
    BY <1>0
  <2> QED BY <1>0, <2>1, <2>2, <2>3, <2>4, CountsMove
<1>7. ASSUME NEW w \in Threads, Telemetry!AddBusy(w) PROVE CountsInv'
  <2>1. /\ step[w] = "busy" /\ step' = [step EXCEPT ![w] = "worker"] /\ reg' = reg
        /\ executed' = executed /\ totalTime' = totalTime /\ workerTasks' = workerTasks
        /\ workerBusy' = [workerBusy EXCEPT ![w] = workerBusy[w] + reg[w]]
        /\ timings' = timings /\ resets' = resets
    BY <1>0, <1>7 DEF Telemetry!AddBusy, Telemetry!Goto, Telemetry!History
  <2>2. /\ Counted[w] = workerTasks[w] + 1 /\ Counted'[w] = workerTasks[w] + 1
        /\ Timed[w] = workerBusy[w] + reg[w] /\ Timed'[w] = workerBusy[w] + reg[w]
        /\ Unadded[w] = 0 /\ Unadded'[w] = 0 /\ Uncounted[w] = 0 /\ Uncounted'[w] = 0
    BY <1>0, <2>1 DEF Counted, Timed, Unadded, Uncounted
  <2>3. \A x \in Threads : x # w =>
          /\ step'[x] = step[x] /\ reg'[x] = reg[x]
          /\ workerTasks'[x] = workerTasks[x] /\ workerBusy'[x] = workerBusy[x]
    BY <1>0, <2>1
  <2>4. workerTasks[w] \in Nat /\ workerBusy[w] \in Nat /\ reg[w] \in Nat
    BY <1>0
  <2> QED BY <1>0, <2>1, <2>2, <2>3, <2>4, CountsMove
<1>8. ASSUME NEW w \in Threads, Telemetry!CountWorker(w) PROVE CountsInv'
  <2>1. /\ step[w] = "worker" /\ step' = [step EXCEPT ![w] = "idle"]
        /\ \A x \in Threads : x # w => reg'[x] = reg[x]
        /\ executed' = executed /\ totalTime' = totalTime
        /\ workerTasks' = [workerTasks EXCEPT ![w] = workerTasks[w] + 1]
        /\ workerBusy' = workerBusy /\ timings' = timings /\ resets' = resets
    BY <1>0, <1>8 DEF Telemetry!CountWorker, Telemetry!Goto, Telemetry!History
  <2>2. /\ Counted[w] = workerTasks[w] + 1 /\ Counted'[w] = workerTasks[w] + 1
        /\ Timed[w] = workerBusy[w] /\ Timed'[w] = workerBusy[w]
        /\ Unadded[w] = 0 /\ Unadded'[w] = 0 /\ Uncounted[w] = 0 /\ Uncounted'[w] = 0
    BY <1>0, <2>1 DEF Counted, Timed, Unadded, Uncounted
  <2>3. \A x \in Threads : x # w =>
          /\ step'[x] = step[x] /\ reg'[x] = reg[x]
          /\ workerTasks'[x] = workerTasks[x] /\ workerBusy'[x] = workerBusy[x]
    BY <1>0, <2>1
  <2>4. workerTasks[w] \in Nat /\ workerBusy[w] \in Nat
    BY <1>0
  <2> QED BY <1>0, <2>1, <2>2, <2>3, <2>4, CountsMove
<1>9. ASSUME NEW w \in Threads, NEW t \in TaskIds, Telemetry!RecordFailure(w, t) PROVE CountsInv'
  <2>1. /\ step[w] = "idle" /\ step' = [step EXCEPT ![w] = "failed"] /\ reg' = reg
        /\ executed' = executed /\ totalTime' = totalTime /\ workerTasks' = workerTasks
        /\ workerBusy' = workerBusy /\ timings' = timings /\ resets' = resets
    BY <1>9 DEF Telemetry!RecordFailure, Telemetry!Begin, Telemetry!Counters, Telemetry!History
  <2> QED BY <1>1, <2>1
<1>10. ASSUME NEW w \in Threads, Telemetry!CountFailed(w) PROVE CountsInv'
  <2>1. /\ step[w] = "failed" /\ step' = [step EXCEPT ![w] = "idle"] /\ reg' = reg
        /\ executed' = executed /\ totalTime' = totalTime /\ workerTasks' = workerTasks
        /\ workerBusy' = workerBusy /\ timings' = timings /\ resets' = resets
    BY <1>10 DEF Telemetry!CountFailed, Telemetry!Goto, Telemetry!History
  <2> QED BY <1>1, <2>1
<1>11. ASSUME NEW w \in Threads, Telemetry!LoadPeak(w) PROVE CountsInv'
  <2>1. /\ step[w] = "load" /\ step' = [step EXCEPT ![w] = "exchange"]
        /\ \A x \in Threads : x # w => reg'[x] = reg[x]
        /\ executed' = executed /\ totalTime' = totalTime /\ workerTasks' = workerTasks
        /\ workerBusy' = workerBusy /\ timings' = timings /\ resets' = resets
    BY <1>0, <1>11 DEF Telemetry!LoadPeak, Telemetry!Goto, Telemetry!Counters, Telemetry!History
  <2> QED BY <1>1, <2>1
<1>12. ASSUME NEW w \in Threads, Telemetry!Exchange(w) PROVE CountsInv'
  <2>1. /\ step[w] = "exchange" /\ \A x \in Threads : x # w => reg'[x] = reg[x]
        /\ executed' = executed /\ totalTime' = totalTime /\ workerTasks' = workerTasks
        /\ workerBusy' = workerBusy /\ timings' = timings /\ resets' = resets
    BY <1>0, <1>12 DEF Telemetry!Exchange, Telemetry!Counters, Telemetry!History
  <2>2. step' = step \/ step' = [step EXCEPT ![w] = "idle"]
    BY <1>12 DEF Telemetry!Exchange, Telemetry!Goto
  <2>3. step' = [step EXCEPT ![w] = "exchange"] \/ step' = [step EXCEPT ![w] = "idle"]
    BY <1>0, <2>1, <2>2
  <2> QED BY <1>1, <2>1, <2>3
<1>13. ASSUME NEW w \in Threads, NEW size \in Sizes, Telemetry!RecordMemory(w, size) PROVE CountsInv'
  <2>1. /\ step[w] = "idle" /\ step' = [step EXCEPT ![w] = "load"] /\ reg' = reg
        /\ executed' = executed /\ totalTime' = totalTime /\ workerTasks' = workerTasks
        /\ workerBusy' = workerBusy /\ timings' = timings /\ resets' = resets
    BY <1>13 DEF Telemetry!RecordMemory, Telemetry!Begin, Telemetry!Counters
  <2> QED BY <1>1, <2>1
<1>14. CASE Telemetry!Reset
  BY <1>14 DEF Telemetry!Reset, CountsInv
<1>15. CASE Telemetry!ResetNext
  <2>1. toReset # <<>> /\ resets' = resets
    BY <1>15 DEF Telemetry!ResetNext
  <2> QED BY <2>1 DEF RecordingInv, CountsInv
<1> QED
  BY <1>2, <1>3, <1>4, <1>5, <1>6, <1>7, <1>8, <1>9, <1>10, <1>11, <1>12, <1>13, <1>14, <1>15
  DEF Telemetry!Next

LEMMA PeakStep ==
  ASSUME RecordingInv, RecordingInv', PeakInv, CurrentInv, Telemetry!Next
  PROVE  PeakInv' /\ CurrentInv'
<1> DEFINE Steps == {"idle", "timing", "executed", "time", "busy", "worker", "failed", "load", "exchange"}
<1>0. /\ current \in Nat /\ peak \in Nat /\ step \in [Threads -> Steps]
      /\ reg \in [Threads -> Nat] /\ arg \in [Threads -> {0} \cup TaskIds \cup Sizes]
      /\ sizes \subseteq Nat
      /\ \A w \in Threads : step[w] \in {"load", "exchange"} => arg[w] \in sizes
  BY MonitoringAssumption DEF RecordingInv
\* A step that has nothing to do with the memory.
<1>1. ASSUME NEW w \in Threads, step[w] \notin {"load", "exchange"}, step'[w] \notin {"load", "exchange"},
             \A x \in Threads : x # w => step'[x] = step[x] /\ arg'[x] = arg[x] /\ reg'[x] = reg[x],
             current' = current, peak' = peak, sizes' = sizes, resets' = resets, toReset' = toReset
      PROVE  PeakInv' /\ CurrentInv'
  <2>1. \A x \in Threads : step[x] \in {"load", "exchange"} \/ step'[x] \in {"load", "exchange"} =>
          step'[x] = step[x] /\ arg'[x] = arg[x] /\ reg'[x] = reg[x]
    BY <1>1
  <2>2. PeakInv'
    BY <1>1, <2>1 DEF PeakInv
  <2>3. CurrentInv'
    BY <1>1, <2>1 DEF CurrentInv
  <2> QED BY <2>2, <2>3
<1>2. ASSUME NEW w \in Threads, NEW t \in TaskIds, Telemetry!RecordStart(w, t) PROVE PeakInv' /\ CurrentInv'
  BY <1>1, <1>2 DEF Telemetry!RecordStart, Telemetry!Memory, Telemetry!History
<1>3. ASSUME NEW w \in Threads, NEW t \in TaskIds, Telemetry!RecordCompletion(w, t) PROVE PeakInv' /\ CurrentInv'
  <2>1. /\ step[w] = "idle" /\ step' = [step EXCEPT ![w] = "timing"] /\ arg' = [arg EXCEPT ![w] = t]
        /\ \A x \in Threads : x # w => reg'[x] = reg[x]
        /\ current' = current /\ peak' = peak /\ sizes' = sizes /\ resets' = resets /\ toReset' = toReset
    BY <1>0, <1>3 DEF Telemetry!RecordCompletion, Telemetry!Begin, Telemetry!Memory, Telemetry!History
  <2> QED BY <1>0, <1>1, <2>1
<1>4. ASSUME NEW w \in Threads, NEW t \in TaskIds, Telemetry!RecordFailure(w, t) PROVE PeakInv' /\ CurrentInv'
  <2>1. /\ step[w] = "idle" /\ step' = [step EXCEPT ![w] = "failed"] /\ arg' = [arg EXCEPT ![w] = t]
        /\ reg' = reg
        /\ current' = current /\ peak' = peak /\ sizes' = sizes /\ resets' = resets /\ toReset' = toReset
    BY <1>0, <1>4 DEF Telemetry!RecordFailure, Telemetry!Begin, Telemetry!Memory, Telemetry!History
  <2> QED BY <1>0, <1>1, <2>1
<1>5. ASSUME NEW w \in Threads,
             \/ Telemetry!StoreTiming(w) \/ Telemetry!CountExecuted(w) \/ Telemetry!AddTime(w)
             \/ Telemetry!AddBusy(w) \/ Telemetry!CountWorker(w) \/ Telemetry!CountFailed(w)
      PROVE  PeakInv' /\ CurrentInv'
  <2>1. /\ step[w] \in {"timing", "executed", "time", "busy", "worker", "failed"}
        /\ \E to \in {"executed", "time", "busy", "worker", "idle"} : Telemetry!Goto(w, to)
        /\ reg' = reg \/ reg' = [reg EXCEPT ![w] = 0]
        /\ UNCHANGED <<Telemetry!Memory, Telemetry!History>>
    BY <1>5 DEF Telemetry!StoreTiming, Telemetry!CountExecuted, Telemetry!AddTime, Telemetry!AddBusy,
                Telemetry!CountWorker, Telemetry!CountFailed
  <2>2. PICK to \in {"executed", "time", "busy", "worker", "idle"} : Telemetry!Goto(w, to)
    BY <2>1
  <2>3. step' = [step EXCEPT ![w] = to] /\ \A x \in Threads : x # w => arg'[x] = arg[x]
    BY <1>0, <2>2 DEF Telemetry!Goto
  <2>4. current' = current /\ peak' = peak /\ sizes' = sizes /\ resets' = resets /\ toReset' = toReset
    BY <2>1 DEF Telemetry!Memory, Telemetry!History
  <2>5. \A x \in Threads : x # w => reg'[x] = reg[x]
    BY <1>0, <2>1
  <2>6. step'[w] \notin {"load", "exchange"} /\ \A x \in Threads : x # w => step'[x] = step[x]
    BY <1>0, <2>2, <2>3
  <2> QED BY <1>1, <2>1, <2>3, <2>4, <2>5, <2>6
<1>6. ASSUME NEW w \in Threads, NEW size \in Sizes, Telemetry!RecordMemory(w, size)
      PROVE  PeakInv' /\ CurrentInv'
  <2>1. /\ step[w] = "idle" /\ step'[w] = "load" /\ arg'[w] = size
        /\ \A x \in Threads : x # w => step'[x] = step[x] /\ arg'[x] = arg[x]
        /\ reg' = reg /\ current' = size /\ peak' = peak /\ sizes' = sizes \cup {size} /\ resets' = resets
    BY <1>0, <1>6 DEF Telemetry!RecordMemory, Telemetry!Begin
  <2>2. CurrentInv'
    BY <2>1 DEF CurrentInv
  <2>3. PeakInv'
    BY <2>1 DEF PeakInv
  <2> QED BY <2>2, <2>3
<1>7. ASSUME NEW w \in Threads, Telemetry!LoadPeak(w) PROVE PeakInv' /\ CurrentInv'
  <2>1. /\ step[w] = "load" /\ step'[w] = "exchange" /\ arg' = arg /\ reg'[w] = peak
        /\ \A x \in Threads : x # w => step'[x] = step[x] /\ reg'[x] = reg[x]
        /\ current' = current /\ peak' = peak /\ sizes' = sizes /\ resets' = resets /\ toReset' = toReset
    BY <1>0, <1>7 DEF Telemetry!LoadPeak, Telemetry!Goto, Telemetry!Memory, Telemetry!History
  <2>2. PeakInv'
    BY <1>0, <2>1 DEF PeakInv
  <2>3. CurrentInv'
    BY <1>0, <2>1 DEF CurrentInv
  <2> QED BY <2>2, <2>3
<1>8. ASSUME NEW w \in Threads, Telemetry!Exchange(w) PROVE PeakInv' /\ CurrentInv'
  <2>0. /\ step[w] = "exchange" /\ arg[w] \in sizes /\ arg[w] \in Nat /\ reg[w] \in Nat
        /\ \A x \in Threads : x # w => step'[x] = step[x] /\ reg'[x] = reg[x] /\ arg'[x] = arg[x]
        /\ current' = current /\ sizes' = sizes /\ resets' = resets /\ toReset' = toReset
    <3>1. step[w] = "exchange" /\ arg[w] \in sizes /\ arg[w] \in Nat /\ reg[w] \in Nat
      BY <1>0, <1>8 DEF Telemetry!Exchange
    <3>2. \A x \in Threads : x # w => step'[x] = step[x] /\ reg'[x] = reg[x] /\ arg'[x] = arg[x]
      BY <1>0, <1>8 DEF Telemetry!Exchange, Telemetry!Goto
    <3>3. current' = current /\ sizes' = sizes /\ resets' = resets /\ toReset' = toReset
      BY <1>8 DEF Telemetry!Exchange, Telemetry!History
    <3> QED BY <3>1, <3>2, <3>3
  <2>1. CASE arg[w] > reg[w] /\ peak # reg[w]
    <3>1. step' = step /\ arg' = arg /\ peak' = peak /\ reg'[w] = peak
      BY <1>0, <1>8, <2>1 DEF Telemetry!Exchange
    <3>2. PeakInv'
      BY <1>0, <2>0, <3>1 DEF PeakInv
    <3>3. CurrentInv'
      BY <1>0, <2>0, <3>1 DEF CurrentInv
    <3> QED BY <3>2, <3>3
  <2>2. CASE ~(arg[w] > reg[w] /\ peak # reg[w])
    <3>1. peak' = (IF arg[w] > reg[w] THEN arg[w] ELSE peak) /\ step'[w] = "idle"
      BY <1>0, <1>8, <2>2 DEF Telemetry!Exchange, Telemetry!Goto
    <3>2. peak' \in Nat /\ peak <= peak' /\ (arg[w] <= peak' \/ arg[w] <= reg[w])
      BY <1>0, <2>0, <2>2, <3>1
    <3>3. PeakInv'
      <4>1. ASSUME ~resets
            PROVE  /\ peak' \in {0} \cup sizes
                   /\ \A s \in sizes : s <= peak' \/ \E x \in Threads : step'[x] \in {"load", "exchange"} /\ arg'[x] = s
                   /\ \A x \in Threads : step'[x] = "exchange" => reg'[x] <= peak'
        <5>1. peak' \in {0} \cup sizes
          BY <2>0, <3>1, <4>1 DEF PeakInv
        <5>2. reg[w] <= peak
          BY <2>0, <4>1 DEF PeakInv
        <5>3. arg[w] <= peak'
          BY <1>0, <2>0, <3>2, <5>2
        <5>4. ASSUME NEW s \in sizes
              PROVE  s <= peak' \/ \E x \in Threads : step'[x] \in {"load", "exchange"} /\ arg'[x] = s
          <6>1. s \in Nat
            BY <1>0
          <6>2. s <= peak \/ \E x \in Threads : step[x] \in {"load", "exchange"} /\ arg[x] = s
            BY <4>1 DEF PeakInv
          <6>3. s <= peak => s <= peak'
            BY <1>0, <3>2, <6>1
          <6> QED BY <2>0, <5>3, <6>2, <6>3
        <5>5. ASSUME NEW x \in Threads, step'[x] = "exchange" PROVE reg'[x] <= peak'
          <6>1. x # w /\ step[x] = "exchange" /\ reg'[x] = reg[x] /\ reg[x] \in Nat
            BY <1>0, <2>0, <3>1, <5>5
          <6>2. reg[x] <= peak
            BY <4>1, <6>1 DEF PeakInv
          <6> QED BY <1>0, <3>2, <6>1, <6>2
        <5> QED BY <5>1, <5>4, <5>5
      <4> QED BY <2>0, <4>1 DEF PeakInv
    <3>4. CurrentInv'
      <4>1. CASE toReset # <<>>
        BY <2>0, <4>1 DEF CurrentInv
      <4>2. CASE current <= peak
        BY <1>0, <2>0, <3>2, <4>2 DEF CurrentInv
      <4>3. ASSUME NEW x \in Threads, arg[x] = current,
                   \/ step[x] = "load"
                   \/ step[x] = "exchange" /\ (arg[x] > reg[x] \/ reg[x] <= peak)
            PROVE  CurrentInv'
        <5>1. CASE x = w
          <6>1. current <= peak'
            BY <1>0, <2>0, <2>2, <3>1, <3>2, <4>3, <5>1
          <6> QED BY <2>0, <6>1 DEF CurrentInv
        <5>2. CASE x # w
          <6>1. step'[x] = step[x] /\ arg'[x] = arg[x] /\ reg'[x] = reg[x] /\ reg[x] \in Nat
            BY <1>0, <2>0, <5>2
          <6>2. reg[x] <= peak => reg[x] <= peak'
            BY <1>0, <3>2, <6>1
          <6> QED BY <2>0, <4>3, <6>1, <6>2 DEF CurrentInv
        <5> QED BY <5>1, <5>2
      <4> QED BY <4>1, <4>2, <4>3 DEF CurrentInv
    <3> QED BY <3>3, <3>4
  <2> QED BY <2>1, <2>2
<1>9. CASE Telemetry!Reset
  <2>1. resets' /\ toReset' = <<"executed", "failed", "totalTime", "timings", "started", "workers", "peak", "current">>
    BY <1>9 DEF Telemetry!Reset, Telemetry!ResetOrder
  <2>2. toReset' # <<>>
    BY <2>1
  <2> QED BY <2>1, <2>2 DEF PeakInv, CurrentInv
<1>10. CASE Telemetry!ResetNext
  <2>1. toReset # <<>> /\ resets' = resets /\ toReset' = Tail(toReset)
        /\ current' = IF Head(toReset) = "current" THEN 0 ELSE current
    BY <1>10 DEF Telemetry!ResetNext, Telemetry!Cleared
  <2>2. toReset \in Seq(Cells) /\ resets /\ toReset[Len(toReset)] = "current" /\ peak' \in Nat
    BY <2>1 DEF RecordingInv
  <2>3. toReset' = <<>> => current' = 0
    <3>1. Len(toReset) \in Nat \ {0} /\ Len(Tail(toReset)) = Len(toReset) - 1 /\ Head(toReset) = toReset[1]
      BY <2>1, <2>2, EmptySeq, LenProperties, HeadTailProperties
    <3>2. Tail(toReset) = <<>> => Len(Tail(toReset)) = 0
      BY EmptySeq
    <3>3. Len(Tail(toReset)) = 0 => Len(toReset) = 1
      <4>1. PICK n \in Nat : n = Len(toReset) /\ n - 1 = Len(Tail(toReset))
        BY <3>1
      <4>2. n - 1 = 0 => n = 1
        OBVIOUS
      <4> QED BY <4>1, <4>2
    <3> QED BY <2>1, <2>2, <3>1, <3>2, <3>3
  <2>4. toReset' # <<>> \/ current' <= peak'
    BY <2>2, <2>3
  <2> QED BY <2>1, <2>2, <2>4 DEF PeakInv, CurrentInv
<1> QED
  BY <1>2, <1>3, <1>4, <1>5, <1>6, <1>7, <1>8, <1>9, <1>10 DEF Telemetry!Next

LEMMA TelemetryInit ==
  ASSUME Telemetry!Init
  PROVE  TelemetryInv
<1>1. RecordingInv
  BY RecordingInit
<1>2. CountsInv
  <2>1. /\ Counted \in [Threads -> Nat] /\ Timed \in [Threads -> Nat]
        /\ Unadded \in [Threads -> Nat] /\ Uncounted \in [Threads -> Nat]
    BY <1>1, PartTypes
  <2>2. \A w \in Threads : Counted[w] = 0 /\ Timed[w] = 0 /\ Unadded[w] = 0 /\ Uncounted[w] = 0
    BY DEF Telemetry!Init, Counted, Timed, Unadded, Uncounted
  <2>3. /\ Telemetry!SumOver(Counted) = 0 /\ Telemetry!SumOver(Timed) = 0
        /\ Telemetry!SumOver(Unadded) = 0 /\ Telemetry!SumOver(Uncounted) = 0
    BY <2>1, <2>2, SumZero
  <2>4. executed = 0 /\ totalTime = 0 /\ Cardinality(timings) = 0
    BY FS_EmptySet DEF Telemetry!Init
  <2> QED BY <2>3, <2>4 DEF CountsInv
<1>3. PeakInv /\ CurrentInv
  BY DEF Telemetry!Init, PeakInv, CurrentInv
<1> QED BY <1>1, <1>2, <1>3 DEF TelemetryInv

LEMMA TelemetryStep ==
  ASSUME TelemetryInv, Telemetry!Next
  PROVE  TelemetryInv'
<1>1. RecordingInv /\ CountsInv /\ PeakInv /\ CurrentInv
  BY DEF TelemetryInv
<1>2. RecordingInv'
  BY <1>1, RecordingStep
<1>3. CountsInv'
  BY <1>1, <1>2, CountsStep
<1>4. PeakInv' /\ CurrentInv'
  BY <1>1, <1>2, PeakStep
<1> QED BY <1>2, <1>3, <1>4 DEF TelemetryInv

LEMMA TelemetryRest ==
  ASSUME TelemetryInv, UNCHANGED telemetryVars
  PROVE  TelemetryInv'
<1>1. /\ executed' = executed /\ totalTime' = totalTime /\ current' = current /\ peak' = peak
      /\ workerTasks' = workerTasks /\ workerBusy' = workerBusy /\ step' = step /\ reg' = reg
      /\ arg' = arg /\ timings' = timings /\ sizes' = sizes /\ toReset' = toReset /\ resets' = resets
  BY DEF telemetryVars
<1>2. Counted' = Counted /\ Timed' = Timed /\ Unadded' = Unadded /\ Uncounted' = Uncounted
  BY <1>1 DEF Counted, Timed, Unadded, Uncounted
<1>3. RecordingInv'
  BY <1>1 DEF TelemetryInv, RecordingInv
<1>4. CountsInv'
  BY <1>1, <1>2 DEF TelemetryInv, CountsInv
<1>5. PeakInv' /\ CurrentInv'
  BY <1>1 DEF TelemetryInv, PeakInv, CurrentInv
<1> QED BY <1>3, <1>4, <1>5 DEF TelemetryInv

\* What the invariant says of the counters when nobody is in a call, and always.
LEMMA CountersFollow ==
  ASSUME TelemetryInv
  PROVE  Telemetry!CountersAgree
<1>1. /\ Counted \in [Threads -> Nat] /\ Timed \in [Threads -> Nat]
      /\ Unadded \in [Threads -> Nat] /\ Uncounted \in [Threads -> Nat]
      /\ workerTasks \in [Threads -> Nat] /\ workerBusy \in [Threads -> Nat]
      /\ executed \in Nat /\ totalTime \in Nat /\ peak \in Nat /\ current \in Nat
  <2>1. RecordingInv
    BY DEF TelemetryInv
  <2> QED BY <2>1, PartTypes DEF RecordingInv
<1>2. ASSUME ~resets PROVE Telemetry!SumOver(workerTasks) <= executed
  <2>1. \A w \in Threads : workerTasks[w] <= Counted[w]
    BY <1>1 DEF Counted
  <2>2. Telemetry!SumOver(workerTasks) <= Telemetry!SumOver(Counted)
    BY <1>1, <2>1, SumBelow
  <2> QED BY <1>2, <2>2 DEF TelemetryInv, CountsInv
<1>3. ASSUME Telemetry!AtRest PROVE current <= peak
  <2>1. toReset = <<>> /\ \A w \in Threads : step[w] = "idle"
    BY <1>3 DEF Telemetry!AtRest
  <2> QED BY <2>1 DEF TelemetryInv, CurrentInv
<1>4. ASSUME Telemetry!AtRest, ~resets
      PROVE  /\ executed = Telemetry!SumOver(workerTasks) /\ totalTime = Telemetry!SumOver(workerBusy)
             /\ totalTime <= executed /\ Cardinality(timings) <= executed
  <2>1. \A w \in Threads : step[w] = "idle"
    BY <1>4 DEF Telemetry!AtRest
  <2>2. \A w \in Threads : Unadded[w] = 0 /\ Uncounted[w] = 0
    BY <2>1 DEF Unadded, Uncounted
  <2>3. Counted = workerTasks /\ Timed = workerBusy
    <3>1. \A w \in Threads : Counted[w] = workerTasks[w] /\ Timed[w] = workerBusy[w]
      BY <1>1, <2>1 DEF Counted, Timed
    <3> QED BY <1>1, <3>1
  <2>4. Telemetry!SumOver(Unadded) = 0 /\ Telemetry!SumOver(Uncounted) = 0
    BY <1>1, <2>2, SumZero
  <2>5. /\ executed = Telemetry!SumOver(Counted) /\ totalTime = Telemetry!SumOver(Timed)
        /\ totalTime + Telemetry!SumOver(Unadded) <= executed
        /\ Cardinality(timings) <= executed + Telemetry!SumOver(Uncounted)
    BY <1>4 DEF TelemetryInv, CountsInv
  <2>6. executed + 0 = executed /\ totalTime + 0 = totalTime
    BY <1>1
  <2> QED BY <2>3, <2>4, <2>5, <2>6
<1>5. ASSUME Telemetry!AtRest, ~resets PROVE peak = Telemetry!Max({0} \cup sizes)
  <2>1. \A w \in Threads : step[w] = "idle"
    BY <1>5 DEF Telemetry!AtRest
  <2>2. peak \in {0} \cup sizes /\ \A s \in sizes : s <= peak
    BY <1>5, <2>1 DEF TelemetryInv, PeakInv
  <2>3. {0} \cup sizes \subseteq Nat
    BY MonitoringAssumption DEF TelemetryInv, RecordingInv
  <2>4. \A s \in {0} \cup sizes : peak >= s
    BY <1>1, <2>2, <2>3
  <2>5. \A m \in {0} \cup sizes : (\A s \in {0} \cup sizes : m >= s) => m = peak
    BY <1>1, <2>2, <2>3, <2>4
  <2> QED BY <2>2, <2>4, <2>5 DEF Telemetry!Max
<1>6. ASSUME Telemetry!AtRest
      PROVE  /\ current <= peak
             /\ ~resets =>
                  /\ executed = Telemetry!SumOver(workerTasks) /\ totalTime = Telemetry!SumOver(workerBusy)
                  /\ totalTime <= executed
                  /\ Cardinality(timings) <= executed
                  /\ peak = Telemetry!Max({0} \cup sizes)
  BY <1>3, <1>4, <1>5, <1>6
<1>7. Telemetry!Cardinality(timings) = Cardinality(timings)
  BY Zenon DEF Telemetry!Cardinality, Cardinality
<1> HIDE DEF Telemetry!AtRest
<1> QED BY <1>2, <1>6, <1>7, Zenon DEF Telemetry!CountersAgree
-----------------------------------------------------------------------------
(* What the differences of a history add up to.                            *)

LEMMA GreatestBelow ==
  ASSUME NEW n \in Nat, NEW S \in SUBSET (1 .. n), S # {}
  PROVE  Board!Max(S) \in S
<1>1. PICK R : R = {n - x : x \in S}
  OBVIOUS
<1>2. R \subseteq Nat /\ R # {}
  <2>1. \A x \in S : x \in 1 .. n /\ n - x \in Nat
    OBVIOUS
  <2>2. R \subseteq Nat
    BY <1>1, <2>1
  <2>3. PICK x : x \in S
    OBVIOUS
  <2>4. n - x \in R
    BY <1>1, <2>3
  <2> QED BY <2>2, <2>4
<1>3. PICK m \in R : \A r \in R : m <= r
  BY <1>2, LeastNatural
<1>4. PICK x \in S : m = n - x
  BY <1>1, <1>3
<1>5. \A y \in S : x >= y
  <2>1. \A y \in S : y \in Nat /\ n - y \in R
    BY <1>1
  <2> QED BY <1>3, <1>4, <2>1
<1> QED BY <1>5 DEF Board!Max

LEMMA GreaterOfTwo ==
  ASSUME NEW a \in Int, NEW b \in Int
  PROVE  Board!Max({a, b}) = IF a >= b THEN a ELSE b
<1>1. PICK m : m = IF a >= b THEN a ELSE b
  OBVIOUS
<1>2. m \in {a, b} /\ m >= a /\ m >= b
  BY <1>1
<1>3. \A x \in {a, b} : x >= a /\ x >= b => x = m
  BY <1>1
<1> QED BY <1>1, <1>2, <1>3 DEF Board!Max

\* The differences of the samples of s.
Parts(s) == [i \in 1 .. Len(s) |-> s[i].delta]

LEMMA DeltasSum ==
  ASSUME NEW s \in Seq(Samples)
  PROVE  /\ Parts(s) \in [1 .. Len(s) -> Nat]
         /\ \E g : Sums(g, Parts(s), 1 .. Len(s)) /\ g[1 .. Len(s)] = Board!Deltas(s)
<1> DEFINE T == 1 .. Len(s)
<1> DEFINE iter == CHOOSE g : g = [S \in SUBSET DOMAIN s |->
                                     IF S = {} THEN 0 ELSE g[S \ {Board!Max(S)}] + s[Board!Max(S)].delta]
<1>1. Len(s) \in Nat /\ DOMAIN s = T /\ IsFiniteSet(T) /\ \A i \in T : s[i].delta \in Nat
  <2>1. Len(s) \in Nat /\ DOMAIN s = T /\ \A i \in T : s[i] \in Samples
    BY LenProperties
  <2>2. IsFiniteSet(T)
    BY <2>1, FS_Interval
  <2> QED BY <2>1, <2>2 DEF Samples
<1>2. PICK f \in [T -> Nat] : f = Parts(s)
  BY <1>1 DEF Parts
<1>3. \A i \in T : f[i] = s[i].delta
  BY <1>2 DEF Parts
<1>4. PICK c : c = [S \in SUBSET T |-> Board!Max(S)]
  OBVIOUS
<1>5. \A S \in SUBSET T : c[S] = Board!Max(S)
  BY <1>4
<1>6. \A S \in SUBSET T : S # {} => c[S] \in S
  BY <1>1, <1>5, GreatestBelow
<1> HIDE DEF T
<1>7. PICK h \in [T \X Nat -> Nat] : \A i \in T : \A v \in Nat : h[<<i, v>>] = f[i] + v
  <2>1. PICK h : h = [z \in T \X Nat |-> f[z[1]] + z[2]]
    OBVIOUS
  <2> QED BY <2>1
<1>8. PICK g : Folds(g, T, Nat, 0, c, h)
  BY <1>1, <1>6, FoldExists
<1>9. g \in [SUBSET T -> Nat] /\ \A S \in SUBSET T : g[S] = IF S = {} THEN 0 ELSE f[c[S]] + g[S \ {c[S]}]
  <2>1. g \in [SUBSET T -> Nat] /\ \A S \in SUBSET T : g[S] = IF S = {} THEN 0 ELSE h[<<c[S], g[S \ {c[S]}]>>]
    BY <1>8 DEF Folds
  <2>2. \A S \in SUBSET T : S # {} => c[S] \in T /\ g[S \ {c[S]}] \in Nat
    BY <1>6, <2>1
  <2> QED BY <1>7, <2>1, <2>2
<1>10. \A S \in SUBSET T : S # {} => g[S] = g[S \ {Board!Max(S)}] + s[Board!Max(S)].delta
  <2>1. \A S \in SUBSET T : S # {} => c[S] \in T /\ g[S \ {c[S]}] \in Nat /\ f[c[S]] \in Nat
    BY <1>2, <1>6, <1>9
  <2>2. ASSUME NEW S \in SUBSET T, S # {} PROVE g[S] = g[S \ {c[S]}] + f[c[S]]
    <3>1. g[S] = f[c[S]] + g[S \ {c[S]}]
      BY <1>9, <2>2
    <3>2. PICK m \in Nat, k \in Nat : m = f[c[S]] /\ k = g[S \ {c[S]}]
      BY <2>1, <2>2
    <3> QED BY <3>1, <3>2
  <2> QED BY <1>3, <1>5, <2>1, <2>2
<1>11. g = [S \in SUBSET T |-> IF S = {} THEN 0 ELSE g[S \ {Board!Max(S)}] + s[Board!Max(S)].delta]
  BY <1>9, <1>10
<1>12. iter = [S \in SUBSET T |-> IF S = {} THEN 0 ELSE iter[S \ {Board!Max(S)}] + s[Board!Max(S)].delta]
  BY <1>1, <1>11
<1>13. Board!Deltas(s) = iter[T]
  BY <1>1 DEF Board!Deltas, Board!FoldLeft, Board!MapThenFoldSet
<1> HIDE DEF iter
<1>14. iter[T] = g[T]
  <2>1. PICK k : k = iter
    OBVIOUS
  <2>2. \A S \in SUBSET T : k[S] = IF S = {} THEN 0 ELSE k[S \ {Board!Max(S)}] + s[Board!Max(S)].delta
    BY <1>12, <2>1
  <2>3. k[{}] = g[{}]
    BY <1>9, <2>2
  <2>4. \A S \in SUBSET T : S # {} /\ k[S \ {c[S]}] = g[S \ {c[S]}] => k[S] = g[S]
    <3> SUFFICES ASSUME NEW S \in SUBSET T, S # {}, k[S \ {c[S]}] = g[S \ {c[S]}]
                 PROVE  k[S] = g[S]
      OBVIOUS
    <3>1. PICK m : m = c[S] /\ m = Board!Max(S)
      BY <1>5
    <3>2. k[S] = k[S \ {m}] + s[m].delta
      BY <2>2, <3>1
    <3>3. g[S] = g[S \ {m}] + s[m].delta
      BY <1>10, <3>1
    <3> QED BY <3>1, <3>2, <3>3
  <2>5. Follows(k, g, T, c)
    BY <1>6, <2>3, <2>4 DEF Follows
  <2>6. \A S \in SUBSET T : k[S] = g[S]
    BY <1>1, <2>5, FoldUnique
  <2> QED BY <2>1, <2>6
<1>15. Sums(g, f, T)
  BY <1>1, <1>6, <1>9, SumAnyOrder
<1> QED BY <1>2, <1>13, <1>14, <1>15 DEF T

LEMMA DeltasEmpty ==
  Board!Deltas(<<>>) = 0
<1>1. <<>> \in Seq(Samples) /\ Len(<<>>) = 0 /\ 1 .. 0 = {}
  OBVIOUS
<1>2. PICK g : Sums(g, Parts(<<>>), 1 .. Len(<<>>)) /\ g[1 .. Len(<<>>)] = Board!Deltas(<<>>)
  BY <1>1, DeltasSum
<1> QED BY <1>1, <1>2 DEF Sums

LEMMA DeltasNat ==
  ASSUME NEW s \in Seq(Samples)
  PROVE  Board!Deltas(s) \in Nat
<1>1. PICK g : Sums(g, Parts(s), 1 .. Len(s)) /\ g[1 .. Len(s)] = Board!Deltas(s)
  BY DeltasSum
<1> QED BY <1>1 DEF Sums

\* Two sums of the same over the same set are equal.
LEMMA SumsAgree ==
  ASSUME NEW T, IsFiniteSet(T), NEW f \in [T -> Nat], NEW d, NEW g, Sums(d, f, T), Sums(g, f, T)
  PROVE  d[T] = g[T]
<1>1. T \in SUBSET T /\ \A x \in T : f[x] <= f[x]
  OBVIOUS
<1>2. d[T] <= g[T] /\ g[T] <= d[T]
  BY <1>1, SumMonotone
<1>3. d[T] \in Nat /\ g[T] \in Nat
  BY DEF Sums
<1> QED BY <1>2, <1>3

LEMMA DeltasAppend ==
  ASSUME NEW s \in Seq(Samples), NEW e \in Samples
  PROVE  Board!Deltas(Append(s, e)) = Board!Deltas(s) + e.delta
<1>1. PICK t \in Seq(Samples), n \in Nat :
        /\ t = Append(s, e) /\ n = Len(s) /\ Len(t) = n + 1
        /\ t[n + 1] = e /\ \A i \in 1 .. n : t[i] = s[i]
  <2>1. /\ Append(s, e) \in Seq(Samples) /\ Len(s) \in Nat /\ Len(Append(s, e)) = Len(s) + 1
        /\ \A i \in 1 .. Len(s) : Append(s, e)[i] = s[i]
    BY AppendProperties, LenProperties
  <2>2. Append(s, e)[Len(s) + 1] = e
    BY AppendProperties
  <2> QED BY <2>1, <2>2
<1>2. PICK d : Sums(d, Parts(t), 1 .. n + 1) /\ d[1 .. n + 1] = Board!Deltas(t)
  BY <1>1, DeltasSum
<1>3. PICK g : Sums(g, Parts(s), 1 .. n) /\ g[1 .. n] = Board!Deltas(s)
  BY <1>1, DeltasSum
<1>4. PICK k : k = [S \in SUBSET (1 .. n) |-> d[S]]
  OBVIOUS
<1>5. Parts(t)[n + 1] = e.delta /\ \A i \in 1 .. n : Parts(t)[i] = Parts(s)[i] /\ i \in 1 .. n + 1
  BY <1>1 DEF Parts
<1>6. Sums(k, Parts(s), 1 .. n)
  <2>1. \A S \in SUBSET (1 .. n) : S \in SUBSET (1 .. n + 1)
    BY <1>5
  <2>2. \A S \in SUBSET (1 .. n) : k[S] = d[S]
    BY <1>4
  <2>3. k \in [SUBSET (1 .. n) -> Nat]
    BY <1>2, <1>4, <2>1 DEF Sums
  <2>4. k[{}] = 0
    BY <1>2, <2>2 DEF Sums
  <2>5. ASSUME NEW S \in SUBSET (1 .. n), NEW x \in S PROVE k[S] = Parts(s)[x] + k[S \ {x}]
    <3>1. d[S] = Parts(t)[x] + d[S \ {x}]
      BY <1>2, <2>1 DEF Sums
    <3> QED BY <1>5, <2>2, <3>1
  <2> QED BY <2>3, <2>4, <2>5 DEF Sums
<1>7. k[1 .. n] = g[1 .. n]
  <2>1. IsFiniteSet(1 .. n)
    BY FS_Interval
  <2>2. Parts(s) \in [1 .. n -> Nat]
    BY <1>1, DeltasSum
  <2> QED BY <1>3, <1>6, <2>1, <2>2, SumsAgree
<1>8. d[1 .. n + 1] = e.delta + d[1 .. n]
  <2>1. n + 1 \in 1 .. n + 1 /\ (1 .. n + 1) \ {n + 1} = 1 .. n
    BY <1>1
  <2>2. d[1 .. n + 1] = Parts(t)[n + 1] + d[(1 .. n + 1) \ {n + 1}]
    <3>1. PICK T, f, x : T = 1 .. n + 1 /\ f = Parts(t) /\ x = n + 1
      OBVIOUS
    <3>2. Sums(d, f, T) /\ x \in T
      BY <1>2, <2>1, <3>1
    <3>3. d[T] = f[x] + d[T \ {x}]
      BY <3>2, SumsAt
    <3> QED BY <3>1, <3>3
  <2> QED BY <1>5, <2>1, <2>2
<1>9. d[1 .. n] = k[1 .. n]
  BY <1>4
<1>10. e.delta \in Nat /\ Board!Deltas(s) \in Nat
  BY DeltasNat DEF Samples
<1> QED BY <1>1, <1>2, <1>3, <1>7, <1>8, <1>9, <1>10

LEMMA DeltasTail ==
  ASSUME NEW s \in Seq(Samples), s # <<>>
  PROVE  Board!Deltas(Tail(s)) <= Board!Deltas(s)
<1>1. PICK t \in Seq(Samples), n \in Nat :
        /\ t = Tail(s) /\ n = Len(t) /\ Len(s) = n + 1 /\ \A i \in 1 .. n : t[i] = s[i + 1]
  <2>1. Len(s) \in Nat \ {0} /\ Tail(s) \in Seq(Samples) /\ Len(Tail(s)) = Len(s) - 1
        /\ \A i \in 1 .. Len(Tail(s)) : Tail(s)[i] = s[i + 1]
    BY EmptySeq, LenProperties, HeadTailProperties
  <2>2. Len(Tail(s)) \in Nat /\ Len(s) = Len(Tail(s)) + 1
    BY <2>1
  <2> QED BY <2>1, <2>2
<1>2. PICK d : Sums(d, Parts(s), 1 .. n + 1) /\ d[1 .. n + 1] = Board!Deltas(s)
  BY <1>1, DeltasSum
<1>3. PICK g : Sums(g, Parts(t), 1 .. n) /\ g[1 .. n] = Board!Deltas(t)
  BY <1>1, DeltasSum
<1> DEFINE Up(S) == {i + 1 : i \in S}
<1>4. \A S \in SUBSET (1 .. n) :
        /\ Up(S) \in SUBSET (1 .. n + 1)
        /\ \A x \in S : x + 1 \in Up(S) /\ Up(S \ {x}) = Up(S) \ {x + 1}
  OBVIOUS
<1>5. Up({}) = {} /\ Up(1 .. n) = (1 .. n + 1) \ {1}
  <2>1. ASSUME NEW x \in (1 .. n + 1) \ {1} PROVE x - 1 \in 1 .. n /\ x = (x - 1) + 1
    OBVIOUS
  <2>2. \A x \in 1 .. n : x + 1 \in (1 .. n + 1) \ {1}
    OBVIOUS
  <2>3. (1 .. n + 1) \ {1} \subseteq Up(1 .. n)
    BY <2>1
  <2> QED BY <2>2, <2>3
<1>6. \A i \in 1 .. n : Parts(t)[i] = Parts(s)[i + 1]
  BY <1>1 DEF Parts
<1> HIDE DEF Up
<1>7. PICK k : k = [S \in SUBSET (1 .. n) |-> d[Up(S)]]
  OBVIOUS
<1>8. Sums(k, Parts(t), 1 .. n)
  <2>1. \A S \in SUBSET (1 .. n) : k[S] = d[Up(S)]
    BY <1>7
  <2>2. k \in [SUBSET (1 .. n) -> Nat]
    BY <1>2, <1>4, <1>7 DEF Sums
  <2>3. k[{}] = 0
    BY <1>2, <1>5, <2>1 DEF Sums
  <2>4. ASSUME NEW S \in SUBSET (1 .. n), NEW x \in S PROVE k[S] = Parts(t)[x] + k[S \ {x}]
    <3>1. Up(S) \in SUBSET (1 .. n + 1) /\ x + 1 \in Up(S) /\ Up(S \ {x}) = Up(S) \ {x + 1}
      BY <1>4
    <3>2. d[Up(S)] = Parts(s)[x + 1] + d[Up(S) \ {x + 1}]
      BY <1>2, <3>1 DEF Sums
    <3> QED BY <1>6, <2>1, <3>1, <3>2
  <2> QED BY <2>2, <2>3, <2>4 DEF Sums
<1>9. k[1 .. n] = g[1 .. n]
  <2>1. IsFiniteSet(1 .. n)
    BY FS_Interval
  <2>2. Parts(t) \in [1 .. n -> Nat]
    BY <1>1, DeltasSum
  <2> QED BY <1>3, <1>8, <2>1, <2>2, SumsAgree
<1>10. d[1 .. n + 1] = Parts(s)[1] + k[1 .. n]
  <2>1. 1 \in 1 .. n + 1
    BY <1>1
  <2>2. d[1 .. n + 1] = Parts(s)[1] + d[(1 .. n + 1) \ {1}]
    <3>1. PICK T, f, x : T = 1 .. n + 1 /\ f = Parts(s) /\ x = 1
      OBVIOUS
    <3>2. Sums(d, f, T) /\ x \in T
      BY <1>2, <2>1, <3>1
    <3>3. d[T] = f[x] + d[T \ {x}]
      BY <3>2, SumsAt
    <3> QED BY <3>1, <3>3
  <2>3. k[1 .. n] = d[Up(1 .. n)]
    BY <1>7
  <2> QED BY <1>5, <2>2, <2>3
<1>11. Parts(s)[1] \in Nat /\ Board!Deltas(t) \in Nat
  <2>1. Parts(s) \in [1 .. n + 1 -> Nat] /\ 1 \in 1 .. n + 1
    BY <1>1, DeltasSum
  <2> QED BY <2>1, DeltasNat
<1> QED BY <1>1, <1>2, <1>3, <1>9, <1>10, <1>11
-----------------------------------------------------------------------------
(* The dashboard.                                                          *)

LEMMA SampleStep ==
  ASSUME SampleInv, Board!Next
  PROVE  SampleInv'
<1> DEFINE Conns == {"away", "request", "replay", "check", "latest", "write", "over"}
<1>1. CASE Board!RecordTaskCompletion
  BY <1>1 DEF Board!RecordTaskCompletion, Board!CollectorVars, Board!ClientVars, SampleInv
<1>2. CASE Board!ResetMetrics
  BY <1>2 DEF Board!ResetMetrics, Board!CollectorVars, Board!ClientVars, SampleInv
<1>3. CASE Board!Stop \/ Board!Joined \/ Board!Drop
  <2>1. UNCHANGED <<Board!MetricsVars, server, Board!CollectorVars, history, Board!ClientVars>>
    BY <1>3 DEF Board!Stop, Board!Joined, Board!Drop
  <2> QED BY <2>1 DEF Board!MetricsVars, Board!CollectorVars, Board!ClientVars, SampleInv
<1>4. CASE Board!Bind
  BY <1>4 DEF Board!Bind, Board!MetricsVars, Board!ClientVars, SampleInv
<1>5. CASE Board!CheckShutdown
  BY <1>5 DEF Board!CheckShutdown, Board!MetricsVars, Board!CollectorVars, Board!ClientVars, SampleInv
<1>6. CASE Board!Accept
  <2>1. conn' \in [Clients -> Conns]
    BY <1>6 DEF Board!Accept, SampleInv
  <2> QED BY <1>6, <2>1 DEF Board!Accept, Board!MetricsVars, Board!CollectorVars, SampleInv
<1>7. CASE Board!CheckCollector
  BY <1>7 DEF Board!CheckCollector, Board!MetricsVars, Board!ClientVars, SampleInv
<1>8. CASE Board!Sample
  <2>1. completed \in Nat /\ lastSeen \in Nat /\ samples \in Nat
    BY DEF SampleInv
  <2>2. completed - lastSeen \in Int
    BY <2>1
  <2>3. Board!Max({0, completed - lastSeen}) \in Nat
    BY <2>2, GreaterOfTwo
  <2>4. snap' = [n |-> samples + 1, completed |-> completed, delta |-> Board!Max({0, completed - lastSeen})]
        /\ samples' = samples + 1 /\ lastSeen' = completed
    BY <1>8 DEF Board!Sample
  <2>5. snap' \in Samples /\ snap'.n = samples' /\ lastSeen' = snap'.completed
    BY <2>1, <2>3, <2>4 DEF Samples
  <2> QED BY <1>8, <2>1, <2>4, <2>5 DEF Board!Sample, Board!MetricsVars, Board!ClientVars, SampleInv
<1>9. CASE Board!Push
  <2>1. history' \in Seq(Samples)
    <3>1. history \in Seq(Samples) /\ snap \in Samples
      BY DEF SampleInv
    <3>2. history # <<>> => Tail(history) \in Seq(Samples)
      BY <3>1, HeadTailProperties
    <3>3. \E s \in Seq(Samples) : history' = Append(s, snap)
      BY <1>9, <3>1, <3>2 DEF Board!Push
    <3> QED BY <3>1, <3>3, AppendProperties
  <2> QED BY <1>9, <2>1 DEF Board!Push, Board!MetricsVars, Board!ClientVars, SampleInv
<1>10. ASSUME NEW c \in Clients,
              \/ Board!Fails(c) \/ Board!ServeSnapshot(c) \/ Board!BeginReplay(c) \/ Board!Replay(c)
              \/ Board!EndReplay(c) \/ Board!CheckClient(c) \/ Board!Latest(c)
       PROVE  SampleInv'
  <2>1. UNCHANGED Board!ServerVars
    BY <1>10 DEF Board!Fails, Board!ServeSnapshot, Board!BeginReplay, Board!Replay, Board!EndReplay,
                 Board!CheckClient, Board!Latest
  <2>2. conn' = conn \/ \E to \in Conns : conn' = [conn EXCEPT ![c] = to]
    BY <1>10 DEF Board!Fails, Board!ServeSnapshot, Board!BeginReplay, Board!Replay, Board!EndReplay,
                 Board!CheckClient, Board!Latest, Board!Goes
  <2>3. conn' \in [Clients -> Conns]
    BY <2>2 DEF SampleInv
  <2>4. history \in Seq(Samples) /\ received \in [Clients -> Seq(Samples)]
    BY DEF SampleInv
  <2>5. /\ history # <<>> => Board!Last(history) \in Samples
        /\ Board!Replay(c) => history[Len(received[c]) + 1] \in Samples
    <3>1. Len(history) \in Nat /\ Len(received[c]) \in Nat /\ \A i \in 1 .. Len(history) : history[i] \in Samples
      BY <2>4, LenProperties
    <3>2. history # <<>> => Len(history) \in 1 .. Len(history)
      BY <2>4, <3>1, EmptySeq
    <3>3. Board!Replay(c) => Len(received[c]) + 1 \in 1 .. Len(history)
      BY <3>1 DEF Board!Replay
    <3> QED BY <3>1, <3>2, <3>3 DEF Board!Last
  <2>6. received' = received \/ \E s \in Samples : received' = [received EXCEPT ![c] = Append(@, s)]
    BY <1>10, <2>5 DEF Board!Fails, Board!ServeSnapshot, Board!BeginReplay, Board!Replay, Board!EndReplay,
                 Board!CheckClient, Board!Latest, Board!Sent
  <2>7. received' \in [Clients -> Seq(Samples)]
    <3>1. received[c] \in Seq(Samples)
      BY <2>4
    <3>2. \A s \in Samples : Append(received[c], s) \in Seq(Samples)
      BY <3>1, AppendProperties
    <3> QED BY <2>4, <2>6, <3>2
  <2> QED BY <2>1, <2>3, <2>7 DEF Board!ServerVars, Board!MetricsVars, Board!CollectorVars, SampleInv
<1> QED
  BY <1>1, <1>2, <1>3, <1>4, <1>5, <1>6, <1>7, <1>8, <1>9, <1>10 DEF Board!Next, Board!ServerStep

\* The history and what the collector holds do not change.
LEMMA HistoryKept ==
  ASSUME SampleInv, SampleInv', HistoryInv, history' = history, samples' = samples, lastSeen' = lastSeen,
         snap' = snap, collector' = "push" <=> collector = "push", wasReset => wasReset',
         finished <= finished', completed' + finished <= completed + finished'
  PROVE  HistoryInv'
<1>1. Spent' = Spent
  BY DEF Spent
<1>2. Spent \in Nat
  <2>1. history \in Seq(Samples) /\ snap.delta \in Nat
    BY DEF SampleInv, Samples
  <2> QED BY <2>1, DeltasNat DEF Spent
<1>3. completed \in Nat /\ completed' \in Nat /\ finished \in Nat /\ finished' \in Nat /\ lastSeen \in Nat
  BY DEF SampleInv
<1>4. Spent <= finished /\ Spent + (completed - lastSeen) <= finished
  BY DEF HistoryInv
<1>5. Spent' <= finished' /\ Spent' + (completed' - lastSeen') <= finished'
  <2>1. PICK z \in Nat : z = Spent /\ z = Spent'
    BY <1>1, <1>2
  <2>2. z <= finished /\ z + (completed - lastSeen) <= finished
    BY <1>4, <2>1
  <2>3. z <= finished' /\ z + (completed' - lastSeen) <= finished'
    <3>1. ASSUME NEW y \in Nat, NEW a \in Nat, NEW b \in Nat, NEW l \in Nat, NEW f \in Nat, NEW g \in Nat,
                 f <= g, b + f <= a + g, y <= f, y + (a - l) <= f
          PROVE  y <= g /\ y + (b - l) <= g
      <4>1. y <= g
        BY <3>1
      <4>2. y + (b - l) <= g
        BY <3>1
      <4> QED BY <4>1, <4>2
    <3> QED BY <1>3, <2>2, <3>1
  <2> HIDE DEF Spent
  <2> QED BY <2>1, <2>3
<1> HIDE DEF Spent
<1> QED BY <1>5 DEF HistoryInv

LEMMA HistoryStep ==
  ASSUME SampleInv, SampleInv', HistoryInv, Board!Next
  PROVE  HistoryInv'
<1>0. /\ completed \in Nat /\ finished \in Nat /\ samples \in Nat /\ lastSeen \in Nat
      /\ snap.n \in Nat /\ snap.completed \in Nat /\ snap.delta \in Nat
      /\ history \in Seq(Samples) /\ Board!Deltas(history) \in Nat /\ Len(history) \in Nat
      /\ \A i \in 1 .. Len(history) :
           history[i].n \in Nat /\ history[i].completed \in Nat /\ history[i].delta \in Nat
  <2>1. history \in Seq(Samples) /\ snap \in Samples
    BY DEF SampleInv
  <2>2. Len(history) \in Nat /\ \A i \in 1 .. Len(history) : history[i] \in Samples
    BY <2>1, LenProperties
  <2> QED BY <2>1, <2>2, DeltasNat DEF SampleInv, Samples
<1>1. CASE Board!RecordTaskCompletion
  BY <1>0, <1>1, HistoryKept DEF Board!RecordTaskCompletion, Board!CollectorVars
<1>2. CASE Board!ResetMetrics
  BY <1>0, <1>2, HistoryKept DEF Board!ResetMetrics, Board!CollectorVars
<1>3. CASE Board!Stop \/ Board!Joined \/ Board!Drop \/ Board!CheckShutdown \/ Board!Accept
  <2>1. UNCHANGED <<Board!MetricsVars, Board!CollectorVars, history>>
    BY <1>3 DEF Board!Stop, Board!Joined, Board!Drop, Board!CheckShutdown, Board!Accept
  <2> QED BY <1>0, <2>1, HistoryKept DEF Board!MetricsVars, Board!CollectorVars
<1>4. CASE Board!Bind
  <2>1. collector # "push" /\ collector' # "push"
    BY <1>4 DEF Board!Bind, SampleInv
  <2> QED BY <1>0, <1>4, <2>1, HistoryKept DEF Board!Bind, Board!MetricsVars
<1>5. CASE Board!CheckCollector
  BY <1>0, <1>5, HistoryKept DEF Board!CheckCollector, Board!MetricsVars
<1>6. CASE Board!Sample
  <2>1. /\ collector = "sample" /\ collector' = "push" /\ samples' = samples + 1 /\ lastSeen' = completed
        /\ snap' = [n |-> samples + 1, completed |-> completed, delta |-> Board!Max({0, completed - lastSeen})]
        /\ completed' = completed /\ finished' = finished /\ wasReset' = wasReset /\ history' = history
    BY <1>6 DEF Board!Sample, Board!MetricsVars
  <2>2. PICK gap \in Nat : /\ gap = Board!Max({0, completed - lastSeen}) /\ snap'.delta = gap
                           /\ gap = 0 \/ gap = completed - lastSeen
                           /\ lastSeen <= completed => gap = completed - lastSeen
    <3>1. completed - lastSeen \in Int
      BY <1>0
    <3>2. Board!Max({0, completed - lastSeen}) = IF 0 >= completed - lastSeen THEN 0 ELSE completed - lastSeen
      BY <3>1, GreaterOfTwo
    <3>3. snap'.delta = Board!Max({0, completed - lastSeen})
      BY <2>1
    <3> QED BY <1>0, <3>2, <3>3
  <2>3. Spent = Board!Deltas(history) /\ Spent' = Board!Deltas(history) + gap
    <3>1. Spent = Board!Deltas(history) + 0
      BY <2>1 DEF Spent
    <3>2. Spent' = Board!Deltas(history) + gap
      BY <2>1, <2>2 DEF Spent
    <3> QED BY <1>0, <3>1, <3>2
  <2>4. Spent' <= finished' /\ Spent' + (completed' - lastSeen') <= finished'
    <3>1. Spent <= finished /\ Spent + (completed - lastSeen) <= finished
      BY DEF HistoryInv
    <3>2. Board!Deltas(history) + gap <= finished
      BY <1>0, <2>2, <2>3, <3>1
    <3> QED BY <1>0, <2>1, <2>3, <3>2
  <2>5. history # <<>> => /\ history[Len(history)].n = samples
                          /\ history[Len(history)].completed = lastSeen
    BY <2>1 DEF HistoryInv
  <2>6. \A i \in 1 .. Len(history) : history[i].n \in 1 .. samples + 1
    BY <1>0 DEF HistoryInv
  <2>7. ~wasReset => gap = completed - lastSeen /\ completed = lastSeen + gap
    BY <1>0, <2>2 DEF SampleInv
  <2> HIDE DEF Spent
  <2> QED BY <2>1, <2>2, <2>4, <2>5, <2>6, <2>7 DEF HistoryInv
<1>7. CASE Board!Push
  <2>1. /\ collector = "push" /\ collector' = "check" /\ samples' = samples /\ lastSeen' = lastSeen
        /\ snap' = snap /\ completed' = completed /\ finished' = finished /\ wasReset' = wasReset
        /\ snap.n = samples /\ lastSeen = snap.completed /\ samples > 0
    BY <1>7 DEF Board!Push, Board!MetricsVars, SampleInv
  <2>2. PICK old \in Seq(Samples), k \in {0, 1}, m \in Nat :
          /\ history' = Append(old, snap) /\ m = Len(old) /\ Len(history) = m + k
          /\ \A i \in 1 .. m : old[i] = history[i + k]
          /\ Board!Deltas(old) <= Board!Deltas(history)
          /\ k = 1 \/ m = 0 \/ m < HistoryLen
    <3>1. CASE Len(history) >= HistoryLen /\ history # <<>>
      <4>1. history' = Append(Tail(history), snap)
        BY <1>7, <3>1 DEF Board!Push
      <4>2. /\ Tail(history) \in Seq(Samples) /\ Len(Tail(history)) = Len(history) - 1
            /\ \A i \in 1 .. Len(Tail(history)) : Tail(history)[i] = history[i + 1]
        BY <1>0, <3>1, HeadTailProperties
      <4>3. Board!Deltas(Tail(history)) <= Board!Deltas(history)
        BY <1>0, <3>1, DeltasTail
      <4>4. Len(Tail(history)) \in Nat /\ Len(history) = Len(Tail(history)) + 1
        BY <1>0, <4>2, LenProperties
      <4> QED BY <4>1, <4>2, <4>3, <4>4
    <3>2. CASE ~(Len(history) >= HistoryLen /\ history # <<>>)
      <4>1. history' = Append(history, snap)
        BY <1>7, <3>2 DEF Board!Push
      <4>2. Len(history) = 0 \/ Len(history) < HistoryLen
        BY <1>0, <3>2, MonitoringAssumption
      <4>3. Len(history) = Len(history) + 0 /\ \A i \in 1 .. Len(history) : history[i] = history[i + 0]
        BY <1>0
      <4>4. Board!Deltas(history) <= Board!Deltas(history)
        BY <1>0
      <4> QED BY <1>0, <4>1, <4>2, <4>3, <4>4
    <3> QED BY <3>1, <3>2
  <2>3. PICK new \in Seq(Samples) :
          /\ new = history' /\ Len(new) = m + 1 /\ new[m + 1] = snap
          /\ \A i \in 1 .. m : new[i] = history[i + k] /\ i + k \in 1 .. Len(history)
    <3>1. snap \in Samples
      BY DEF SampleInv
    <3>2. /\ Append(old, snap) \in Seq(Samples) /\ Len(Append(old, snap)) = m + 1
          /\ \A i \in 1 .. m : Append(old, snap)[i] = old[i]
      BY <2>2, <3>1, AppendProperties
    <3>3. Append(old, snap)[m + 1] = snap
      BY <2>2, <3>1, AppendProperties
    <3>4. \A i \in 1 .. m : i + k \in 1 .. Len(history)
      BY <2>2
    <3> QED BY <2>2, <3>2, <3>3, <3>4
  <2>4. Len(new) <= Board!Max({1, HistoryLen})
    <3>1. Board!Max({1, HistoryLen}) = IF 1 >= HistoryLen THEN 1 ELSE HistoryLen
      BY MonitoringAssumption, GreaterOfTwo
    <3>2. Len(history) <= Board!Max({1, HistoryLen})
      BY DEF HistoryInv
    <3> QED BY <2>2, <2>3, <3>1, <3>2, MonitoringAssumption
  <2>5. Spent' <= finished' /\ Spent' + (completed' - lastSeen') <= finished'
    <3>1. Spent <= finished /\ Spent + (completed - lastSeen) <= finished
      BY DEF HistoryInv
    <3>2. Spent = Board!Deltas(history) + snap.delta
      BY <2>1 DEF Spent
    <3>3. snap \in Samples /\ Board!Deltas(old) \in Nat
      BY DeltasNat DEF SampleInv
    <3>4. Board!Deltas(history') = Board!Deltas(old) + snap.delta
      BY <2>2, <3>3, DeltasAppend
    <3>5. Spent' = Board!Deltas(history') + 0
      BY <2>1 DEF Spent
    <3>6. PICK d \in Nat, e \in Nat, x \in Nat :
            d = Board!Deltas(old) /\ e = Board!Deltas(history) /\ x = snap.delta
      BY <1>0, <3>3
    <3>7. Spent = e + x /\ Spent' = d + x + 0 /\ d <= e
      BY <2>2, <3>2, <3>4, <3>5, <3>6
    <3>8. d + x <= finished /\ d + x + (completed - lastSeen) <= finished
      <4>1. e + x <= finished /\ e + x + (completed - lastSeen) <= finished
        BY <3>1, <3>7
      <4>2. ASSUME NEW a \in Nat, NEW l \in Nat, NEW f \in Nat, e + x <= f, e + x + (a - l) <= f
            PROVE  d + x <= f /\ d + x + (a - l) <= f
        <5>1. d + x <= f
          BY <3>7, <4>2
        <5>2. d + x + (a - l) <= f
          BY <3>7, <4>2
        <5> QED BY <5>1, <5>2
      <4> QED BY <1>0, <4>1, <4>2
    <3>9. Spent' = d + x
      BY <3>6, <3>7
    <3> HIDE DEF Spent
    <3> QED BY <2>1, <3>8, <3>9
  <2>6. Len(history) >= 1 => /\ history[Len(history)].n + 1 = samples
                             /\ ~wasReset => snap.completed = history[Len(history)].completed + snap.delta
    <3>1. Len(history) >= 1 => history # <<>>
      BY EmptySeq
    <3> QED BY <2>1, <3>1 DEF HistoryInv
  <2>7. \A i \in 1 .. m + 1 : new[i].n \in 1 .. samples /\ new[i].n + (m + 1) - i = samples
    <3>1. new[m + 1].n \in 1 .. samples /\ new[m + 1].n + (m + 1) - (m + 1) = samples
      BY <1>0, <2>1, <2>3
    <3>2. ASSUME NEW i \in 1 .. m PROVE new[i].n \in 1 .. samples /\ new[i].n + (m + 1) - i = samples
      <4>1. new[i] = history[i + k] /\ i + k \in 1 .. Len(history) /\ Len(history) = m + k
        BY <2>2, <2>3
      <4>2. PICK z \in Nat : z = history[i + k].n
        BY <1>0, <4>1
      <4>3. z \in 1 .. samples /\ z + (m + k) - (i + k) = history[Len(history)].n
        BY <4>1, <4>2 DEF HistoryInv
      <4>4. Len(history) \in 1 .. Len(history) /\ Len(history) >= 1
        BY <1>0, <4>1
      <4>6. PICK top \in Nat : top = history[Len(history)].n /\ top + 1 = samples
        BY <1>0, <2>6, <4>4
      <4>7. z + (m + k) - (i + k) = top
        BY <4>3, <4>6
      <4>5. z + (m + 1) - i = samples
        <5>1. i \in Nat /\ k \in Nat
          BY <2>2
        <5>2. z + (m + k) - (i + k) = z + m - i
          BY <5>1
        <5>3. z + (m + 1) - i = (z + m - i) + 1
          BY <5>1
        <5> QED BY <4>6, <4>7, <5>2, <5>3
      <4> QED BY <4>1, <4>2, <4>3, <4>5
    <3>3. \A i \in 1 .. m + 1 : i = m + 1 \/ i \in 1 .. m
      OBVIOUS
    <3> QED BY <3>1, <3>2, <3>3
  <2>8. ASSUME ~wasReset, NEW i \in 1 .. m PROVE new[i + 1].completed = new[i].completed + new[i + 1].delta
    <3>1. new[i] = history[i + k] /\ i + k \in 1 .. Len(history) /\ Len(history) = m + k
      BY <2>2, <2>3
    <3>2. CASE i = m
      <4>1. new[i + 1] = snap /\ i + k = Len(history) /\ Len(history) >= 1
        BY <1>0, <2>3, <3>1, <3>2
      <4> QED BY <2>6, <2>8, <3>1, <4>1
    <3>3. CASE i # m
      <4>1. i + 1 \in 1 .. m /\ (i + 1) + k = (i + k) + 1 /\ i + k \in 1 .. Len(history) - 1
        BY <3>1, <3>3
      <4>2. new[i + 1] = history[(i + k) + 1]
        BY <2>3, <4>1
      <4>3. history[(i + k) + 1].completed = history[i + k].completed + history[(i + k) + 1].delta
        BY <2>8, <4>1 DEF HistoryInv
      <4> QED BY <3>1, <4>2, <4>3
    <3> QED BY <3>2, <3>3
  <2>9. new # <<>> /\ Len(new) - 1 = m /\ new[Len(new)] = snap /\ snap.n = samples
    BY <2>1, <2>3, EmptySeq
  <2> HIDE DEF Spent
  <2> QED BY <2>1, <2>3, <2>4, <2>5, <2>7, <2>8, <2>9 DEF HistoryInv
<1>8. ASSUME NEW c \in Clients,
             \/ Board!Fails(c) \/ Board!ServeSnapshot(c) \/ Board!BeginReplay(c) \/ Board!Replay(c)
             \/ Board!EndReplay(c) \/ Board!CheckClient(c) \/ Board!Latest(c)
      PROVE  HistoryInv'
  <2>1. UNCHANGED Board!ServerVars
    BY <1>8 DEF Board!Fails, Board!ServeSnapshot, Board!BeginReplay, Board!Replay, Board!EndReplay,
                Board!CheckClient, Board!Latest
  <2> QED BY <1>0, <2>1, HistoryKept DEF Board!ServerVars, Board!MetricsVars, Board!CollectorVars
<1> QED
  BY <1>1, <1>2, <1>3, <1>4, <1>5, <1>6, <1>7, <1>8 DEF Board!Next, Board!ServerStep

LEMMA EventsStep ==
  ASSUME SampleInv, HistoryInv, HistoryInv', EventsInv, Board!Next
  PROVE  EventsInv'
<1> DEFINE top == history[Len(history)].n
<1>0. /\ history \in Seq(Samples) /\ Len(history) \in Nat
      /\ conn \in [Clients -> {"away", "request", "replay", "check", "latest", "write", "over"}]
      /\ received \in [Clients -> Seq(Samples)]
      /\ \A i \in 1 .. Len(history) : history[i].n \in Nat /\ history[i].n >= 1 /\ history[i].n <= top
      /\ history # <<>> => Len(history) \in 1 .. Len(history) /\ top \in Nat /\ top >= 1
  <2>1. /\ history \in Seq(Samples) /\ received \in [Clients -> Seq(Samples)] /\ samples \in Nat
        /\ conn \in [Clients -> {"away", "request", "replay", "check", "latest", "write", "over"}]
    BY DEF SampleInv
  <2>2. Len(history) \in Nat /\ (history # <<>> => Len(history) \in 1 .. Len(history))
    BY <2>1, LenProperties, EmptySeq
  <2>3. \A i \in 1 .. Len(history) : history[i].n \in Nat /\ history[i].n >= 1
    BY <2>1 DEF HistoryInv
  <2>4. ASSUME NEW i \in 1 .. Len(history) PROVE history[i].n <= top
    <3>1. Len(history) \in 1 .. Len(history)
      BY <2>2
    <3>2. PICK a \in Nat, b \in Nat, m \in Nat : a = history[i].n /\ b = top /\ m = Len(history)
      BY <2>2, <2>3, <3>1
    <3>3. a + m - i = b /\ i <= m
      BY <3>2 DEF HistoryInv
    <3> QED BY <3>2, <3>3
  <2> QED BY <2>1, <2>2, <2>3, <2>4
<1> HIDE DEF top
\* No client, and not the history.
<1>1. ASSUME UNCHANGED <<Board!ClientVars, history>> PROVE EventsInv'
  BY <1>1 DEF Board!ClientVars, EventsInv
<1>2. CASE Board!RecordTaskCompletion \/ Board!ResetMetrics \/ Board!Stop \/ Board!Joined \/ Board!Drop
           \/ Board!Bind \/ Board!CheckShutdown \/ Board!CheckCollector \/ Board!Sample
  BY <1>1, <1>2 DEF Board!RecordTaskCompletion, Board!ResetMetrics, Board!Stop, Board!Joined, Board!Drop,
                    Board!Bind, Board!CheckShutdown, Board!CheckCollector, Board!Sample
\* One client, who is not at a replay afterwards or was at it before.
<1>3. ASSUME NEW c \in Clients, history' = history,
             \A d \in Clients : d # c => conn'[d] = conn[d] /\ received'[d] = received[d],
             lock' = lock \/ lock = "none" \/ lock = c,
             conn'[c] \in {"away", "request"} => received'[c] = <<>>,
             conn'[c] = "replay" =>
               /\ lock' = c /\ Len(received'[c]) <= Len(history)
               /\ \A i \in 1 .. Len(received'[c]) : received'[c][i] = history[i],
             \A i \in 1 .. Len(received'[c]) :
               /\ history # <<>> /\ received'[c][i].n \in 1 .. top
               /\ i > 1 => received'[c][i - 1].n <= received'[c][i].n
      PROVE  EventsInv'
  <2>1. \A d \in Clients : d # c /\ conn[d] = "replay" => lock = d /\ d # "none"
    BY MonitoringAssumption DEF EventsInv
  <2>2. \A d \in Clients : d # c /\ conn[d] = "replay" => lock' = d
    BY <1>3, <2>1
  <2> QED BY <1>3, <2>2 DEF EventsInv, top
<1>4. CASE Board!Accept
  <2>1. CASE UNCHANGED conn
    BY <1>1, <1>4, <2>1 DEF Board!Accept, Board!ClientVars
  <2>2. ASSUME NEW c \in Clients, conn[c] = "away", conn' = [conn EXCEPT ![c] = "request"]
        PROVE  EventsInv'
    <3>1. history' = history /\ lock' = lock /\ received' = received
      BY <1>4 DEF Board!Accept
    <3>2. received[c] = <<>> /\ Len(received[c]) = 0
      BY <2>2 DEF EventsInv
    <3>3. conn'[c] = "request" /\ \A d \in Clients : d # c => conn'[d] = conn[d]
      BY <1>0, <2>2
    <3> QED BY <1>3, <3>1, <3>2, <3>3
  <2> QED BY <1>4, <2>1, <2>2 DEF Board!Accept
<1>5. CASE Board!Push
  <2>1. /\ lock = "none" /\ lock' = lock /\ conn' = conn /\ received' = received
        /\ collector = "push" /\ collector' = "check" /\ samples' = samples
    BY <1>5 DEF Board!Push, Board!ClientVars
  <2>2. \A c \in Clients : conn[c] # "replay"
    BY <2>1, MonitoringAssumption DEF EventsInv
  <2>3. history' # <<>> /\ history'[Len(history')].n = samples
    <3>1. history' # <<>>
      <4>1. \E s \in Seq(Samples) : history' = Append(s, snap)
        BY <1>0, <1>5, HeadTailProperties DEF Board!Push
      <4>2. snap \in Samples
        BY DEF SampleInv
      <4> QED BY <4>1, <4>2, AppendProperties
    <3> QED BY <2>1, <3>1 DEF HistoryInv
  <2>4. history # <<>> => top + 1 = samples
    BY <2>1 DEF HistoryInv, top
  <2>5. samples \in Nat
    BY DEF SampleInv
  <2>6. ASSUME NEW c \in Clients, NEW i \in 1 .. Len(received[c])
        PROVE  received[c][i].n \in 1 .. samples
    <3>1. history # <<>> /\ received[c][i].n \in 1 .. top
      BY DEF EventsInv, top
    <3>2. top + 1 = samples /\ top \in Nat
      BY <1>0, <2>4, <3>1
    <3> QED BY <2>5, <3>1, <3>2
  <2> QED BY <2>1, <2>2, <2>3, <2>6 DEF EventsInv
\* A client is sent a sample of the history that is not older than those it has.
<1>6. ASSUME NEW c \in Clients, NEW k \in 1 .. Len(history),
             received' = [received EXCEPT ![c] = Append(@, history[k])],
             \A i \in 1 .. Len(received[c]) : received[c][i].n <= history[k].n
      PROVE  /\ Len(received'[c]) = Len(received[c]) + 1 /\ Len(received[c]) \in Nat
             /\ \A i \in 1 .. Len(received[c]) : received'[c][i] = received[c][i]
             /\ received'[c][Len(received[c]) + 1] = history[k]
             /\ \A d \in Clients : d # c => received'[d] = received[d]
             /\ \A i \in 1 .. Len(received'[c]) :
                  /\ history # <<>> /\ received'[c][i].n \in 1 .. top
                  /\ i > 1 => received'[c][i - 1].n <= received'[c][i].n
  <2>1. received[c] \in Seq(Samples) /\ Len(received[c]) \in Nat /\ history[k] \in Samples /\ history # <<>>
    BY <1>0, LenProperties
  <2>2. received'[c] = Append(received[c], history[k]) /\ \A d \in Clients : d # c => received'[d] = received[d]
    BY <1>0, <1>6
  <2>3. /\ Len(received'[c]) = Len(received[c]) + 1
        /\ \A i \in 1 .. Len(received[c]) : received'[c][i] = received[c][i]
    BY <2>1, <2>2, AppendProperties
  <2>4. received'[c][Len(received[c]) + 1] = history[k]
    BY <2>1, <2>2, AppendProperties
  <2>5. PICK m \in Nat : m = Len(received[c])
    BY <2>1
  <2>6. \A i \in 1 .. m : received[c][i].n \in 1 .. top /\ (i > 1 => received[c][i - 1].n <= received[c][i].n)
    BY <2>5 DEF EventsInv, top
  <2>7. ASSUME NEW i \in 1 .. m + 1
        PROVE  received'[c][i].n \in 1 .. top /\ (i > 1 => received'[c][i - 1].n <= received'[c][i].n)
    <3>1. CASE i = m + 1
      <4>1. received'[c][i] = history[k] /\ (i > 1 => i - 1 \in 1 .. m /\ received'[c][i - 1] = received[c][i - 1])
        BY <2>3, <2>4, <2>5, <3>1
      <4>2. history[k].n \in 1 .. top
        BY <1>0, <2>1
      <4>3. \A j \in 1 .. m : received[c][j].n <= history[k].n
        BY <1>6, <2>5
      <4> QED BY <4>1, <4>2, <4>3
    <3>2. CASE i \in 1 .. m
      <4>1. received'[c][i] = received[c][i] /\ (i > 1 => received'[c][i - 1] = received[c][i - 1])
        <5>1. i > 1 => i - 1 \in 1 .. m
          BY <3>2
        <5> QED BY <2>3, <2>5, <3>2, <5>1
      <4> QED BY <2>6, <3>2, <4>1
    <3> QED BY <3>1, <3>2
  <2> QED BY <2>1, <2>2, <2>3, <2>4, <2>5, <2>7
\* The samples of a client are not newer than the last of the history.
<1>7. ASSUME NEW c \in Clients, history # <<>>
      PROVE  \A i \in 1 .. Len(received[c]) : received[c][i].n <= history[Len(history)].n
  <2>1. top \in Nat /\ \A i \in 1 .. Len(received[c]) : received[c][i].n \in 1 .. top
    BY <1>0, <1>7 DEF EventsInv, top
  <2>2. \A i \in 1 .. Len(received[c]) : received[c][i].n <= top
    BY <2>1
  <2> QED BY <2>2 DEF top
<1>8. \A c \in Clients : \A i \in 1 .. Len(received[c]) :
        /\ history # <<>> /\ received[c][i].n \in 1 .. top
        /\ i > 1 => received[c][i - 1].n <= received[c][i].n
  BY DEF EventsInv, top
<1>9. ASSUME NEW c \in Clients, Board!Fails(c) \/ Board!EndReplay(c) \/ Board!CheckClient(c)
      PROVE  EventsInv'
  <2>1. /\ history' = history /\ received' = received
        /\ conn'[c] \in {"check", "over", "latest"} /\ \A d \in Clients : d # c => conn'[d] = conn[d]
    BY <1>0, <1>9 DEF Board!Fails, Board!EndReplay, Board!CheckClient, Board!Goes, Board!ServerVars
  <2>2. conn[c] = "replay" => lock = c
    BY DEF EventsInv
  <2>3. lock' = lock \/ lock = "none" \/ lock = c
    BY <1>9, <2>2 DEF Board!Fails, Board!EndReplay, Board!CheckClient
  <2> QED BY <1>3, <1>8, <2>1, <2>3
<1>10. ASSUME NEW c \in Clients, Board!BeginReplay(c) PROVE EventsInv'
  <2>1. /\ history' = history /\ received' = received /\ lock = "none" /\ lock' = c /\ conn[c] = "request"
        /\ conn'[c] = "replay" /\ \A d \in Clients : d # c => conn'[d] = conn[d]
    BY <1>0, <1>10 DEF Board!BeginReplay, Board!Goes, Board!ServerVars
  <2>2. received[c] = <<>> /\ Len(received[c]) = 0
    BY <2>1 DEF EventsInv
  <2> QED BY <1>0, <1>3, <2>1, <2>2
<1>11. ASSUME NEW c \in Clients, Board!Replay(c) PROVE EventsInv'
  <2>1. /\ conn[c] = "replay" /\ Len(received[c]) < Len(history) /\ history' = history /\ lock' = lock /\ conn' = conn
        /\ received' = [received EXCEPT ![c] = Append(@, history[Len(received[c]) + 1])]
    BY <1>11 DEF Board!Replay, Board!Sent, Board!ServerVars
  <2>2. PICK m \in Nat : m = Len(received[c]) /\ m < Len(history)
    BY <1>0, <2>1, LenProperties
  <2>3. lock = c /\ \A i \in 1 .. m : received[c][i] = history[i]
    BY <2>1, <2>2 DEF EventsInv
  <2>4. m + 1 \in 1 .. Len(history)
    BY <1>0, <2>2
  <2>5. ASSUME NEW i \in 1 .. m PROVE received[c][i].n <= history[m + 1].n
    <3>1. i \in 1 .. Len(history) /\ Len(history) \in 1 .. Len(history)
      BY <1>0, <2>2
    <3>2. PICK a \in Nat, b \in Nat, z \in Nat, l \in Nat :
            a = history[i].n /\ b = history[m + 1].n /\ z = history[Len(history)].n /\ l = Len(history)
      BY <1>0, <2>4, <3>1
    <3>3. a + l - i = z /\ b + l - (m + 1) = z
      BY <2>4, <3>1, <3>2 DEF HistoryInv
    <3>4. a <= b
      BY <3>3
    <3> QED BY <2>3, <3>2, <3>4
  <2>6. /\ Len(received'[c]) = m + 1
        /\ \A i \in 1 .. m : received'[c][i] = received[c][i]
        /\ received'[c][m + 1] = history[m + 1]
        /\ \A d \in Clients : d # c => received'[d] = received[d]
        /\ \A i \in 1 .. Len(received'[c]) :
             /\ history # <<>> /\ received'[c][i].n \in 1 .. top
             /\ i > 1 => received'[c][i - 1].n <= received'[c][i].n
    <3>1. received' = [received EXCEPT ![c] = Append(@, history[m + 1])]
      BY <2>1, <2>2
    <3>2. \A i \in 1 .. Len(received[c]) : received[c][i].n <= history[m + 1].n
      BY <2>2, <2>5
    <3>3. /\ Len(received'[c]) = Len(received[c]) + 1
          /\ \A i \in 1 .. Len(received[c]) : received'[c][i] = received[c][i]
          /\ received'[c][Len(received[c]) + 1] = history[m + 1]
          /\ \A d \in Clients : d # c => received'[d] = received[d]
          /\ \A i \in 1 .. Len(received'[c]) :
               /\ history # <<>> /\ received'[c][i].n \in 1 .. top
               /\ i > 1 => received'[c][i - 1].n <= received'[c][i].n
      BY <1>6, <2>4, <3>1, <3>2
    <3> QED BY <2>2, <3>3
  <2>7. \A i \in 1 .. m + 1 : received'[c][i] = history[i]
    BY <2>3, <2>6
  <2> QED BY <1>3, <2>1, <2>2, <2>3, <2>4, <2>6, <2>7
<1>12. ASSUME NEW c \in Clients, Board!ServeSnapshot(c) \/ Board!Latest(c) PROVE EventsInv'
  <2>1. /\ history' = history /\ lock' = lock
        /\ conn'[c] \in {"check", "write", "over"} /\ \A d \in Clients : d # c => conn'[d] = conn[d]
    BY <1>0, <1>12 DEF Board!ServeSnapshot, Board!Latest, Board!Goes, Board!ServerVars
  <2>2. CASE received' = received
    BY <1>3, <1>8, <2>1, <2>2
  <2>3. CASE received' # received
    <3>1. history # <<>> /\ received' = [received EXCEPT ![c] = Append(@, history[Len(history)])]
      BY <1>12, <2>3 DEF Board!ServeSnapshot, Board!Latest, Board!Sent, Board!Last
    <3>2. Len(history) \in 1 .. Len(history)
      BY <1>0, <3>1
    <3>3. /\ \A d \in Clients : d # c => received'[d] = received[d]
          /\ \A i \in 1 .. Len(received'[c]) :
               /\ history # <<>> /\ received'[c][i].n \in 1 .. top
               /\ i > 1 => received'[c][i - 1].n <= received'[c][i].n
      BY <1>6, <1>7, <3>1, <3>2
    <3> QED BY <1>3, <2>1, <3>3
  <2> QED BY <2>2, <2>3
<1> QED
  BY <1>2, <1>4, <1>5, <1>9, <1>10, <1>11, <1>12 DEF Board!Next, Board!ServerStep

LEMMA BoardInit ==
  ASSUME Board!Init
  PROVE  BoardInv
<1>1. SampleInv
  BY DEF Board!Init, SampleInv, Samples
<1>2. HistoryInv
  <2>1. /\ history = <<>> /\ Len(history) = 0 /\ Spent = Board!Deltas(<<>>) + 0
        /\ completed = 0 /\ lastSeen = 0 /\ finished = 0
    BY DEF Board!Init, Spent
  <2>2. Spent = 0
    BY <2>1, DeltasEmpty
  <2>3. 0 <= Board!Max({1, HistoryLen})
    BY GreaterOfTwo, MonitoringAssumption
  <2> HIDE DEF Spent
  <2> QED BY <2>1, <2>2, <2>3 DEF HistoryInv
<1>3. EventsInv
  BY DEF Board!Init, EventsInv
<1> QED BY <1>1, <1>2, <1>3 DEF BoardInv

LEMMA BoardStep ==
  ASSUME BoardInv, Board!Next
  PROVE  BoardInv'
<1>1. SampleInv /\ HistoryInv /\ EventsInv
  BY DEF BoardInv
<1>2. SampleInv'
  BY <1>1, SampleStep
<1>3. HistoryInv'
  BY <1>1, <1>2, HistoryStep
<1>4. EventsInv'
  BY <1>1, <1>3, EventsStep
<1> QED BY <1>2, <1>3, <1>4 DEF BoardInv

LEMMA BoardRest ==
  ASSUME BoardInv, UNCHANGED dashboardVars
  PROVE  BoardInv'
<1>1. /\ completed' = completed /\ finished' = finished /\ wasReset' = wasReset /\ server' = server
      /\ collector' = collector /\ samples' = samples /\ lastSeen' = lastSeen /\ snap' = snap
      /\ history' = history /\ lock' = lock /\ conn' = conn /\ received' = received
  BY DEF dashboardVars
<1>2. Spent' = Spent
  BY <1>1 DEF Spent
<1>3. SampleInv'
  BY <1>1 DEF BoardInv, SampleInv
<1>4. HistoryInv'
  BY <1>1, <1>2 DEF BoardInv, HistoryInv
<1>5. EventsInv'
  BY <1>1 DEF BoardInv, EventsInv
<1> QED BY <1>3, <1>4, <1>5 DEF BoardInv

\* What the invariant says of the history and of what clients have been sent.
LEMMA BoardFollows ==
  ASSUME BoardInv
  PROVE  Board!HistorySound /\ Board!EventsInOrder
<1>1. /\ history \in Seq(Samples) /\ snap \in Samples /\ received \in [Clients -> Seq(Samples)]
      /\ samples \in Nat /\ finished \in Nat
  BY DEF BoardInv, SampleInv
<1>2. Len(history) \in Nat /\ \A i \in 1 .. Len(history) : history[i].n \in Nat
  <2>1. Len(history) \in Nat /\ \A i \in 1 .. Len(history) : history[i] \in Samples
    BY <1>1, LenProperties
  <2> QED BY <2>1 DEF Samples
<1>3. Board!HistorySound
  <2>1. Board!Deltas(history) <= finished
    <3>1. PICK d \in Nat : d = Board!Deltas(history)
      BY <1>1, DeltasNat
    <3>2. PICK x \in Nat : Spent = d + x
      <4>1. snap.delta \in Nat /\ 0 \in Nat
        BY <1>1 DEF Samples
      <4> QED BY <3>1, <4>1 DEF Spent
    <3>3. d + x <= finished
      BY <3>2 DEF BoardInv, HistoryInv
    <3>4. d <= finished
      BY <1>1, <3>3
    <3> QED BY <3>1, <3>4
  <2>2. ASSUME NEW i \in 1 .. Len(history) - 1 PROVE history[i + 1].n = history[i].n + 1
    <3>1. i \in 1 .. Len(history) /\ i + 1 \in 1 .. Len(history) /\ Len(history) \in 1 .. Len(history)
      BY <1>2
    <3>2. PICK a \in Nat, b \in Nat, z \in Nat, l \in Nat :
            a = history[i].n /\ b = history[i + 1].n /\ z = history[Len(history)].n /\ l = Len(history)
      BY <1>2, <3>1
    <3>3. a + l - i = z /\ b + l - (i + 1) = z
      BY <3>1, <3>2 DEF BoardInv, HistoryInv
    <3>4. b = a + 1
      BY <3>3
    <3> QED BY <3>2, <3>4
  <2>3. Len(history) <= Board!Max({1, HistoryLen})
    BY DEF BoardInv, HistoryInv
  <2>4. \A i \in 1 .. Len(history) - 1 :
          ~wasReset => history[i + 1].completed = history[i].completed + history[i + 1].delta
    BY DEF BoardInv, HistoryInv
  <2> QED BY <2>1, <2>2, <2>3, <2>4 DEF Board!HistorySound
<1>4. Board!EventsInOrder
  <2>1. ASSUME NEW c \in Clients, NEW i \in DOMAIN received[c]
        PROVE  /\ received[c][i].n \in 1 .. samples
               /\ i > 1 => received[c][i - 1].n <= received[c][i].n
    <3>1. i \in 1 .. Len(received[c])
      BY <1>1, LenProperties
    <3>2. /\ history # <<>> /\ received[c][i].n \in 1 .. history[Len(history)].n
          /\ i > 1 => received[c][i - 1].n <= received[c][i].n
      BY <3>1 DEF BoardInv, EventsInv
    <3>3. Len(history) \in 1 .. Len(history)
      BY <1>1, <1>2, <3>2, EmptySeq
    <3>4. history[Len(history)].n \in 1 .. samples
      BY <3>3 DEF BoardInv, HistoryInv
    <3> QED BY <1>1, <3>2, <3>4
  <2> QED BY <2>1 DEF Board!EventsInOrder
<1> QED BY <1>3, <1>4
-----------------------------------------------------------------------------
(* The profiler.                                                           *)

LEMMA ProfileInit ==
  ASSUME Profile!Init
  PROVE  ProfileInv
<1>1. Profile!ProfileCoherent
  BY DEF Profile!Init, Profile!NoProfile, Profile!ProfileCoherent
<1> QED BY <1>1 DEF Profile!Init, ProfileInv

LEMMA ProfileStep ==
  ASSUME ProfileInv, Profile!Next
  PROVE  ProfileInv'
<1> DEFINE Doings == {"idle", "start", "clear", "push", "read", "copy", "unset"}
<1> DEFINE Stats == [called : Nat, overtaken : BOOLEAN]
<1>0. /\ clock \in Nat /\ startTime \in 0 .. clock /\ doing \in [Callers -> Doings]
      /\ seen \in [Callers -> Nat] /\ overtaken \in [Callers -> BOOLEAN] /\ taskStats \in Seq(Stats)
      /\ \A c \in Callers : /\ doing[c] = "push" /\ ~overtaken[c] => seen[c] = clock
                            /\ doing[c] = "copy" => seen[c] <= clock
      /\ \/ \E c \in Callers : doing[c] = "clear"
         \/ \A i \in 1 .. Len(taskStats) : taskStats[i].overtaken \/ taskStats[i].called = clock
      /\ Profile!ProfileCoherent
  BY DEF ProfileInv
<1>1. ASSUME profile' = profile PROVE Profile!ProfileCoherent'
  BY <1>0, <1>1 DEF Profile!ProfileCoherent
\* A step of a caller that leaves the time and the statistics alone.
<1>2. ASSUME NEW c \in Callers, NEW to \in Doings, doing[c] # "clear", doing' = [doing EXCEPT ![c] = to],
             clock' = clock, taskStats' = taskStats, startTime' \in {0, startTime},
             \A d \in Callers : d # c => seen'[d] = seen[d] /\ overtaken'[d] = overtaken[d],
             seen' \in [Callers -> Nat], overtaken' \in [Callers -> BOOLEAN],
             to = "push" /\ ~overtaken'[c] => seen'[c] = clock,
             to = "copy" => seen'[c] <= clock,
             Profile!ProfileCoherent'
      PROVE  ProfileInv'
  <2>1. doing' \in [Callers -> Doings] /\ startTime' \in 0 .. clock' /\ clock' \in Nat
    BY <1>0, <1>2
  <2>2. \A d \in Callers : d # c => doing'[d] = doing[d]
    BY <1>0, <1>2
  <2>3. doing'[c] = to
    BY <1>0, <1>2
  <2>4. \A d \in Callers : /\ doing'[d] = "push" /\ ~overtaken'[d] => seen'[d] = clock'
                           /\ doing'[d] = "copy" => seen'[d] <= clock'
    BY <1>0, <1>2, <2>2, <2>3
  <2>5. (\E d \in Callers : doing[d] = "clear") => \E d \in Callers : doing'[d] = "clear"
    BY <1>2, <2>2
  <2>6. taskStats' \in Seq(Stats)
    BY <1>0, <1>2
  <2>7. \/ \E d \in Callers : doing'[d] = "clear"
        \/ \A i \in 1 .. Len(taskStats') : taskStats'[i].overtaken \/ taskStats'[i].called = clock'
    BY <1>0, <1>2, <2>5
  <2> QED BY <1>2, <2>1, <2>4, <2>6, <2>7 DEF ProfileInv
<1>3. ASSUME NEW c \in Callers, NEW value \in BOOLEAN, Profile!SetEnabled(c, value) PROVE ProfileInv'
  <2>1. UNCHANGED <<startTime, taskStats, doing, seen, clock, overtaken, profile>>
    BY <1>3 DEF Profile!SetEnabled
  <2>2. Profile!ProfileCoherent'
    BY <1>1, <2>1
  <2> QED BY <1>0, <2>1, <2>2 DEF ProfileInv
<1>4. ASSUME NEW c \in Callers, Profile!StartRun(c) \/ Profile!GetProfile(c) PROVE ProfileInv'
  <2>1. /\ doing[c] = "idle" /\ \E to \in {"start", "read"} : doing' = [doing EXCEPT ![c] = to]
        /\ UNCHANGED <<startTime, taskStats, seen, clock, overtaken, profile>>
    BY <1>4 DEF Profile!StartRun, Profile!GetProfile, Profile!Goes
  <2>2. Profile!ProfileCoherent'
    BY <1>1, <2>1
  <2> QED BY <1>0, <1>2, <2>1, <2>2
<1>5. ASSUME NEW c \in Callers, Profile!StoreStart(c) PROVE ProfileInv'
  <2>1. /\ clock' = clock + 1 /\ startTime' = clock + 1 /\ overtaken' = [d \in Callers |-> TRUE]
        /\ doing[c] = "start" /\ doing' = [doing EXCEPT ![c] = "clear"]
        /\ taskStats' = taskStats /\ seen' = seen /\ profile' = profile
    BY <1>5 DEF Profile!StoreStart, Profile!Goes
  <2>2. Profile!ProfileCoherent'
    BY <1>1, <2>1
  <2>3. clock' \in Nat /\ startTime' \in 0 .. clock' /\ doing' \in [Callers -> Doings]
    BY <1>0, <2>1
  <2>4. \E d \in Callers : doing'[d] = "clear"
    BY <1>0, <2>1
  <2>5. \A d \in Callers : /\ doing'[d] = "push" /\ ~overtaken'[d] => seen'[d] = clock'
                           /\ doing'[d] = "copy" => seen'[d] <= clock'
    <3>1. \A d \in Callers : overtaken'[d] = TRUE /\ (doing'[d] = "copy" => doing[d] = "copy")
      BY <1>0, <2>1
    <3>2. \A d \in Callers : doing[d] = "copy" => seen[d] <= clock + 1
      BY <1>0
    <3> QED BY <2>1, <3>1, <3>2
  <2>6. overtaken' \in [Callers -> BOOLEAN] /\ seen' \in [Callers -> Nat] /\ taskStats' \in Seq(Stats)
    BY <1>0, <2>1
  <2> QED BY <2>2, <2>3, <2>4, <2>5, <2>6 DEF ProfileInv
<1>6. ASSUME NEW c \in Callers, Profile!ClearStats(c) \/ Profile!Reset(c) PROVE ProfileInv'
  <2>1. /\ doing' = [doing EXCEPT ![c] = "idle"] \/ doing' = [doing EXCEPT ![c] = "unset"]
        /\ taskStats' = <<>> /\ UNCHANGED <<startTime, seen, clock, overtaken, profile>>
    BY <1>6 DEF Profile!ClearStats, Profile!Reset, Profile!Goes
  <2>2. Profile!ProfileCoherent'
    BY <1>1, <2>1
  <2>3. doing' \in [Callers -> Doings] /\ \A d \in Callers : doing'[d] \in {"push", "copy"} => doing'[d] = doing[d]
    BY <1>0, <2>1
  <2>4. taskStats' \in Seq(Stats) /\ Len(taskStats') = 0
    BY <2>1
  <2>5. \A i \in 1 .. Len(taskStats') : taskStats'[i].overtaken \/ taskStats'[i].called = clock'
    BY <2>4
  <2> QED BY <1>0, <2>1, <2>2, <2>3, <2>4, <2>5 DEF ProfileInv
<1>7. ASSUME NEW c \in Callers, Profile!RecordTask(c) PROVE ProfileInv'
  <2>1. /\ doing[c] = "idle" /\ doing' = [doing EXCEPT ![c] = "push"]
        /\ seen' = [seen EXCEPT ![c] = clock] /\ overtaken' = [overtaken EXCEPT ![c] = FALSE]
        /\ UNCHANGED <<startTime, taskStats, clock, profile>>
    BY <1>7 DEF Profile!RecordTask, Profile!Goes, Profile!Notes
  <2>2. Profile!ProfileCoherent'
    BY <1>1, <2>1
  <2>3. /\ seen' \in [Callers -> Nat] /\ overtaken' \in [Callers -> BOOLEAN] /\ seen'[c] = clock
        /\ \A d \in Callers : d # c => seen'[d] = seen[d] /\ overtaken'[d] = overtaken[d]
    BY <1>0, <2>1
  <2> QED BY <1>2, <2>1, <2>2, <2>3
<1>8. ASSUME NEW c \in Callers, Profile!ReadStart(c) PROVE ProfileInv'
  <2>1. /\ doing[c] = "read" /\ \E to \in {"idle", "copy"} : doing' = [doing EXCEPT ![c] = to]
        /\ seen' = [seen EXCEPT ![c] = startTime] /\ overtaken' = [overtaken EXCEPT ![c] = FALSE]
        /\ UNCHANGED <<startTime, taskStats, clock, profile>>
    BY <1>8 DEF Profile!ReadStart, Profile!Goes, Profile!Notes
  <2>2. Profile!ProfileCoherent'
    BY <1>1, <2>1
  <2>3. startTime \in Nat /\ startTime <= clock
    BY <1>0
  <2>4. /\ seen' \in [Callers -> Nat] /\ overtaken' \in [Callers -> BOOLEAN] /\ seen'[c] <= clock
        /\ \A d \in Callers : d # c => seen'[d] = seen[d] /\ overtaken'[d] = overtaken[d]
    BY <1>0, <2>1, <2>3
  <2>5. PICK to \in {"idle", "copy"} : doing' = [doing EXCEPT ![c] = to]
    BY <2>1
  <2> QED BY <1>2, <2>1, <2>2, <2>4, <2>5
<1>9. ASSUME NEW c \in Callers, Profile!CopyStats(c) PROVE ProfileInv'
  <2>1. /\ doing[c] = "copy" /\ doing' = [doing EXCEPT ![c] = "idle"]
        /\ UNCHANGED <<startTime, taskStats, seen, clock, overtaken>>
        /\ profile' = IF taskStats = <<>> THEN Profile!NoProfile
                      ELSE [start |-> seen[c], tasks |-> taskStats,
                            blurred |-> \E d \in Callers : doing[d] = "clear"]
    BY <1>9 DEF Profile!CopyStats, Profile!Goes
  <2>2. Profile!ProfileCoherent'
    <3>1. CASE taskStats = <<>>
      <4>1. profile'.tasks = <<>>
        BY <2>1, <3>1 DEF Profile!NoProfile
      <4> QED BY <4>1 DEF Profile!ProfileCoherent
    <3>2. CASE taskStats # <<>>
      <4>1. /\ profile'.start = seen[c] /\ profile'.tasks = taskStats
            /\ ~profile'.blurred => ~\E d \in Callers : doing[d] = "clear"
        BY <2>1, <3>2
      <4>2. seen[c] \in Nat /\ seen[c] <= clock /\ clock \in Nat
        BY <1>0, <2>1
      <4>3. DOMAIN taskStats = 1 .. Len(taskStats)
        BY <1>0, LenProperties
      <4>4. ASSUME ~profile'.blurred, NEW i \in DOMAIN taskStats
            PROVE  taskStats[i].called >= seen[c] \/ taskStats[i].overtaken
        <5>1. taskStats[i].overtaken \/ taskStats[i].called = clock
          BY <1>0, <4>1, <4>3, <4>4
        <5> QED BY <4>2, <5>1
      <4> QED BY <4>1, <4>4 DEF Profile!ProfileCoherent
    <3> QED BY <3>1, <3>2
  <2> QED BY <1>0, <1>2, <2>1, <2>2
<1>10. ASSUME NEW c \in Callers, Profile!UnsetStart(c) PROVE ProfileInv'
  <2>1. /\ doing[c] = "unset" /\ doing' = [doing EXCEPT ![c] = "idle"] /\ startTime' = 0
        /\ UNCHANGED <<taskStats, seen, clock, overtaken, profile>>
    BY <1>10 DEF Profile!UnsetStart, Profile!Goes
  <2>2. Profile!ProfileCoherent'
    BY <1>1, <2>1
  <2> QED BY <1>0, <1>2, <2>1, <2>2
<1>11. ASSUME NEW c \in Callers, Profile!PushStats(c) PROVE ProfileInv'
  <2>1. /\ doing[c] = "push" /\ doing' = [doing EXCEPT ![c] = "idle"]
        /\ taskStats' = Append(taskStats, [called |-> seen[c], overtaken |-> overtaken[c]])
        /\ UNCHANGED <<startTime, seen, clock, overtaken, profile>>
    BY <1>11 DEF Profile!PushStats, Profile!Goes
  <2>2. Profile!ProfileCoherent'
    BY <1>1, <2>1
  <2>3. PICK r \in Stats : /\ r = [called |-> seen[c], overtaken |-> overtaken[c]]
                           /\ r.overtaken \/ r.called = clock
    BY <1>0, <2>1
  <2>4. /\ taskStats' \in Seq(Stats) /\ Len(taskStats') = Len(taskStats) + 1 /\ Len(taskStats) \in Nat
        /\ \A i \in 1 .. Len(taskStats) : taskStats'[i] = taskStats[i]
    BY <1>0, <2>1, <2>3, AppendProperties, LenProperties
  <2>5. taskStats'[Len(taskStats) + 1] = r
    BY <1>0, <2>1, <2>3, AppendProperties
  <2>6. /\ doing' \in [Callers -> Doings]
        /\ \A d \in Callers : doing'[d] \in {"push", "copy"} => doing'[d] = doing[d]
        /\ \A d \in Callers : doing[d] = "clear" => doing'[d] = "clear"
    BY <1>0, <2>1
  <2>7. \A i \in 1 .. Len(taskStats') : i \in 1 .. Len(taskStats) \/ i = Len(taskStats) + 1
    BY <2>4
  <2>8. \/ \E d \in Callers : doing'[d] = "clear"
        \/ \A i \in 1 .. Len(taskStats') : taskStats'[i].overtaken \/ taskStats'[i].called = clock
    BY <1>0, <2>3, <2>4, <2>5, <2>6, <2>7
  <2> QED BY <1>0, <2>1, <2>2, <2>4, <2>6, <2>8 DEF ProfileInv
<1> QED
  BY <1>3, <1>4, <1>5, <1>6, <1>7, <1>8, <1>9, <1>10, <1>11 DEF Profile!Next

LEMMA ProfileRest ==
  ASSUME ProfileInv, UNCHANGED profilingVars
  PROVE  ProfileInv'
<1>1. UNCHANGED <<startTime, taskStats, doing, seen, clock, overtaken, profile>>
  BY DEF profilingVars
<1>2. Profile!ProfileCoherent'
  BY <1>1 DEF ProfileInv, Profile!ProfileCoherent
<1> QED BY <1>1, <1>2 DEF ProfileInv
-----------------------------------------------------------------------------
(* All of them.                                                            *)

LEMMA MonitoringInvStep ==
  ASSUME MonitoringInv, [MonitoringNext]_monitoringVars
  PROVE  MonitoringInv'
<1>1. TelemetryInv /\ BoardInv /\ ProfileInv
  BY DEF MonitoringInv
<1>2. CASE Telemetry!Next /\ UNCHANGED <<dashboardVars, profilingVars>>
  BY <1>1, <1>2, TelemetryStep, BoardRest, ProfileRest DEF MonitoringInv
<1>3. CASE Board!Next /\ UNCHANGED <<telemetryVars, profilingVars>>
  BY <1>1, <1>3, TelemetryRest, BoardStep, ProfileRest DEF MonitoringInv
<1>4. CASE Profile!Next /\ UNCHANGED <<telemetryVars, dashboardVars>>
  BY <1>1, <1>4, TelemetryRest, BoardRest, ProfileStep DEF MonitoringInv
<1>5. CASE UNCHANGED monitoringVars
  BY <1>1, <1>5, TelemetryRest, BoardRest, ProfileRest DEF MonitoringInv, monitoringVars
<1> QED BY <1>2, <1>3, <1>4, <1>5 DEF MonitoringNext

\* However the recording calls, a reset, the collector, the clients of the
\* dashboard and the calls of the profiler overlap, the metrics, the history and
\* the profiles tell the truth about the tasks (metrics.rs, dashboard.rs,
\* profiler.rs).
THEOREM WhatIsShown == MonitoringSpec => []CountersTrue
<1>1. MonitoringInit => MonitoringInv
  BY TelemetryInit, BoardInit, ProfileInit DEF MonitoringInit, MonitoringInv
<1>2. MonitoringInv /\ [MonitoringNext]_monitoringVars => MonitoringInv'
  BY MonitoringInvStep
<1>3. MonitoringInv => CountersTrue
  BY CountersFollow, BoardFollows DEF MonitoringInv, ProfileInv, CountersTrue
<1> QED BY <1>1, <1>2, <1>3, PTL DEF MonitoringSpec
=============================================================================
