----------------------- MODULE DynamicPriorityProofs -----------------------
(***************************************************************************)
(* Proofs about DynamicPriority, for any tasks, priorities, tick interval  *)
(* and number of pushes: the two maps of the scheduler agree and no push   *)
(* is lost, doubled or brought back, with an escalation pass at any point  *)
(* of its stale snapshot; pop goes by priority and then by age; and an     *)
(* entry that waits through two passes is of high priority, whatever the   *)
(* other threads do to the queue meanwhile.                                *)
(***************************************************************************)
EXTENDS DynamicPriority, DataLemmas

Ranks == {240, 245, 250, 255}

\* Beside the two theorems' own invariants: keys are pairs of
\* a rank and a number, and two entries
\* for the same task mean that it has been pushed while it was queued.
QueueInv ==
  /\ seq \in Nat
  /\ DOMAIN index \subseteq Ranks \X Nat
  /\ EachPushOnce
  /\ IndexAgrees
  /\ \A k, l \in DOMAIN index : index[k] = index[l] => k = l \/ index[k] \in dup

\* What the steps of a pass that skip their task, and its beginning and end, do.
QueueSame == UNCHANGED <<index, reverse, seq, dup, gone>>

LEMMA RevPriorityType ==
  ASSUME NEW p \in Priority
  PROVE  RevPriority(p) \in Ranks
BY DEF RevPriority, Priority, Value, Ranks

LEMMA PairFacts ==
  ASSUME NEW a \in Ranks, NEW n \in Nat
  PROVE  <<a, n>> \in Ranks \X Nat /\ <<a, n>>[2] = n
OBVIOUS

LEMMA QueueInit == Init => QueueInv
BY DEF Init, QueueInv, EachPushOnce, IndexAgrees, Pushes

LEMMA QueueStutter ==
  ASSUME QueueInv, QueueSame
  PROVE  QueueInv'
BY DEF QueueInv, QueueSame, EachPushOnce, IndexAgrees, Pushes

\* The new entry has a number no other entry has; the task's older entry, if
\* there is one, makes it a duplicate.
LEMMA QueuePush ==
  ASSUME QueueInv, NEW t \in Tasks, NEW p \in Levels, Push(t, p)
  PROVE  QueueInv'
<1> DEFINE key == <<RevPriority(p), seq>>
<1>1. /\ seq \in Nat /\ seq' = seq + 1
      /\ index' = Insert(index, key, t) /\ reverse' = Insert(reverse, t, key)
      /\ gone' = gone
      /\ dup' = IF t \in {index[k] : k \in DOMAIN index} THEN dup \cup {t} ELSE dup
  BY DEF Push, QueueInv
<1>2. key \in Ranks \X Nat /\ key[2] = seq
  BY <1>1, RevPriorityType, PairFacts, DynamicPriorityAssumption
<1> HIDE DEF key
<1>3. \A k \in DOMAIN index : k[2] \in 0 .. seq - 1
  BY DEF QueueInv, EachPushOnce, Pushes
<1>4. key \notin DOMAIN index
  BY <1>1, <1>2, <1>3
<1>5. /\ DOMAIN index' = DOMAIN index \cup {key} /\ index'[key] = t
      /\ \A k \in DOMAIN index : index'[k] = index[k]
  BY <1>1, <1>4 DEF Insert
<1>6. /\ DOMAIN reverse' = DOMAIN reverse \cup {t} /\ reverse'[t] = key
      /\ \A u \in DOMAIN reverse \ {t} : reverse'[u] = reverse[u]
  BY <1>1 DEF Insert
<1>7. EachPushOnce'
  <2>1. \A k, l \in DOMAIN index' : k[2] = l[2] => k = l
    BY <1>1, <1>2, <1>3, <1>5 DEF QueueInv, EachPushOnce
  <2>2. Pushes' = Pushes \cup {seq}
    BY <1>2, <1>5 DEF Pushes
  <2>3. Pushes' \cap gone' = {} /\ Pushes' \cup gone' = 0 .. seq' - 1
    BY <1>1, <2>2 DEF QueueInv, EachPushOnce
  <2> QED BY <2>1, <2>3 DEF EachPushOnce
<1>8. IndexAgrees'
  BY <1>1, <1>5, <1>6 DEF QueueInv, IndexAgrees
<1>9. \A k, l \in DOMAIN index' : index'[k] = index'[l] => k = l \/ index'[k] \in dup'
  BY <1>1, <1>5 DEF QueueInv
<1> QED BY <1>1, <1>2, <1>5, <1>7, <1>8, <1>9 DEF QueueInv

\* pop and remove take one entry and what the reverse map says of its task.
LEMMA QueueTake ==
  ASSUME QueueInv, NEW key \in DOMAIN index,
         index' = Without(index, key), reverse' = Without(reverse, index[key]),
         gone' = gone \cup {key[2]}, UNCHANGED <<seq, dup>>
  PROVE  QueueInv'
<1>1. /\ DOMAIN index' = DOMAIN index \ {key}
      /\ \A k \in DOMAIN index' : index'[k] = index[k]
  BY DEF Without
<1>2. /\ DOMAIN reverse' = DOMAIN reverse \ {index[key]}
      /\ \A u \in DOMAIN reverse' : reverse'[u] = reverse[u]
  BY DEF Without
<1>3. EachPushOnce'
  <2>1. Pushes' = Pushes \ {key[2]} /\ key[2] \in Pushes
    BY <1>1 DEF QueueInv, EachPushOnce, Pushes
  <2> QED BY <1>1, <2>1 DEF QueueInv, EachPushOnce
<1>4. IndexAgrees'
  BY <1>1, <1>2 DEF QueueInv, IndexAgrees
<1> QED BY <1>1, <1>3, <1>4 DEF QueueInv

\* The key of a task in the index gives way to one with the new rank and the
\* same number; the other entries stay.
LEMMA MoveFacts ==
  ASSUME QueueInv, NEW t \in DOMAIN reverse, NEW rank \in Ranks, NEW old, NEW new,
         old = reverse[t], new = <<rank, old[2]>>, index' = Insert(Without(index, old), new, t)
  PROVE  /\ old \in DOMAIN index /\ index[old] = t
         /\ new[1] = rank /\ new[2] = old[2] /\ new \in Ranks \X Nat
         /\ DOMAIN index' = (DOMAIN index \ {old}) \cup {new}
         /\ index'[new] = t
         /\ \A k \in DOMAIN index \ {old} : k # new /\ k[2] # old[2] /\ index'[k] = index[k]
<1>1. old \in DOMAIN index /\ index[old] = t /\ old[2] \in Nat
  BY DEF QueueInv, IndexAgrees
<1>2. new[1] = rank /\ new[2] = old[2] /\ new \in Ranks \X Nat
  BY <1>1, PairFacts
<1> DEFINE rest == Without(index, old)
<1>3. DOMAIN rest = DOMAIN index \ {old} /\ \A k \in DOMAIN rest : rest[k] = index[k]
  BY DEF Without
<1>4. index' = Insert(rest, new, t)
  OBVIOUS
<1> HIDE DEF rest
<1>5. \A k \in DOMAIN index \ {old} : k # new /\ k[2] # old[2]
  BY <1>1, <1>2 DEF QueueInv, EachPushOnce
<1>6. DOMAIN index' = (DOMAIN index \ {old}) \cup {new} /\ index'[new] = t
  BY <1>3, <1>4 DEF Insert
<1>7. \A k \in DOMAIN index \ {old} : index'[k] = index[k]
  BY <1>3, <1>4, <1>5 DEF Insert
<1> QED BY <1>1, <1>2, <1>5, <1>6, <1>7

\* An entry that moves keeps its number, so its new key is nobody else's.
LEMMA QueueMove ==
  ASSUME QueueInv, NEW t, NEW p \in Priority, Move(t, p), UNCHANGED <<seq, dup, gone>>
  PROVE  QueueInv'
<1>1. CASE t \notin DOMAIN reverse
  BY <1>1, QueueStutter DEF Move, QueueSame
<1>2. CASE t \in DOMAIN reverse
  <2>1. PICK old, new : old = reverse[t] /\ new = <<RevPriority(p), old[2]>>
    OBVIOUS
  <2>2. /\ index' = Insert(Without(index, old), new, t) /\ reverse' = Insert(reverse, t, new)
        /\ RevPriority(p) \in Ranks /\ UNCHANGED <<seq, dup, gone>>
    BY <1>2, <2>1, RevPriorityType DEF Move
  <2>3. /\ old \in DOMAIN index /\ index[old] = t /\ new[2] = old[2] /\ new \in Ranks \X Nat
        /\ DOMAIN index' = (DOMAIN index \ {old}) \cup {new} /\ index'[new] = t
        /\ \A k \in DOMAIN index \ {old} : k # new /\ k[2] # old[2] /\ index'[k] = index[k]
    BY <1>2, <2>1, <2>2, MoveFacts
  <2>4. /\ DOMAIN reverse' = DOMAIN reverse /\ reverse'[t] = new
        /\ \A u \in DOMAIN reverse \ {t} : reverse'[u] = reverse[u]
    BY <1>2, <2>2 DEF Insert
  <2>5. EachPushOnce'
    <3>1. \A k, l \in DOMAIN index' : k[2] = l[2] => k = l
      BY <2>3 DEF QueueInv, EachPushOnce
    <3>2. Pushes' = Pushes
      BY <2>3 DEF Pushes
    <3> QED BY <2>2, <3>1, <3>2 DEF QueueInv, EachPushOnce
  <2>6. IndexAgrees'
    BY <1>2, <2>1, <2>2, <2>3, <2>4 DEF QueueInv, IndexAgrees
  <2>7. \A k, l \in DOMAIN index' : index'[k] = index'[l] => k = l \/ index'[k] \in dup'
    BY <2>2, <2>3 DEF QueueInv
  <2> QED BY <2>2, <2>3, <2>5, <2>6, <2>7 DEF QueueInv
<1> QED BY <1>1, <1>2

LEMMA QueueStep == QueueInv /\ [Next]_vars => QueueInv'
<1> SUFFICES ASSUME QueueInv, [Next]_vars PROVE QueueInv'
  OBVIOUS
<1> USE DEF queueVars, policyVars, history
<1>1. CASE \E t \in Tasks, p \in Levels : Push(t, p)
  BY <1>1, QueuePush
<1>2. CASE \E t \in Tasks, p \in Levels : Reprioritize(t, p)
  BY <1>2, QueueMove, DynamicPriorityAssumption DEF Reprioritize
<1>3. CASE \E t \in Tasks : Cancel(t)
  <2>1. PICK t \in Tasks : Cancel(t)
    BY <1>3
  <2>2. reverse[t] \in DOMAIN index /\ index[reverse[t]] = t
    BY <2>1 DEF Cancel, QueueInv, IndexAgrees
  <2> QED BY <2>1, <2>2, QueueTake DEF Cancel
<1>4. CASE Pop
  BY <1>4, QueueTake DEF Pop, IsNext
<1>5. CASE Tick \/ Escalate \/ EscalateEnd \/ UNCHANGED vars
  BY <1>5, QueueStutter DEF Tick, Escalate, EscalateEnd, TakeSnapshot, vars, QueueSame
<1>6. CASE EscalateNext
  <2>1. "Normal" \in Priority /\ "High" \in Priority
    BY DEF Priority, Value
  <2>2. CASE Head(snapshot)[2] = "Low"
    <3>1. Move(Head(snapshot)[1], "Normal") /\ UNCHANGED <<seq, dup, gone>>
      BY <1>6, <2>2 DEF EscalateNext
    <3> QED BY <2>1, <3>1, QueueMove
  <2>3. CASE Head(snapshot)[2] = "Normal"
    <3>1. Move(Head(snapshot)[1], "High") /\ UNCHANGED <<seq, dup, gone>>
      BY <1>6, <2>3 DEF EscalateNext
    <3> QED BY <2>1, <3>1, QueueMove
  <2>4. CASE Head(snapshot)[2] \notin {"Low", "Normal"}
    <3>1. QueueSame
      BY <1>6, <2>4 DEF EscalateNext, QueueSame
    <3> QED BY <3>1, QueueStutter
  <2> QED BY <2>2, <2>3, <2>4
<1> QED BY <1>1, <1>2, <1>3, <1>4, <1>5, <1>6 DEF Next, Policy

THEOREM QueueInvariant == Spec => []QueueInv
BY QueueInit, QueueStep, PTL DEF Spec

\* A task that a handle can find is in the index where the handle looks for it,
\* and a queued task never pushed twice can be found: for all tasks and every
\* interleaving of push, pop, reprioritize, remove and escalation passes.
THEOREM Consistent == Spec => []IndexAgrees
<1>1. QueueInv => IndexAgrees
  BY DEF QueueInv
<1> QED BY <1>1, QueueInvariant, PTL

\* Every push is queued under one key or has left the queue, for good.
THEOREM PushedOnce == Spec => []EachPushOnce
<1>1. QueueInv => EachPushOnce
  BY DEF QueueInv
<1> QED BY <1>1, QueueInvariant, PTL

LEMMA RankOrder ==
  ASSUME NEW a \in Ranks, NEW b \in Ranks, a < b
  PROVE  Value[ToPriority(a)] > Value[ToPriority(b)]
<1>1. /\ ToPriority(240) = "Critical" /\ ToPriority(245) = "High"
      /\ ToPriority(250) = "Normal" /\ ToPriority(255) = "Low"
  BY DEF ToPriority
<1>2. /\ Value["Critical"] = 15 /\ Value["High"] = 10
      /\ Value["Normal"] = 5 /\ Value["Low"] = 0
  BY DEF Value
<1>3. /\ Value[ToPriority(240)] = 15 /\ Value[ToPriority(245)] = 10
      /\ Value[ToPriority(250)] = 5 /\ Value[ToPriority(255)] = 0
  BY <1>1, <1>2
<1> QED BY <1>3 DEF Ranks

\* pop hands out the highest priority in the queue and, within it, the earliest
\* push, whatever the policy and the handles have moved before.
THEOREM PriorityOrder == Spec => HighestFirst
<1> DEFINE Ordered ==
      \A k \in DOMAIN index : Pop /\ k \notin DOMAIN index' =>
        \A l \in DOMAIN index' :
          \/ Value[ToPriority(k[1])] > Value[ToPriority(l[1])]
          \/ k[1] = l[1] /\ k[2] < l[2]
<1>1. QueueInv => Ordered
  <2> SUFFICES ASSUME QueueInv, NEW k \in DOMAIN index, Pop, k \notin DOMAIN index',
                      NEW l \in DOMAIN index'
               PROVE  \/ Value[ToPriority(k[1])] > Value[ToPriority(l[1])]
                      \/ k[1] = l[1] /\ k[2] < l[2]
    OBVIOUS
  <2>1. PICK key \in DOMAIN index : IsNext(key) /\ index' = Without(index, key)
    BY DEF Pop
  <2>2. DOMAIN index' = DOMAIN index \ {key}
    BY <2>1 DEF Without
  <2>3. k = key /\ l \in DOMAIN index \ {key}
    BY <2>2
  <2>4. Before(k, l)
    BY <2>1, <2>3 DEF IsNext
  <2>5. k[1] \in Ranks /\ l[1] \in Ranks
    BY <2>3 DEF QueueInv
  <2> QED BY <2>4, <2>5, RankOrder DEF Before
<1>2. QueueInv => [Ordered]_vars
  BY <1>1
<1> QED BY <1>2, QueueInvariant, PTL DEF HighestFirst
-----------------------------------------------------------------------------
(* Types.                                                                  *)

\* What QueueInv leaves out of the types.
RestTypes ==
  /\ \A k \in DOMAIN index : index[k] \in Tasks
  /\ seq \in 0 .. MaxPushes
  /\ tickCount \in 0 .. TickInterval - 1
  /\ snapshot \in Seq(Tasks \X Priority)
  /\ passing \in BOOLEAN
  /\ dup \subseteq Tasks
  /\ since \in 0 .. MaxPushes
  /\ waited \in [DOMAIN waited -> 0 .. 2]

LEMMA IndexFinite ==
  ASSUME QueueInv
  PROVE  IsFiniteSet(DOMAIN index) /\ Cardinality(DOMAIN index) \in Nat
<1>1. DOMAIN index \subseteq Ranks \X (0 .. seq - 1)
  BY DEF QueueInv, EachPushOnce, Pushes
<1>2. IsFiniteSet(0 .. seq - 1)
  BY FS_Interval DEF QueueInv
<1>3. IsFiniteSet(Ranks)
  <2>1. Ranks \in SUBSET Nat /\ \A a \in Ranks : a <= 255
    BY DEF Ranks
  <2>2. 255 \in Nat
    OBVIOUS
  <2> QED BY <2>1, <2>2, FS_BoundedSetOfNaturals
<1>4. IsFiniteSet(Ranks \X (0 .. seq - 1))
  BY <1>2, <1>3, FS_Product
<1> QED BY <1>1, <1>4, FS_Subset, FS_CardinalityType

LEMMA ToPriorityType ==
  ASSUME NEW n \in Int
  PROVE  ToPriority(n) \in Priority
BY DEF ToPriority, Priority, Value

\* A snapshot lists tasks with their priorities.
LEMMA SnapshotType ==
  ASSUME QueueInv, RestTypes, TakeSnapshot
  PROVE  snapshot' \in Seq(Tasks \X Priority)
<1> DEFINE n == Cardinality(DOMAIN index)
<1>1. PICK keys \in SetToSeqs(DOMAIN index) :
        snapshot' = [i \in DOMAIN keys |-> <<index[keys[i]], ToPriority(keys[i][1])>>]
  BY DEF TakeSnapshot
<1>2. keys \in [1 .. n -> DOMAIN index] /\ n \in Nat
  BY IndexFinite DEF SetToSeqs
<1>3. \A k \in DOMAIN index : k[1] \in Int /\ index[k] \in Tasks
  BY DEF QueueInv, RestTypes, Ranks
<1>4. ASSUME NEW i \in 1 .. n
      PROVE  <<index[keys[i]], ToPriority(keys[i][1])>> \in Tasks \X Priority
  <2>1. keys[i] \in DOMAIN index
    BY <1>2
  <2>2. index[keys[i]] \in Tasks /\ ToPriority(keys[i][1]) \in Priority
    BY <1>3, <2>1, ToPriorityType
  <2> QED BY <2>2
<1> HIDE DEF n
<1>5. snapshot' \in [1 .. n -> Tasks \X Priority]
  BY <1>1, <1>2, <1>4
<1> QED BY <1>2, <1>5

\* Entries come from other entries or from the task a caller names.
LEMMA MoveTypes ==
  ASSUME QueueInv, \A k \in DOMAIN index : index[k] \in Tasks, NEW t, NEW p, Move(t, p)
  PROVE  \A k \in DOMAIN index' : index'[k] \in Tasks
<1>1. CASE t \notin DOMAIN reverse
  BY <1>1 DEF Move
<1>2. CASE t \in DOMAIN reverse
  <2> DEFINE old == reverse[t]
             new == <<RevPriority(p), old[2]>>
  <2>1. index' = Insert(Without(index, old), new, t)
    BY <1>2 DEF Move
  <2>2. t \in Tasks
    BY <1>2 DEF QueueInv, IndexAgrees
  <2> HIDE DEF old, new
  <2> QED BY <2>1, <2>2 DEF Insert, Without
<1> QED BY <1>1, <1>2

LEMMA RestInit == Init => RestTypes
<1> SUFFICES ASSUME Init PROVE RestTypes
  OBVIOUS
<1>1. snapshot \in Seq(Tasks \X Priority)
  BY EmptySeq DEF Init
<1>2. seq \in 0 .. MaxPushes /\ since \in 0 .. MaxPushes /\ tickCount \in 0 .. TickInterval - 1
  BY DynamicPriorityAssumption DEF Init
<1>3. passing \in BOOLEAN
  BY DEF Init
<1>4. /\ \A k \in DOMAIN index : index[k] \in Tasks
      /\ dup \subseteq Tasks
      /\ waited \in [DOMAIN waited -> 0 .. 2]
  BY DEF Init
<1> QED BY <1>1, <1>2, <1>3, <1>4 DEF RestTypes

LEMMA RestStep == QueueInv /\ RestTypes /\ [Next]_vars => RestTypes'
<1> SUFFICES ASSUME QueueInv, RestTypes, [Next]_vars PROVE RestTypes'
  OBVIOUS
<1> USE DEF queueVars, policyVars, history
<1>1. ASSUME NEW t \in Tasks, NEW p \in Levels, Push(t, p) PROVE RestTypes'
  <2>1. seq' \in 0 .. MaxPushes /\ UNCHANGED <<tickCount, snapshot, passing, since>>
    BY <1>1, DynamicPriorityAssumption DEF Push, RestTypes
  <2>2. dup' \subseteq Tasks
    BY <1>1 DEF Push, RestTypes
  <2>3. \A k \in DOMAIN index' : index'[k] \in Tasks
    BY <1>1 DEF Push, Insert, RestTypes
  <2>4. waited' \in [DOMAIN waited' -> 0 .. 2]
    BY <1>1 DEF Push, Insert, RestTypes
  <2> QED BY <2>1, <2>2, <2>3, <2>4 DEF RestTypes
<1>2. ASSUME NEW t \in Tasks, NEW p \in Levels, Reprioritize(t, p) PROVE RestTypes'
  <2>1. UNCHANGED <<seq, tickCount, snapshot, passing, dup, since>>
        /\ waited' = Without(waited, reverse[t][2])
    BY <1>2 DEF Reprioritize
  <2>2. \A k \in DOMAIN index' : index'[k] \in Tasks
    BY <1>2, MoveTypes DEF Reprioritize, RestTypes
  <2>3. waited' \in [DOMAIN waited' -> 0 .. 2]
    BY <2>1 DEF Without, RestTypes
  <2> QED BY <2>1, <2>2, <2>3 DEF RestTypes
<1>3. ASSUME NEW key, UNCHANGED <<seq, policyVars, dup, since>>,
             index' = Without(index, key), waited' = Without(waited, key[2])
      PROVE  RestTypes'
  <2>1. \A k \in DOMAIN index' : index'[k] \in Tasks
    BY <1>3 DEF Without, RestTypes
  <2>2. waited' \in [DOMAIN waited' -> 0 .. 2]
    BY <1>3 DEF Without, RestTypes
  <2> QED BY <1>3, <2>1, <2>2 DEF RestTypes
<1>4. ASSUME NEW t \in Tasks, Cancel(t) PROVE RestTypes'
  BY <1>3, <1>4 DEF Cancel
<1>5. CASE Pop
  BY <1>3, <1>5 DEF Pop
<1>6. CASE Tick
  <2>1. tickCount' \in 0 .. TickInterval - 1 /\ UNCHANGED <<index, seq, dup, waited>>
    BY <1>6, DynamicPriorityAssumption DEF Tick, RestTypes
  <2>2. CASE tickCount' = 0
    <3>1. TakeSnapshot
      BY <1>6, <2>2 DEF Tick
    <3>2. passing' \in BOOLEAN /\ since' \in 0 .. MaxPushes
      BY <3>1 DEF TakeSnapshot, RestTypes
    <3> QED BY <2>1, <3>1, <3>2, SnapshotType DEF RestTypes
  <2>3. CASE tickCount' # 0
    BY <1>6, <2>1, <2>3 DEF Tick, RestTypes
  <2> QED BY <2>2, <2>3
<1>7. CASE Escalate
  <2>1. TakeSnapshot /\ UNCHANGED <<index, seq, tickCount, dup, waited>>
    BY <1>7 DEF Escalate
  <2>2. passing' \in BOOLEAN /\ since' \in 0 .. MaxPushes
    BY <2>1 DEF TakeSnapshot, RestTypes
  <2> QED BY <2>1, <2>2, SnapshotType DEF RestTypes
<1>8. CASE EscalateNext
  <2>1. UNCHANGED <<seq, tickCount, passing, dup, since, waited>> /\ snapshot' = Tail(snapshot)
        /\ snapshot # <<>>
    BY <1>8 DEF EscalateNext
  <2>2. snapshot' \in Seq(Tasks \X Priority)
    BY <2>1, HeadTailProperties DEF RestTypes
  <2>3. Move(Head(snapshot)[1], "Normal") \/ Move(Head(snapshot)[1], "High")
        \/ UNCHANGED <<index, reverse>>
    BY <1>8 DEF EscalateNext
  <2>4. \A k \in DOMAIN index' : index'[k] \in Tasks
    BY <2>3, MoveTypes DEF RestTypes
  <2> QED BY <2>1, <2>2, <2>4 DEF RestTypes
<1>9. CASE EscalateEnd
  <2>1. UNCHANGED <<index, seq, tickCount, snapshot, dup>> /\ passing' = FALSE /\ since' = 0
    BY <1>9 DEF EscalateEnd
  <2>3. passing' \in BOOLEAN
    BY <2>1
  <2>4. since' \in 0 .. MaxPushes
    BY <2>1, DynamicPriorityAssumption
  <2>2. waited' \in [DOMAIN waited' -> 0 .. 2]
    BY <1>9 DEF EscalateEnd, RestTypes
  <2> QED BY <2>1, <2>2, <2>3, <2>4 DEF RestTypes
<1>10. CASE UNCHANGED vars
  BY <1>10 DEF vars, RestTypes
<1> QED BY <1>1, <1>2, <1>4, <1>5, <1>6, <1>7, <1>8, <1>9, <1>10 DEF Next, Policy

\* The types hold for any tasks, priorities, interval and number of pushes; in
\* particular every snapshot lists tasks of the scheduler with their priorities.
THEOREM SchedulerTypes == Spec => []TypeOK
<1>1. QueueInv /\ RestTypes => TypeOK
  <2> SUFFICES ASSUME QueueInv, RestTypes PROVE TypeOK
    OBVIOUS
  <2>1. \A k \in DOMAIN index : k \in Ranks \X Nat /\ k[2] \in 0 .. seq - 1
    BY DEF QueueInv, EachPushOnce, Pushes
  <2>2. DOMAIN index \subseteq Key
    BY <2>1, DynamicPriorityAssumption DEF Key, Ranks, RestTypes
  <2>3. \A t \in DOMAIN reverse : t \in Tasks /\ reverse[t] \in Key
    BY <2>2 DEF QueueInv, IndexAgrees, RestTypes
  <2>4. gone \subseteq 0 .. MaxPushes - 1
    BY DynamicPriorityAssumption DEF QueueInv, EachPushOnce, RestTypes
  <2> QED BY <2>2, <2>3, <2>4 DEF TypeOK, RestTypes
<1>2. Spec => [](QueueInv /\ RestTypes)
  BY QueueInit, QueueStep, RestInit, RestStep, PTL DEF Spec
<1> QED BY <1>1, <1>2, PTL

-----------------------------------------------------------------------------
(* Entries rise with the passes they wait through.                         *)

\* The lowest priority, as a rank, after so many whole passes.
Floor(passes) == IF passes = 0 THEN 255 ELSE IF passes = 1 THEN 250 ELSE 245

\* Entries whose passes are counted and mean something: a task pushed again
\* while queued hides its older entry from every pass.
Counted(k) == k[2] \in DOMAIN waited /\ index[k] \notin dup

\* Pushes made during a pass have not waited through one.
WaitInv ==
  /\ since \in Nat /\ since <= seq
  /\ \A s \in DOMAIN waited : s \in 0 .. seq - 1 /\ (passing /\ s >= since => waited[s] = 0)

FloorInv == \A k \in DOMAIN index : Counted(k) => k[1] <= Floor(waited[k[2]])

\* For an entry older than the pass, what is left of the snapshot either names
\* its task once, with the priority it still has, or has raised it already.
PassInv ==
  passing =>
    \A k \in DOMAIN index : Counted(k) /\ k[2] < since =>
      /\ \A i \in DOMAIN snapshot : snapshot[i][1] = index[k] => snapshot[i][2] = ToPriority(k[1])
      /\ \A i, j \in DOMAIN snapshot : snapshot[i][1] = index[k] /\ snapshot[j][1] = index[k] => i = j
      /\ (\A i \in DOMAIN snapshot : snapshot[i][1] # index[k]) => k[1] <= Floor(waited[k[2]] + 1)

AgeInv == WaitInv /\ FloorInv /\ PassInv

\* The ranks between the bounds that Priority::from(u8) puts on a priority.
LEMMA RankPriority ==
  ASSUME NEW a \in Ranks
  PROVE  /\ ToPriority(a) = "Low" <=> a = 255
         /\ ToPriority(a) = "Normal" <=> a = 250
         /\ ToPriority(a) \in {"High", "Critical"} <=> a <= 245
         /\ a \in Nat /\ a <= 255
BY DEF Ranks, ToPriority

\* Steps outside a pass: an entry is an old one untouched, or a new one.
LEMMA AgeKeep ==
  ASSUME AgeInv, QueueInv, WaitInv', UNCHANGED <<snapshot, passing, since>>,
         \A k \in DOMAIN index' : Counted(k)' =>
            \/ /\ k \in DOMAIN index /\ Counted(k)
               /\ index'[k] = index[k] /\ waited'[k[2]] = waited[k[2]]
            \/ k[1] <= 255 /\ waited'[k[2]] = 0 /\ k[2] \in Nat /\ k[2] >= since
  PROVE  AgeInv'
<1>1. FloorInv'
  BY DEF AgeInv, FloorInv, Floor
<1>2. PassInv'
  <2> SUFFICES ASSUME passing, NEW k \in DOMAIN index', Counted(k)', k[2] < since
               PROVE  /\ \A i \in DOMAIN snapshot :
                           snapshot[i][1] = index'[k] => snapshot[i][2] = ToPriority(k[1])
                      /\ \A i, j \in DOMAIN snapshot :
                           snapshot[i][1] = index'[k] /\ snapshot[j][1] = index'[k] => i = j
                      /\ (\A i \in DOMAIN snapshot : snapshot[i][1] # index'[k]) =>
                           k[1] <= Floor(waited'[k[2]] + 1)
    BY DEF PassInv
  <2>1. /\ k \in DOMAIN index /\ Counted(k)
        /\ index'[k] = index[k] /\ waited'[k[2]] = waited[k[2]]
    BY DEF AgeInv, WaitInv
  <2> QED BY <2>1 DEF AgeInv, PassInv
<1> QED BY <1>1, <1>2 DEF AgeInv

LEMMA AgePush ==
  ASSUME AgeInv, QueueInv, NEW t \in Tasks, NEW p \in Levels, Push(t, p)
  PROVE  AgeInv'
<1>0. PICK key : key = <<RevPriority(p), seq>>
  OBVIOUS
<1>1. /\ seq \in Nat /\ seq' = seq + 1
      /\ index' = Insert(index, key, t)
      /\ waited' = Insert(waited, seq, 0)
      /\ UNCHANGED <<snapshot, passing, since>>
      /\ dup' = IF t \in {index[k] : k \in DOMAIN index} THEN dup \cup {t} ELSE dup
  BY <1>0 DEF Push, QueueInv, policyVars
<1>2. key[1] \in Ranks /\ key[2] = seq
  BY <1>0, RevPriorityType, DynamicPriorityAssumption
<1>3. \A k \in DOMAIN index : k[2] \in 0 .. seq - 1
  BY DEF QueueInv, EachPushOnce, Pushes
<1>4. /\ DOMAIN waited' = DOMAIN waited \cup {seq} /\ waited'[seq] = 0
      /\ \A s \in DOMAIN waited \ {seq} : waited'[s] = waited[s]
  BY <1>1 DEF Insert
<1>5. /\ DOMAIN index' = DOMAIN index \cup {key}
      /\ \A k \in DOMAIN index \ {key} : index'[k] = index[k]
  BY <1>1 DEF Insert
<1>6. WaitInv'
  BY <1>1, <1>4 DEF AgeInv, WaitInv
<1>7. ASSUME NEW k \in DOMAIN index', Counted(k)'
      PROVE  \/ /\ k \in DOMAIN index /\ Counted(k)
                /\ index'[k] = index[k] /\ waited'[k[2]] = waited[k[2]]
             \/ k[1] <= 255 /\ waited'[k[2]] = 0 /\ k[2] \in Nat /\ k[2] >= since
  <2>1. CASE k = key
    BY <1>1, <1>2, <1>4, <2>1 DEF AgeInv, WaitInv, Ranks
  <2>2. CASE k # key
    BY <1>1, <1>3, <1>4, <1>5, <1>7, <2>2 DEF Counted
  <2> QED BY <2>1, <2>2
<1> QED BY <1>1, <1>6, <1>7, AgeKeep

\* pop, remove and reprioritize: one entry goes, or is counted no longer.
LEMMA AgeDrop ==
  ASSUME AgeInv, QueueInv, NEW key \in DOMAIN index,
         waited' = Without(waited, key[2]),
         UNCHANGED <<seq, policyVars, dup, since>>,
         \A k \in DOMAIN index' :
            k[2] = key[2] \/ (k \in DOMAIN index /\ index'[k] = index[k])
  PROVE  AgeInv'
<1>1. /\ DOMAIN waited' = DOMAIN waited \ {key[2]}
      /\ \A s \in DOMAIN waited' : waited'[s] = waited[s]
  BY DEF Without
<1>2. UNCHANGED <<snapshot, passing, since>>
  BY DEF policyVars
<1>3. WaitInv'
  BY <1>1, <1>2 DEF AgeInv, WaitInv
<1>4. \A k \in DOMAIN index' : Counted(k)' =>
        k \in DOMAIN index /\ Counted(k) /\ index'[k] = index[k] /\ waited'[k[2]] = waited[k[2]]
  BY <1>1 DEF Counted
<1> QED BY <1>2, <1>3, <1>4, AgeKeep

\* A pass begins: the snapshot lists each queued task with its priority.
LEMMA AgeSnapshot ==
  ASSUME AgeInv, QueueInv, TakeSnapshot, ~passing,
         UNCHANGED <<index, seq, dup, waited>>
  PROVE  AgeInv'
<1>1. PICK keys \in SetToSeqs(DOMAIN index) :
        snapshot' = [i \in DOMAIN keys |-> <<index[keys[i]], ToPriority(keys[i][1])>>]
  BY DEF TakeSnapshot
<1>2. /\ IsInjective(keys) /\ ToSet(keys) = DOMAIN index
  BY IndexFinite, ListingFacts
<1>3. \A i \in DOMAIN keys : keys[i] \in DOMAIN index
  BY <1>2 DEF ToSet
<1>4. /\ DOMAIN snapshot' = DOMAIN keys
      /\ \A i \in DOMAIN keys : /\ snapshot'[i][1] = index[keys[i]]
                                /\ snapshot'[i][2] = ToPriority(keys[i][1])
  BY <1>1
<1>5. since' = seq /\ seq \in Nat /\ passing' = TRUE
  BY DEF TakeSnapshot, QueueInv
<1>6. WaitInv'
  BY <1>5 DEF AgeInv, WaitInv
<1>7. FloorInv'
  BY DEF AgeInv, FloorInv, Counted
<1>8. PassInv'
  <2> SUFFICES ASSUME NEW k \in DOMAIN index, Counted(k)
               PROVE  /\ \A i \in DOMAIN snapshot' :
                           snapshot'[i][1] = index[k] => snapshot'[i][2] = ToPriority(k[1])
                      /\ \A i, j \in DOMAIN snapshot' :
                           snapshot'[i][1] = index[k] /\ snapshot'[j][1] = index[k] => i = j
                      /\ \E i \in DOMAIN snapshot' : snapshot'[i][1] = index[k]
    BY DEF PassInv, Counted
  <2>1. \A i \in DOMAIN keys : index[keys[i]] = index[k] => keys[i] = k
    BY <1>3 DEF QueueInv, Counted
  <2>2. \E i \in DOMAIN keys : keys[i] = k
    BY <1>2 DEF ToSet
  <2>3. \A i, j \in DOMAIN keys : keys[i] = keys[j] => i = j
    BY <1>2 DEF IsInjective
  <2> QED BY <1>4, <2>1, <2>2, <2>3
<1> QED BY <1>6, <1>7, <1>8 DEF AgeInv

\* A pass ends: whatever is older than it has been raised.
LEMMA AgeEnd ==
  ASSUME AgeInv, RestTypes, QueueInv, EscalateEnd
  PROVE  AgeInv'
<1>1. /\ passing /\ snapshot = <<>> /\ passing' = FALSE /\ since' = 0
      /\ DOMAIN waited' = DOMAIN waited
      /\ \A s \in DOMAIN waited :
            waited'[s] = IF s < since /\ waited[s] < 2 THEN waited[s] + 1 ELSE waited[s]
      /\ UNCHANGED <<index, seq, dup>>
  BY DEF EscalateEnd, queueVars
<1>2. WaitInv'
  BY <1>1 DEF AgeInv, WaitInv, QueueInv
<1>3. FloorInv'
  <2> SUFFICES ASSUME NEW k \in DOMAIN index, Counted(k)
               PROVE  k[1] <= Floor(waited'[k[2]])
    BY <1>1 DEF FloorInv, Counted
  <2>1. k[1] <= Floor(waited[k[2]]) /\ k[2] \in DOMAIN waited /\ waited[k[2]] \in 0 .. 2
    BY DEF AgeInv, FloorInv, Counted, RestTypes
  <2>2. k[2] < since => k[1] <= Floor(waited[k[2]] + 1)
    BY <1>1, EmptySeq DEF AgeInv, PassInv
  <2> QED BY <1>1, <2>1, <2>2 DEF Floor
<1>4. PassInv'
  BY <1>1 DEF PassInv
<1> QED BY <1>2, <1>3, <1>4 DEF AgeInv

\* One task of the snapshot: its entry, if it has waited since before the pass,
\* still has the priority the snapshot names, and goes up one; the others stay.
LEMMA AgeEscalate ==
  ASSUME AgeInv, RestTypes, QueueInv, EscalateNext
  PROVE  AgeInv'
<1>0. PICK t, p : t = Head(snapshot)[1] /\ p = Head(snapshot)[2]
  OBVIOUS
<1>1. /\ passing /\ snapshot # <<>> /\ snapshot' = Tail(snapshot)
      /\ UNCHANGED <<seq, passing, dup, since, waited>>
  BY DEF EscalateNext, history
<1>2. /\ Len(snapshot) \in Nat \ {0} /\ DOMAIN snapshot = 1 .. Len(snapshot)
      /\ snapshot[1] = <<t, p>> /\ p \in Priority
      /\ DOMAIN snapshot' = 1 .. Len(snapshot) - 1
      /\ \A i \in DOMAIN snapshot' : i + 1 \in DOMAIN snapshot /\ snapshot'[i] = snapshot[i + 1]
  <2>1. snapshot \in Seq(Tasks \X Priority)
    BY DEF RestTypes
  <2>2. /\ Len(snapshot) \in Nat \ {0} /\ DOMAIN snapshot = 1 .. Len(snapshot)
        /\ Head(snapshot) = snapshot[1] /\ Head(snapshot) \in Tasks \X Priority
    BY <1>1, <2>1, EmptySeq, LenProperties, HeadTailProperties
  <2>3. /\ Len(snapshot') = Len(snapshot) - 1 /\ DOMAIN snapshot' = 1 .. Len(snapshot')
        /\ \A i \in 1 .. Len(snapshot) - 1 : snapshot'[i] = snapshot[i + 1]
    BY <1>1, <2>1, <2>2, HeadTailProperties, LenProperties
  <2> QED BY <1>0, <2>2, <2>3
<1>3. WaitInv'
  BY <1>1 DEF AgeInv, WaitInv
<1>4. CASE t \in DOMAIN reverse /\ p \in {"Low", "Normal"}
  <2>1. PICK q \in {"Normal", "High"} : Move(t, q) /\ q = (IF p = "Low" THEN "Normal" ELSE "High")
    BY <1>0, <1>4 DEF EscalateNext
  <2>2. q \in Priority /\ RevPriority(q) = (IF p = "Low" THEN 250 ELSE 245)
    BY <2>1 DEF Priority, RevPriority, Value
  <2>3. PICK old, new : old = reverse[t] /\ new = <<RevPriority(q), old[2]>>
    OBVIOUS
  <2>4. RevPriority(q) \in Ranks /\ index' = Insert(Without(index, old), new, t)
    BY <1>4, <2>1, <2>2, <2>3, RevPriorityType DEF Move
  <2>5. /\ old \in DOMAIN index /\ index[old] = t /\ new[2] = old[2]
        /\ new[1] = (IF p = "Low" THEN 250 ELSE 245)
        /\ DOMAIN index' = (DOMAIN index \ {old}) \cup {new} /\ index'[new] = t
        /\ \A k \in DOMAIN index \ {old} : k # new /\ k[2] # old[2] /\ index'[k] = index[k]
    BY <1>4, <2>2, <2>3, <2>4, MoveFacts
  <2>6. ASSUME Counted(new)'
        PROVE  /\ new[1] <= Floor(waited[new[2]])
               /\ new[2] < since =>
                    /\ new[1] <= Floor(waited[new[2]] + 1)
                    /\ \A i \in DOMAIN snapshot' : snapshot'[i][1] # t
    <3>1. Counted(old) /\ waited[old[2]] \in 0 .. 2 /\ old[1] \in Ranks /\ old[2] \in Nat
      BY <1>1, <2>5, <2>6 DEF Counted, RestTypes, QueueInv
    <3>2. CASE old[2] < since
      <4>1. ToPriority(old[1]) = p /\ \A i \in DOMAIN snapshot \ {1} : snapshot[i][1] # t
        BY <1>1, <1>2, <2>5, <3>1, <3>2 DEF AgeInv, PassInv
      <4>2. old[1] = (IF p = "Low" THEN 255 ELSE 250) /\ old[1] <= Floor(waited[old[2]])
        BY <1>4, <2>5, <3>1, <4>1, RankPriority DEF AgeInv, FloorInv
      <4>3. \A i \in DOMAIN snapshot' : snapshot'[i][1] # t
        BY <1>2, <4>1
      <4> QED BY <1>1, <1>4, <2>5, <3>1, <4>2, <4>3 DEF Floor
    <3>3. CASE ~(old[2] < since)
      <4>1. waited[old[2]] = 0
        BY <1>1, <3>1, <3>3 DEF AgeInv, WaitInv, Counted
      <4> QED BY <1>1, <1>4, <2>5, <3>3, <4>1 DEF Floor
    <3> QED BY <3>2, <3>3
  <2>7. ASSUME NEW k \in DOMAIN index \ {old}, Counted(k)'
        PROVE  Counted(k) /\ index[k] # t
    BY <1>1, <2>5, <2>7 DEF Counted, QueueInv
  <2>8. FloorInv'
    BY <1>1, <2>5, <2>6, <2>7 DEF AgeInv, FloorInv
  <2>9. PassInv'
    <3> SUFFICES ASSUME NEW k \in DOMAIN index', Counted(k)', k[2] < since
                 PROVE  /\ \A i \in DOMAIN snapshot' :
                             snapshot'[i][1] = index'[k] => snapshot'[i][2] = ToPriority(k[1])
                        /\ \A i, j \in DOMAIN snapshot' :
                             snapshot'[i][1] = index'[k] /\ snapshot'[j][1] = index'[k] => i = j
                        /\ (\A i \in DOMAIN snapshot' : snapshot'[i][1] # index'[k]) =>
                             k[1] <= Floor(waited[k[2]] + 1)
      BY <1>1 DEF PassInv
    <3>1. CASE k = new
      BY <2>5, <2>6, <3>1
    <3>2. CASE k # new
      <4>1. k \in DOMAIN index \ {old} /\ index'[k] = index[k] /\ Counted(k) /\ index[k] # t
        BY <2>5, <2>7, <3>2
      <4>2. /\ \A i \in DOMAIN snapshot : snapshot[i][1] = index[k] => snapshot[i][2] = ToPriority(k[1])
            /\ \A i, j \in DOMAIN snapshot :
                  snapshot[i][1] = index[k] /\ snapshot[j][1] = index[k] => i = j
            /\ (\A i \in DOMAIN snapshot : snapshot[i][1] # index[k]) => k[1] <= Floor(waited[k[2]] + 1)
        BY <1>1, <4>1 DEF AgeInv, PassInv
      <4>3. (\A i \in DOMAIN snapshot' : snapshot'[i][1] # index[k]) =>
               \A i \in DOMAIN snapshot : snapshot[i][1] # index[k]
        <5>1. \A i \in DOMAIN snapshot : i = 1 \/ (i - 1 \in DOMAIN snapshot' /\ snapshot'[i - 1] = snapshot[i])
          BY <1>2
        <5> QED BY <1>2, <4>1, <5>1
      <4> QED BY <1>2, <4>1, <4>2, <4>3
    <3> QED BY <3>1, <3>2
  <2> QED BY <1>3, <2>8, <2>9 DEF AgeInv
<1>5. CASE ~(t \in DOMAIN reverse /\ p \in {"Low", "Normal"})
  <2>1. index' = index
    BY <1>0, <1>5 DEF EscalateNext, Move
  <2>2. FloorInv'
    BY <1>1, <2>1 DEF AgeInv, FloorInv, Counted
  <2>3. PassInv'
    <3> SUFFICES ASSUME NEW k \in DOMAIN index, Counted(k), k[2] < since
                 PROVE  /\ \A i \in DOMAIN snapshot' :
                             snapshot'[i][1] = index[k] => snapshot'[i][2] = ToPriority(k[1])
                        /\ \A i, j \in DOMAIN snapshot' :
                             snapshot'[i][1] = index[k] /\ snapshot'[j][1] = index[k] => i = j
                        /\ (\A i \in DOMAIN snapshot' : snapshot'[i][1] # index[k]) =>
                             k[1] <= Floor(waited[k[2]] + 1)
      BY <1>1, <2>1 DEF PassInv, Counted
    <3>1. /\ \A i \in DOMAIN snapshot : snapshot[i][1] = index[k] => snapshot[i][2] = ToPriority(k[1])
          /\ \A i, j \in DOMAIN snapshot :
                snapshot[i][1] = index[k] /\ snapshot[j][1] = index[k] => i = j
          /\ (\A i \in DOMAIN snapshot : snapshot[i][1] # index[k]) => k[1] <= Floor(waited[k[2]] + 1)
      BY <1>1 DEF AgeInv, PassInv
    <3>2. CASE index[k] = t
      <4>1. t \in DOMAIN reverse
        BY <3>2 DEF Counted, QueueInv, IndexAgrees
      <4>2. ToPriority(k[1]) = p /\ p \notin {"Low", "Normal"} /\ p \in {"Low", "Normal", "High", "Critical"}
        BY <1>2, <1>5, <3>1, <3>2, <4>1 DEF Priority, Value
      <4>3. k[1] <= 245 /\ k[1] \in Nat
        BY <4>2, RankPriority DEF QueueInv
      <4>4. waited[k[2]] \in 0 .. 2
        BY DEF Counted, RestTypes
      <4> QED BY <1>2, <3>1, <4>3, <4>4 DEF Floor
    <3>3. CASE index[k] # t
      <4>1. \A i \in DOMAIN snapshot : i = 1 \/ (i - 1 \in DOMAIN snapshot' /\ snapshot'[i - 1] = snapshot[i])
        BY <1>2
      <4>2. (\A i \in DOMAIN snapshot' : snapshot'[i][1] # index[k]) =>
               \A i \in DOMAIN snapshot : snapshot[i][1] # index[k]
        BY <1>2, <3>3, <4>1
      <4> QED BY <1>2, <3>1, <4>2
    <3> QED BY <3>2, <3>3
  <2> QED BY <1>3, <2>2, <2>3 DEF AgeInv
<1> QED BY <1>4, <1>5

LEMMA AgeStep == QueueInv /\ RestTypes /\ AgeInv /\ [Next]_vars => AgeInv'
<1> SUFFICES ASSUME QueueInv, RestTypes, AgeInv, [Next]_vars PROVE AgeInv'
  OBVIOUS
<1> USE DEF queueVars, policyVars, history
<1>1. CASE \E t \in Tasks, p \in Levels : Push(t, p)
  BY <1>1, AgePush
<1>2. ASSUME NEW t \in Tasks, NEW p \in Levels, Reprioritize(t, p) PROVE AgeInv'
  <2>1. PICK old, new : old = reverse[t] /\ new = <<RevPriority(p), old[2]>>
    OBVIOUS
  <2>2. /\ t \in DOMAIN reverse /\ RevPriority(p) \in Ranks
        /\ index' = Insert(Without(index, old), new, t)
        /\ waited' = Without(waited, old[2]) /\ UNCHANGED <<seq, policyVars, dup, since>>
    BY <1>2, <2>1, DynamicPriorityAssumption, RevPriorityType DEF Reprioritize, Move
  <2>3. /\ old \in DOMAIN index /\ new[2] = old[2]
        /\ DOMAIN index' = (DOMAIN index \ {old}) \cup {new}
        /\ \A k \in DOMAIN index \ {old} : k # new /\ k[2] # old[2] /\ index'[k] = index[k]
    BY <2>1, <2>2, MoveFacts
  <2>4. \A k \in DOMAIN index' :
           k[2] = old[2] \/ (k \in DOMAIN index /\ index'[k] = index[k])
    BY <2>3
  <2> QED BY <2>2, <2>3, <2>4, AgeDrop
<1>3. ASSUME NEW key \in DOMAIN index, index' = Without(index, key),
             waited' = Without(waited, key[2]), UNCHANGED <<seq, policyVars, dup, since>>
      PROVE  AgeInv'
  <2>1. \A k \in DOMAIN index' : k \in DOMAIN index /\ index'[k] = index[k]
    BY <1>3 DEF Without
  <2> QED BY <1>3, <2>1, AgeDrop
<1>4. ASSUME NEW t \in Tasks, Cancel(t) PROVE AgeInv'
  <2>1. reverse[t] \in DOMAIN index
    BY <1>4 DEF Cancel, QueueInv, IndexAgrees
  <2> QED BY <1>3, <1>4, <2>1 DEF Cancel
<1>5. CASE Pop
  BY <1>3, <1>5 DEF Pop
<1>6. ASSUME UNCHANGED <<index, seq, dup, waited, passing, since, snapshot>> PROVE AgeInv'
  BY <1>6 DEF AgeInv, WaitInv, FloorInv, PassInv, Counted
<1>7. CASE Tick
  <2>1. CASE tickCount' = 0
    BY <1>7, <2>1, AgeSnapshot DEF Tick
  <2>2. CASE tickCount' # 0
    BY <1>6, <1>7, <2>2 DEF Tick
  <2> QED BY <2>1, <2>2
<1>8. CASE Escalate
  BY <1>8, AgeSnapshot DEF Escalate
<1>9. CASE UNCHANGED vars
  BY <1>6, <1>9 DEF vars
<1> QED BY <1>1, <1>2, <1>4, <1>5, <1>7, <1>8, <1>9, AgeEscalate, AgeEnd DEF Next, Policy

\* No starvation by age: an entry that has been in the queue through two whole
\* passes, whose task was not pushed again and whose priority no caller has
\* changed, has at least high priority, although each pass works from a stale
\* snapshot while other threads push, pop, remove and reprioritize
\* (escalate, dynamic_priority.rs).
THEOREM NoStarvation == Spec => []AgedTasksHigh
<1>1. Init => AgeInv
  BY DEF Init, AgeInv, WaitInv, FloorInv, PassInv
<1>2. Spec => [](QueueInv /\ RestTypes /\ AgeInv)
  BY <1>1, QueueInit, QueueStep, RestInit, RestStep, AgeStep, PTL DEF Spec
<1>3. QueueInv /\ AgeInv => AgedTasksHigh
  <2> SUFFICES ASSUME QueueInv, AgeInv, NEW k \in DOMAIN index, Counted(k), waited[k[2]] = 2
               PROVE  ToPriority(k[1]) \in {"High", "Critical"}
    BY DEF AgedTasksHigh, Counted
  <2>1. k[1] <= 245 /\ k[1] \in Ranks
    BY DEF AgeInv, FloorInv, Floor, QueueInv
  <2> QED BY <2>1, RankPriority
<1> QED BY <1>2, <1>3, PTL

=============================================================================
