--------------------------- MODULE DynamicPriority ---------------------------
(***************************************************************************)
(* The shared scheduler whose queued tasks may change priority, and the    *)
(* escalation policy that raises those that wait                           *)
(* (src/src/dynamic_priority.rs).                                          *)
(*                                                                         *)
(* Every operation of the scheduler is one critical section of its mutex.  *)
(* An escalation pass is not: it takes a snapshot under the mutex, then    *)
(* locks it again for each task of the snapshot, while the other threads   *)
(* push, pop, remove and reprioritize.                                     *)
(***************************************************************************)
EXTENDS Integers, SequencesExt

CONSTANTS
  Tasks,          \* the TaskIds in use
  Levels,         \* the priorities callers ask for
  TickInterval,   \* tick_interval
  MaxPushes       \* bound: calls of push

VARIABLES
  index,       \* BTreeMap: <<RevPriority, SeqNum>> -> TaskId
  reverse,     \* HashMap: TaskId -> its key in index
  seq,         \* the next SeqNum
  tickCount,   \* tick_count, modulo tick_interval
  snapshot,    \* what is left of the snapshot of the current pass
  passing,     \* an escalation pass is under way
  dup,         \* history: tasks pushed again while queued
  gone,        \* history: pushes popped or removed
  since,       \* history: pushes before the snapshot of the current pass
  waited       \* history: queued push whose priority no caller has changed
               \* -> whole passes it has waited through, 2 for more

queueVars  == <<index, reverse, seq>>
policyVars == <<tickCount, snapshot, passing>>
history == <<dup, gone, since, waited>>
vars == <<queueVars, policyVars, history>>

-----------------------------------------------------------------------------
(* Priorities and keys.                                                    *)

Value == [Low |-> 0, Normal |-> 5, High |-> 10, Critical |-> 15]

Priority == DOMAIN Value

ASSUME DynamicPriorityAssumption ==
  /\ IsFiniteSet(Tasks)
  /\ Levels \subseteq Priority
  /\ TickInterval \in Nat \ {0}   \* tick divides by it
  /\ MaxPushes \in Nat

RevPriority(p) == 255 - Value[p]

\* Priority::from(u8) accepts a range of numbers for each priority.
ToPriority(rev) ==
  CASE 255 - rev \in 0 .. 2  -> "Low"
    [] 255 - rev \in 3 .. 7  -> "Normal"
    [] 255 - rev \in 8 .. 12 -> "High"
    [] OTHER                 -> "Critical"

Before(k, l) == k[1] < l[1] \/ (k[1] = l[1] /\ k[2] < l[2])

\* insert and remove of both maps.
Insert(f, k, v) == [x \in DOMAIN f \cup {k} |-> IF x = k THEN v ELSE f[x]]
Without(f, k)   == [x \in DOMAIN f \ {k} |-> f[x]]

Pushes == {k[2] : k \in DOMAIN index}

-----------------------------------------------------------------------------
(* The operations of the scheduler.                                        *)

Init ==
  /\ index = <<>> /\ reverse = <<>> /\ seq = 0
  /\ tickCount = 0 /\ snapshot = <<>> /\ passing = FALSE
  /\ dup = {} /\ gone = {} /\ since = 0 /\ waited = <<>>

\* A task that is queued already gets a second entry; the reverse map forgets
\* the first one.
Push(t, p) ==
  LET key == <<RevPriority(p), seq>> IN
  /\ seq < MaxPushes
  /\ seq' = seq + 1
  /\ index' = Insert(index, key, t)
  /\ reverse' = Insert(reverse, t, key)
  /\ dup' = IF t \in {index[k] : k \in DOMAIN index} THEN dup \cup {t} ELSE dup
  /\ waited' = Insert(waited, seq, 0)
  /\ UNCHANGED <<policyVars, gone, since>>

\* Mutant: the last entry.
IsLast(key) == key \in DOMAIN index /\ \A k \in DOMAIN index \ {key} : Before(k, key)

\* The first entry of the BTreeMap.
IsNext(key) == key \in DOMAIN index /\ \A k \in DOMAIN index \ {key} : Before(key, k)

\* Mutant: the reverse map keeps what was popped.
PopIndexOnly ==
  \E key \in DOMAIN index :
    /\ IsNext(key)
    /\ index' = Without(index, key)
    /\ gone' = gone \cup {key[2]}
    /\ waited' = Without(waited, key[2])
    /\ UNCHANGED <<reverse, seq, policyVars, dup, since>>

Pop ==
  \E key \in DOMAIN index :
    /\ IsNext(key)
    /\ index' = Without(index, key)
    /\ reverse' = Without(reverse, index[key])
    /\ gone' = gone \cup {key[2]}
    /\ waited' = Without(waited, key[2])
    /\ UNCHANGED <<seq, policyVars, dup, since>>

\* Mutant: a task that is no longer queued is inserted all the same.
MoveAnyway(t, p) ==
  LET old == IF t \in DOMAIN reverse THEN reverse[t] ELSE <<RevPriority(p), 0>>
      new == <<RevPriority(p), old[2]>>
  IN  /\ index' = Insert(Without(index, old), new, t)
      /\ reverse' = Insert(reverse, t, new)

\* The body of reprioritize: the entry moves, its sequence number stays.
Move(t, p) ==
  IF t \in DOMAIN reverse
  THEN LET old == reverse[t]
           new == <<RevPriority(p), old[2]>>
       IN  /\ index' = Insert(Without(index, old), new, t)
           /\ reverse' = Insert(reverse, t, new)
  ELSE UNCHANGED <<index, reverse>>

\* reprioritize of the scheduler or of a PriorityHandle, which knows its task
\* by the TaskId alone.
Reprioritize(t, p) ==
  /\ t \in DOMAIN reverse
  /\ Move(t, p)
  /\ waited' = Without(waited, reverse[t][2])
  /\ UNCHANGED <<seq, policyVars, dup, gone, since>>

\* remove, and cancel of a PriorityHandle.
Cancel(t) ==
  /\ t \in DOMAIN reverse
  /\ index' = Without(index, reverse[t])
  /\ reverse' = Without(reverse, t)
  /\ gone' = gone \cup {reverse[t][2]}
  /\ waited' = Without(waited, reverse[t][2])
  /\ UNCHANGED <<seq, policyVars, dup, since>>

-----------------------------------------------------------------------------
(* The escalation policy.                                                  *)

\* snapshot: every entry of the index, in its order.
TakeSnapshot ==
  /\ passing' = TRUE
  /\ since' = seq
  /\ \E keys \in SetToSeqs(DOMAIN index) :
        /\ \A i, j \in DOMAIN keys : i < j => Before(keys[i], keys[j])
        /\ snapshot' = [i \in DOMAIN keys |-> <<index[keys[i]], ToPriority(keys[i][1])>>]

\* Mutant: the counter starts over before it reaches the interval.
TickOver ==
  /\ ~passing
  /\ tickCount' = (tickCount + 1) % TickInterval
  /\ IF tickCount' = TickInterval
     THEN TakeSnapshot
     ELSE UNCHANGED <<snapshot, passing, since>>
  /\ UNCHANGED <<queueVars, dup, gone, waited>>

\* tick; one in tick_interval of them starts a pass.
Tick ==
  /\ ~passing
  /\ tickCount' = (tickCount + 1) % TickInterval
  /\ IF tickCount' = 0
     THEN TakeSnapshot
     ELSE UNCHANGED <<snapshot, passing, since>>
  /\ UNCHANGED <<queueVars, dup, gone, waited>>

\* A pass forced by a direct call of escalate.
Escalate ==
  /\ ~passing
  /\ TakeSnapshot
  /\ UNCHANGED <<queueVars, tickCount, dup, gone, waited>>

\* Mutant: only tasks of low priority are raised.
EscalateLowOnly ==
  LET t == Head(snapshot)[1]
      p == Head(snapshot)[2]
  IN
  /\ passing /\ snapshot # <<>>
  /\ snapshot' = Tail(snapshot)
  /\ IF p = "Low" THEN Move(t, "Normal") ELSE UNCHANGED <<index, reverse>>
  /\ UNCHANGED <<seq, tickCount, passing, history>>

\* One iteration: the priority comes from the snapshot, the task is looked up
\* again, and nobody compares the two.
EscalateNext ==
  LET t == Head(snapshot)[1]
      p == Head(snapshot)[2]
  IN
  /\ passing /\ snapshot # <<>>
  /\ snapshot' = Tail(snapshot)
  /\ CASE p = "Low"    -> Move(t, "Normal")
       [] p = "Normal" -> Move(t, "High")
       [] OTHER        -> UNCHANGED <<index, reverse>>
  /\ UNCHANGED <<seq, tickCount, passing, history>>

EscalateEnd ==
  /\ passing /\ snapshot = <<>>
  /\ passing' = FALSE
  /\ waited' = [s \in DOMAIN waited |->
                  IF s < since /\ waited[s] < 2 THEN waited[s] + 1 ELSE waited[s]]
  /\ since' = 0
  /\ UNCHANGED <<queueVars, tickCount, snapshot, dup, gone>>

-----------------------------------------------------------------------------

Policy == Tick \/ Escalate \/ EscalateNext \/ EscalateEnd

Next ==
  \/ \E t \in Tasks, p \in Levels : Push(t, p) \/ Reprioritize(t, p)
  \/ \E t \in Tasks : Cancel(t)
  \/ Pop
  \/ Policy

\* The scheduler loop keeps calling tick; nothing is assumed of the others.
Fairness == WF_vars(Tick \/ EscalateNext \/ EscalateEnd)

Spec == Init /\ [][Next]_vars /\ Fairness

-----------------------------------------------------------------------------
(* Properties.                                                             *)

Key == (240 .. 255) \X (0 .. MaxPushes - 1)

\* Types of the variables.
TypeOK ==
  /\ DOMAIN index \subseteq Key /\ \A k \in DOMAIN index : index[k] \in Tasks
  /\ DOMAIN reverse \subseteq Tasks /\ \A t \in DOMAIN reverse : reverse[t] \in Key
  /\ seq \in 0 .. MaxPushes
  /\ tickCount \in 0 .. TickInterval - 1
  /\ snapshot \in Seq(Tasks \X Priority)
  /\ passing \in BOOLEAN
  /\ dup \subseteq Tasks
  /\ gone \subseteq 0 .. MaxPushes - 1
  /\ since \in 0 .. MaxPushes
  /\ waited \in [DOMAIN waited -> 0 .. 2]

\* The two maps of the scheduler agree, whatever a pass in progress does to
\* them: a task a handle can find is in the index at the key the handle uses,
\* and a queued task that was never pushed twice can be found.
IndexAgrees ==
  /\ \A t \in DOMAIN reverse : reverse[t] \in DOMAIN index /\ index[reverse[t]] = t
  /\ \A k \in DOMAIN index : index[k] \in DOMAIN reverse \cup dup

\* Every push is accounted for: it is queued under one key or it has been popped
\* or removed, never both; in particular a pass that works from a stale
\* snapshot does not bring back a task that has left the queue.
EachPushOnce ==
  /\ \A k, l \in DOMAIN index : k[2] = l[2] => k = l
  /\ Pushes \cap gone = {}
  /\ Pushes \cup gone = 0 .. seq - 1

\* No starvation by age: a task that has waited through two whole passes, and
\* whose priority nobody else changed, has high priority at least.
AgedTasksHigh ==
  \A k \in DOMAIN index :
    k[2] \in DOMAIN waited /\ waited[k[2]] = 2 /\ index[k] \notin dup
      => ToPriority(k[1]) \in {"High", "Critical"}

\* pop hands out a task of the highest priority in the queue, and of those the
\* one pushed first, wherever reprioritize has moved them.
HighestFirst ==
  [][\A k \in DOMAIN index : Pop /\ k \notin DOMAIN index' =>
       \A l \in DOMAIN index' :
         \/ Value[ToPriority(k[1])] > Value[ToPriority(l[1])]
         \/ k[1] = l[1] /\ k[2] < l[2]]_vars

\* A task that is not popped, removed or moved by hand comes to have high
\* priority, as long as tick is called.
EventuallyHigh ==
  \A s \in 0 .. MaxPushes - 1 :
    s \in DOMAIN waited ~>
      \/ s \notin DOMAIN waited
      \/ \E k \in DOMAIN index :
            /\ k[2] = s
            /\ index[k] \in dup \/ ToPriority(k[1]) \in {"High", "Critical"}

=============================================================================
