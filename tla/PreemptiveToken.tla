--------------------------- MODULE PreemptiveToken ---------------------------
(***************************************************************************)
(* The preemptive cancellation token and its watchdog threads              *)
(* (src/src/preemptive.rs).                                                *)
(*                                                                         *)
(* Callers cancel, reset and check one shared token, arm watchdogs on it   *)
(* and hold deadline guards.  The flag, the reason and the mutex of the    *)
(* condition variable are three separate pieces of state: cancel, reset    *)
(* and check take one step for each of them.  Of the two fields that are   *)
(* written and never read, deadline_unix_ms is kept as set or zero and the *)
(* bool under the wakeup mutex is left out.                                *)
(***************************************************************************)
EXTENDS Naturals

CONSTANTS
  Callers,      \* threads that hold a clone of the token
  Dogs,         \* the watchdog threads that may be spawned (a bound)
  Budgets,      \* the durations asked for
  Free,         \* the holder of a mutex nobody holds
  MaxOps,       \* bound: operations the callers start between them
  MaxTime,      \* bound: deadlines; the clock goes on while somebody sleeps
  MaxSpurious   \* bound: how many waits may return without a notification

ASSUME PreemptiveAssumption ==
  /\ Callers \cap Dogs = {} /\ Free \notin Callers \cup Dogs
  /\ Budgets \subseteq Nat
  /\ MaxOps \in Nat /\ MaxTime \in Nat /\ MaxSpurious \in Nat

VARIABLES
  cancelled,     \* AtomicBool
  reason,        \* "none" or "given"
  deadlineSet,   \* deadline_unix_ms # 0
  holder,        \* who holds the wakeup mutex
  now,           \* Instant::now()
  spurious,      \* wait returns without notification so far (a bound)
  pc,            \* where each thread is
  arg,           \* the reason a thread is about to store
  deadline,      \* of each watchdog, as captured by its closure
  timer,         \* how long a watchdog will wait, then until when it waits
  timedOut,      \* what its wait returned
  guard,         \* the budget, then the expiry, of a caller's DeadlineGuard
  ops,           \* operations started so far (a bound)
  unexplained,   \* history: a failed check has reported no reason
  anonymous,     \* history: a reason of None has been stored by a cancel
  wasReset,      \* history: a reset has begun
  met,           \* history: the watchdogs that have had the flag up in their time
  misled         \* history: those that a wakeup without a cancel may reach

token   == <<cancelled, reason, deadlineSet>>
dogVars == <<deadline, timer, timedOut>>
reports == <<unexplained, anonymous, wasReset>>
fates   == <<met, misled>>
history == <<reports, fates>>
vars == <<token, holder, now, spurious, pc, arg, dogVars, guard, ops, history>>

Threads == Callers \cup Dogs

\* The watchdogs that have been spawned.
Born == {d \in Dogs : pc[d] # "unborn"}

NoGuard == [state |-> "none", time |-> 0]

Init ==
  /\ cancelled = FALSE /\ reason = "none" /\ deadlineSet = FALSE
  /\ holder = Free
  /\ now = 0 /\ spurious = 0
  /\ pc = [t \in Threads |-> IF t \in Dogs THEN "unborn" ELSE "idle"]
  /\ arg = [t \in Threads |-> "none"]
  /\ deadline = [d \in Dogs |-> 0] /\ timer = [d \in Dogs |-> 0]
  /\ timedOut = [d \in Dogs |-> FALSE]
  /\ guard = [c \in Callers |-> NoGuard]
  /\ ops = 0
  /\ unexplained = FALSE /\ anonymous = FALSE /\ wasReset = FALSE
  /\ met = {} /\ misled = {}

Goto(t, label) == pc' = [pc EXCEPT ![t] = label]

\* A caller between two operations begins another one.
Begin(c) ==
  /\ pc[c] = "idle" /\ ops < MaxOps
  /\ ops' = ops + 1

AdvanceClock ==
  /\ now < MaxTime \/ \E d \in Dogs : pc[d] = "sleeping" /\ now < timer[d]
  /\ now' = now + 1
  /\ UNCHANGED <<token, holder, spurious, pc, arg, dogVars, guard, ops, history>>

-----------------------------------------------------------------------------
(* cancel_with_reason, by a caller, a watchdog or the drop of a guard.     *)

\* cancel and cancel_with.
Cancel(c, r) ==
  /\ Begin(c)
  /\ arg' = [arg EXCEPT ![c] = r]
  /\ Goto(c, "setReason")
  /\ UNCHANGED <<token, holder, now, spurious, dogVars, guard, history>>

\* Mutant: the flag goes up without a reason.
SetReasonLate(t) ==
  /\ pc[t] = "setReason"
  /\ cancelled' = TRUE
  /\ Goto(t, "setFlag")
  /\ UNCHANGED <<reason, deadlineSet, holder, now, spurious, arg, dogVars, guard, ops,
                 history>>

SetReason(t) ==
  /\ pc[t] = "setReason"
  /\ reason' = arg[t]
  /\ anonymous' = (anonymous \/ arg[t] = "none")
  /\ Goto(t, "setFlag")
  /\ UNCHANGED <<cancelled, deadlineSet, holder, now, spurious, arg, dogVars, guard, ops,
                 unexplained, wasReset, fates>>

SetFlag(t) ==
  /\ pc[t] = "setFlag"
  /\ cancelled' = TRUE
  /\ met' = met \cup Born
  /\ Goto(t, "notify")
  /\ UNCHANGED <<reason, deadlineSet, holder, now, spurious, arg, dogVars, guard, ops,
                 reports, misled>>

\* Under the wakeup mutex every sleeping watchdog is woken.
Notify(t) ==
  /\ pc[t] = "notify" /\ holder = Free
  /\ pc' = [u \in Threads |->
              IF u = t THEN IF t \in Dogs THEN "fired" ELSE "idle"
              ELSE IF pc[u] = "sleeping" THEN "woken" ELSE pc[u]]
  /\ timedOut' = [d \in Dogs |-> IF pc[d] = "sleeping" THEN FALSE ELSE timedOut[d]]
  /\ timer' = [d \in Dogs |-> IF pc[d] = "sleeping" THEN 0 ELSE timer[d]]
  /\ arg' = [arg EXCEPT ![t] = "none"]
  /\ UNCHANGED <<token, holder, now, spurious, deadline, guard, ops, history>>

-----------------------------------------------------------------------------
(* The other operations of a caller.                                       *)

\* cancel_at_instant: the deadline is fixed and a watchdog spawned; it does not
\* matter which of those there are no threads for yet.  A notification that a
\* cancel still owes, though a reset has taken its flag down, may reach it.
Spawn(d, at, r) ==
  /\ pc[d] = "unborn" /\ d = CHOOSE u \in Dogs : pc[u] = "unborn"
  /\ deadline' = [deadline EXCEPT ![d] = at]
  /\ arg' = [arg EXCEPT ![d] = r]
  /\ deadlineSet' = TRUE
  /\ met' = IF cancelled THEN met \cup {d} ELSE met
  /\ misled' = IF ~cancelled /\ \E t \in Threads : pc[t] = "notify" THEN misled \cup {d}
              ELSE misled

\* cancel_after, cancel_after_with and cancel_at.
Arm(c, d, budget, r) ==
  /\ Begin(c)
  /\ now + budget <= MaxTime
  /\ Spawn(d, now + budget, r)
  /\ Goto(d, "spawned")
  /\ UNCHANGED <<cancelled, reason, holder, now, spurious, timer, timedOut, guard,
                 reports>>

\* deadline_guard arms a watchdog and then notes the time for the guard.
ArmGuard(c, d, budget) ==
  /\ Begin(c) /\ guard[c] = NoGuard
  /\ now + budget <= MaxTime
  /\ Spawn(d, now + budget, "none")
  /\ pc' = [pc EXCEPT ![d] = "spawned", ![c] = "guarding"]
  /\ guard' = [guard EXCEPT ![c] = [state |-> "budget", time |-> budget]]
  /\ UNCHANGED <<cancelled, reason, holder, now, spurious, timer, timedOut, reports>>

StartGuard(c) ==
  /\ pc[c] = "guarding"
  /\ guard' = [guard EXCEPT ![c] = [state |-> "held", time |-> now + @.time]]
  /\ Goto(c, "idle")
  /\ UNCHANGED <<token, holder, now, spurious, arg, dogVars, ops, history>>

\* Drop of the guard: past its budget it cancels the token with a reason.
DropGuard(c) ==
  /\ pc[c] = "idle" /\ guard[c].state = "held"
  /\ guard' = [guard EXCEPT ![c] = NoGuard]
  /\ IF now >= guard[c].time
     THEN Goto(c, "setReason") /\ arg' = [arg EXCEPT ![c] = "given"]
     ELSE UNCHANGED <<pc, arg>>
  /\ UNCHANGED <<token, holder, now, spurious, dogVars, ops, history>>

\* check: the flag first, then the reason if the flag is up.  With the flag
\* down it returns Ok and changes nothing.
CheckFlag(c) ==
  /\ Begin(c)
  /\ cancelled
  /\ Goto(c, "readReason")
  /\ UNCHANGED <<token, holder, now, spurious, arg, dogVars, guard, history>>

CheckReason(c) ==
  /\ pc[c] = "readReason"
  /\ unexplained' = (unexplained \/ reason = "none")
  /\ Goto(c, "idle")
  /\ UNCHANGED <<token, holder, now, spurious, arg, dogVars, guard, ops, anonymous, wasReset,
                 fates>>

\* reset: the deadline, the reason and the flag, one after the other.
ResetDeadline(c) ==
  /\ Begin(c)
  /\ deadlineSet' = FALSE
  /\ wasReset' = TRUE
  /\ Goto(c, "resetReason")
  /\ UNCHANGED <<cancelled, reason, holder, now, spurious, arg, dogVars, guard,
                 unexplained, anonymous, fates>>

ResetReason(c) ==
  /\ pc[c] = "resetReason"
  /\ reason' = "none"
  /\ Goto(c, "resetFlag")
  /\ UNCHANGED <<cancelled, deadlineSet, holder, now, spurious, arg, dogVars, guard, ops,
                 history>>

ResetFlag(c) ==
  /\ pc[c] = "resetFlag"
  /\ cancelled' = FALSE
  /\ Goto(c, "idle")
  /\ UNCHANGED <<reason, deadlineSet, holder, now, spurious, arg, dogVars, guard, ops,
                 history>>

-----------------------------------------------------------------------------
(* The watchdog thread.                                                    *)

\* Mutant: a deadline that has passed already is not acted upon.
LookIdly(d) ==
  /\ pc[d] = "spawned"
  /\ IF deadline[d] <= now
     THEN Goto(d, "left") /\ UNCHANGED timer
     ELSE Goto(d, "locking") /\ timer' = [timer EXCEPT ![d] = deadline[d] - now]
  /\ UNCHANGED <<token, holder, now, spurious, arg, deadline, timedOut, guard, ops, history>>

Look(d) ==
  /\ pc[d] = "spawned"
  /\ IF deadline[d] <= now
     THEN Goto(d, "setReason") /\ UNCHANGED timer
     ELSE Goto(d, "locking") /\ timer' = [timer EXCEPT ![d] = deadline[d] - now]
  /\ UNCHANGED <<token, holder, now, spurious, arg, deadline, timedOut, guard, ops, history>>

\* lock, then wait_timeout, which gives the mutex back.
Sleep(d) ==
  /\ pc[d] = "locking" /\ holder = Free
  /\ timer' = [timer EXCEPT ![d] = now + @]
  /\ Goto(d, "sleeping")
  /\ UNCHANGED <<token, holder, now, spurious, arg, deadline, timedOut, guard, ops, history>>

\* Mutant: the caller is not told that the time is up.
TimeOutUntold(d) ==
  /\ pc[d] = "sleeping" /\ now >= timer[d]
  /\ timer' = [timer EXCEPT ![d] = 0]
  /\ Goto(d, "woken")
  /\ UNCHANGED <<token, holder, now, spurious, arg, deadline, timedOut, guard, ops, history>>

TimeOut(d) ==
  /\ pc[d] = "sleeping" /\ now >= timer[d]
  /\ timedOut' = [timedOut EXCEPT ![d] = TRUE]
  /\ timer' = [timer EXCEPT ![d] = 0]
  /\ Goto(d, "woken")
  /\ UNCHANGED <<token, holder, now, spurious, arg, deadline, guard, ops, history>>

WakeSpuriously(d) ==
  /\ pc[d] = "sleeping" /\ spurious < MaxSpurious
  /\ spurious' = spurious + 1
  /\ misled' = misled \cup {d}
  /\ timedOut' = [timedOut EXCEPT ![d] = FALSE]
  /\ timer' = [timer EXCEPT ![d] = 0]
  /\ Goto(d, "woken")
  /\ UNCHANGED <<token, holder, now, arg, deadline, guard, ops, reports, met>>

\* wait_timeout takes the mutex again before it returns.
Reacquire(d) ==
  /\ pc[d] = "woken" /\ holder = Free
  /\ holder' = d
  /\ Goto(d, "decide")
  /\ UNCHANGED <<token, now, spurious, arg, dogVars, guard, ops, history>>

\* Mutant: the mutex is still held when cancel_with_reason wants it.
DecideHolding(d) ==
  /\ pc[d] = "decide"
  /\ IF timedOut[d] /\ ~cancelled
     THEN Goto(d, "setReason") /\ UNCHANGED holder
     ELSE Goto(d, "left") /\ holder' = Free
  /\ UNCHANGED <<token, now, spurious, arg, dogVars, guard, ops, history>>

\* Mutant: why the wait ended does not matter.
DecideAnyway(d) ==
  /\ pc[d] = "decide"
  /\ holder' = Free
  /\ Goto(d, IF ~cancelled THEN "setReason" ELSE "left")
  /\ UNCHANGED <<token, now, spurious, arg, dogVars, guard, ops, history>>

\* The guard of the mutex is dropped before cancel_with_reason is called.
Decide(d) ==
  /\ pc[d] = "decide"
  /\ holder' = Free
  /\ Goto(d, IF timedOut[d] /\ ~cancelled THEN "setReason" ELSE "left")
  /\ timedOut' = [timedOut EXCEPT ![d] = FALSE]
  /\ UNCHANGED <<token, now, spurious, arg, deadline, timer, guard, ops, history>>

-----------------------------------------------------------------------------

Store(t) == SetReason(t) \/ SetFlag(t) \/ Notify(t)

WatchdogStep(d) ==
  Look(d) \/ Sleep(d) \/ TimeOut(d) \/ Reacquire(d) \/ Decide(d) \/ Store(d)

\* What a caller has begun, it finishes.
CallerStep(c) ==
  \/ Store(c) \/ StartGuard(c) \/ CheckReason(c) \/ ResetReason(c) \/ ResetFlag(c)

CallerCall(c) ==
  \/ \E r \in {"none", "given"} : Cancel(c, r)
  \/ \E d \in Dogs, budget \in Budgets :
        ArmGuard(c, d, budget) \/ \E r \in {"none", "given"} : Arm(c, d, budget, r)
  \/ DropGuard(c) \/ CheckFlag(c) \/ ResetDeadline(c)

Next ==
  \/ AdvanceClock
  \/ \E c \in Callers : CallerStep(c) \/ CallerCall(c)
  \/ \E d \in Dogs : WatchdogStep(d) \/ WakeSpuriously(d)

\* Time passes and every thread runs; callers need not call anything.
Fairness ==
  /\ WF_vars(AdvanceClock)
  /\ \A c \in Callers : WF_vars(CallerStep(c))
  /\ \A d \in Dogs : WF_vars(WatchdogStep(d))

Spec == Init /\ [][Next]_vars /\ Fairness

-----------------------------------------------------------------------------
(* Properties.                                                             *)

Storing == {"setReason", "setFlag", "notify"}

\* Types of the variables.
TypeOK ==
  /\ cancelled \in BOOLEAN /\ deadlineSet \in BOOLEAN
  /\ reason \in {"none", "given"}
  /\ holder \in {Free} \cup {d \in Dogs : pc[d] = "decide"}
  /\ now \in Nat /\ spurious \in 0 .. MaxSpurious
  /\ \A c \in Callers :
        pc[c] \in Storing \cup {"idle", "guarding", "readReason", "resetReason", "resetFlag"}
  /\ \A d \in Dogs :
        pc[d] \in Storing \cup {"unborn", "spawned", "locking", "sleeping", "woken", "decide",
                               "fired", "left"}
  /\ arg \in [Threads -> {"none", "given"}]
  /\ deadline \in [Dogs -> 0 .. MaxTime]
  /\ timer \in [Dogs -> Nat]
  /\ timedOut \in [Dogs -> BOOLEAN]
  /\ guard \in [Callers -> [state : {"none", "budget", "held"}, time : Nat]]
  /\ ops \in 0 .. MaxOps
  /\ unexplained \in BOOLEAN /\ anonymous \in BOOLEAN /\ wasReset \in BOOLEAN
  /\ met \subseteq Born /\ misled \subseteq Born

\* A watchdog cancels the token only once its deadline has come, whoever wakes
\* it before.
NeverEarly ==
  \A d \in Dogs : pc[d] \in Storing \cup {"fired"} => now >= deadline[d]

\* The reason is stored before the flag is raised: a check that fails reports a
\* reason, unless somebody cancelled without one or reset the token.
ReasonReported == unexplained => anonymous \/ wasReset

\* A watchdog gives up only if the token has been cancelled since it was armed,
\* by whichever thread and however often it is reset in between.  Two wakeups
\* take a deadline away, and nothing else does: a wait that returns for no
\* reason, and the late notification of a cancel that was reset before.
NoDeadlineForgotten ==
  \A d \in Dogs : pc[d] = "left" => d \in met \cup misled

\* Every deadline is met: the token is cancelled between the arming and the end
\* of the wait, with the same two exceptions; a reset is none.
DeadlineHonoured ==
  \A d \in Dogs : pc[d] = "spawned" ~> d \in met \cup misled

\* No thread hangs on the wakeup mutex: every watchdog ends and every cancel
\* returns.
ThreadsEnd ==
  /\ \A d \in Dogs : pc[d] = "spawned" ~> pc[d] \in {"fired", "left"}
  /\ \A c \in Callers : pc[c] = "setReason" ~> pc[c] = "idle"

=============================================================================
