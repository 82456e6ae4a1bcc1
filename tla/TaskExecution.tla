--------------------------- MODULE TaskExecution ---------------------------
(***************************************************************************)
(* What one call of an executor's run promises to the caller that waits    *)
(* for it, whatever threads and queues lie below: a task starts once, and  *)
(* only when everything it depends on has finished and released it; wait   *)
(* returns only when nothing is running and nothing that could still start *)
(* is left behind.                                                         *)
(***************************************************************************)
EXTENDS Naturals, FiniteSets

VARIABLES
  deps,        \* task -> the tasks it depends on; grows as subflows register
  conditions,  \* the tasks that choose which of their dependents to release
  running,     \* tasks whose closure has been taken and not retired yet
  done,        \* tasks that ran and have released their dependents
  aborted,     \* tasks whose closure panicked
  released,    \* pairs <<t, s>>: t has released its dependent s
  returned     \* wait has returned

avars == <<deps, conditions, running, done, aborted, released, returned>>

Tasks == DOMAIN deps

Dependents(t) == {s \in Tasks : t \in deps[s]}

Runnable(t) == \A d \in deps[t] : <<d, t>> \in released

Init ==
  /\ \A t \in Tasks : deps[t] \subseteq Tasks
  /\ running = {} /\ done = {} /\ aborted = {} /\ released = {}
  /\ returned = FALSE

Start(t) ==
  /\ ~returned
  /\ t \notin running \cup done \cup aborted
  /\ Runnable(t)
  /\ running' = running \cup {t}
  /\ UNCHANGED <<deps, conditions, done, aborted, released, returned>>

\* A task may release its dependents one after the other.
Release(t, s) ==
  /\ t \in running /\ s \in Dependents(t)
  /\ released' = released \cup {<<t, s>>}
  /\ UNCHANGED <<deps, conditions, running, done, aborted, returned>>

\* It is done when it has released them all; a condition may leave some out.
Complete(t) ==
  /\ t \in running
  /\ running' = running \ {t}
  /\ done' = done \cup {t}
  /\ \E S \in SUBSET Dependents(t) : released' = released \cup ({t} \X S)
  /\ t \notin conditions => {t} \X Dependents(t) \subseteq released'
  /\ UNCHANGED <<deps, conditions, aborted, returned>>

Abort(t) ==
  /\ t \in running
  /\ running' = running \ {t}
  /\ aborted' = aborted \cup {t}
  /\ UNCHANGED <<deps, conditions, done, released, returned>>

\* A running task adds tasks that depend on each other alone.
Grow ==
  /\ running # {}
  /\ Tasks \subseteq DOMAIN deps'
  /\ \A t \in Tasks : deps'[t] = deps[t]
  /\ \A t \in DOMAIN deps' \ Tasks : deps'[t] \subseteq DOMAIN deps' \ Tasks
  /\ UNCHANGED <<running, done, aborted, released, returned>>
  /\ conditions' = conditions

Return ==
  /\ running = {}
  /\ aborted = {} => \A t \in Tasks \ done : ~Runnable(t)
  /\ returned' = TRUE
  /\ UNCHANGED <<deps, conditions, running, done, aborted, released>>

Next ==
  \/ \E t \in Tasks : Start(t) \/ Complete(t) \/ Abort(t)
  \/ \E t, s \in Tasks : Release(t, s)
  \/ Grow
  \/ Return

Spec == Init /\ [][Next]_avars

=============================================================================
