----------------------------- MODULE Profiling -----------------------------
(***************************************************************************)
(* The profiler (src/src/profiler.rs), whose clones share a flag, the time *)
(* the run started and the statistics of its tasks, each under a mutex of  *)
(* its own: no call holds two of them, so that each access is a step.      *)
(*                                                                         *)
(* Time is the number of runs that have been started.                      *)
(***************************************************************************)
EXTENDS Naturals, SequencesExt, FiniteSets

CONSTANTS
  Callers,    \* the threads
  MaxRuns,    \* bound: runs that are started
  MaxTasks    \* bound: statistics kept at a time

VARIABLES
  enabled,
  startTime,   \* start_time, 0 for None
  taskStats,   \* the times at which record_task was called for the tasks kept
  doing,       \* caller -> idle, or the step it is at
  seen,        \* caller -> the time at which its record_task was called, or the
               \* start time its get_profile has read
  clock,
  mixed,       \* history: caller -> a run was started since seen was set
  profile      \* the profile read last: start, tasks and blurred

vars == <<enabled, startTime, taskStats, doing, seen, clock, mixed, profile>>

NoProfile == [start |-> 0, tasks |-> <<>>, blurred |-> FALSE]

Init ==
  /\ enabled = FALSE /\ startTime = 0 /\ taskStats = <<>>
  /\ doing = [c \in Callers |-> "idle"] /\ seen = [c \in Callers |-> 0]
  /\ clock = 0 /\ mixed = [c \in Callers |-> FALSE]
  /\ profile = NoProfile

Goes(c, from, to) == doing[c] = from /\ doing' = [doing EXCEPT ![c] = to]
Notes(c, value) ==
  /\ seen' = [seen EXCEPT ![c] = value]
  /\ mixed' = [mixed EXCEPT ![c] = FALSE]

\* enable and disable.
SetEnabled(c, value) ==
  /\ doing[c] = "idle" /\ enabled # value /\ enabled' = value
  /\ UNCHANGED <<startTime, taskStats, doing, seen, clock, mixed, profile>>

\* start_run: the flag, the time, and then the statistics.
StartRun(c) ==
  /\ enabled /\ clock + Cardinality({d \in Callers : doing[d] = "start"}) < MaxRuns
  /\ Goes(c, "idle", "start")
  /\ UNCHANGED <<enabled, startTime, taskStats, seen, clock, mixed, profile>>

StoreStart(c) ==
  /\ Goes(c, "start", "clear")
  /\ clock' = clock + 1 /\ startTime' = clock + 1
  /\ mixed' = [d \in Callers |-> TRUE]
  /\ UNCHANGED <<enabled, taskStats, seen, profile>>

ClearStats(c) ==
  /\ Goes(c, "clear", "idle")
  /\ taskStats' = <<>>
  /\ UNCHANGED <<enabled, startTime, seen, clock, mixed, profile>>

\* record_task: the flag, and then the statistics.
RecordTask(c) ==
  /\ enabled /\ Len(taskStats) < MaxTasks
  /\ Goes(c, "idle", "push")
  /\ Notes(c, clock)
  /\ UNCHANGED <<enabled, startTime, taskStats, clock, profile>>

PushStats(c) ==
  /\ Goes(c, "push", "idle")
  /\ taskStats' = Append(taskStats, [called |-> seen[c], overtaken |-> mixed[c]])
  /\ UNCHANGED <<enabled, startTime, seen, clock, mixed, profile>>

\* get_profile: the flag, the time, and then a copy of the statistics.
GetProfile(c) ==
  /\ enabled
  /\ Goes(c, "idle", "read")
  /\ UNCHANGED <<enabled, startTime, taskStats, seen, clock, mixed, profile>>

ReadStart(c) ==
  /\ Goes(c, "read", IF startTime = 0 THEN "idle" ELSE "copy")
  /\ Notes(c, startTime)
  /\ UNCHANGED <<enabled, startTime, taskStats, clock, profile>>

CopyStats(c) ==
  /\ Goes(c, "copy", "idle")
  /\ profile' = IF taskStats = <<>> THEN NoProfile
                ELSE [start |-> seen[c], tasks |-> taskStats,
                      blurred |-> \E d \in Callers : doing[d] = "clear"]
  /\ UNCHANGED <<enabled, startTime, taskStats, seen, clock, mixed>>

\* reset: the statistics, and then the time.
Reset(c) ==
  /\ Goes(c, "idle", "unset")
  /\ taskStats' = <<>>
  /\ UNCHANGED <<enabled, startTime, seen, clock, mixed, profile>>

UnsetStart(c) ==
  /\ Goes(c, "unset", "idle")
  /\ startTime' = 0
  /\ UNCHANGED <<enabled, taskStats, seen, clock, mixed, profile>>

Next ==
  \E c \in Callers :
    \/ \E value \in BOOLEAN : SetEnabled(c, value)
    \/ StartRun(c) \/ StoreStart(c) \/ ClearStats(c)
    \/ RecordTask(c) \/ PushStats(c)
    \/ GetProfile(c) \/ ReadStart(c) \/ CopyStats(c)
    \/ Reset(c) \/ UnsetStart(c)

Spec == Init /\ [][Next]_vars
-----------------------------------------------------------------------------
(* Properties.                                                             *)

\* A profile that is not read in the middle of a start_run has no task of an
\* earlier run, although its start time and its tasks are read under different
\* locks, unless the task was being recorded while the run started.
ProfileCoherent ==
  ~profile.blurred =>
    \A i \in DOMAIN profile.tasks :
      profile.tasks[i].called >= profile.start \/ profile.tasks[i].overtaken

=============================================================================
