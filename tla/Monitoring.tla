----------------------------- MODULE Monitoring -----------------------------
(***************************************************************************)
(* What watches the executors, as a whole: the metrics, the dashboard and  *)
(* the profiler (src/src/metrics.rs, src/src/dashboard.rs,                 *)
(* src/src/profiler.rs).  They share no state: each has locks or atomics   *)
(* of its own, and a program may use all three.                            *)
(***************************************************************************)
EXTENDS Integers, FiniteSets

CONSTANTS
  Threads, TaskIds, Sizes, MaxCalls,                     \* of the metrics
  Clients, HistoryLen, MaxTasks, MaxSamples, MaxEvents,  \* of the dashboard
  Callers, MaxRuns                                       \* of the profiler

\* Sizes and the length of the history are usize, threads and clients finitely
\* many, and no client is called as the free lock is.
ASSUME MonitoringAssumption ==
  /\ IsFiniteSet(Threads) /\ Sizes \subseteq Nat
  /\ "none" \notin Clients /\ HistoryLen \in Nat

VARIABLES
  started, timings, executed, failed, totalTime, workerTasks, workerBusy, current, peak, step, arg,
  reg, toReset, resets, calls, sizes,
  completed, finished, wasReset, handle, shutdown, server, collector, samples, lastSeen, snap,
  history, lock, conn, received,
  enabled, startTime, taskStats, doing, seen, clock, overtaken, profile

Telemetry == INSTANCE Telemetry WITH at <- step
Board     == INSTANCE Dashboard
Profile   == INSTANCE Profiling WITH mixed <- overtaken

telemetryVars == <<started, timings, executed, failed, totalTime, workerTasks, workerBusy, current,
                   peak, step, arg, reg, toReset, resets, calls, sizes>>
dashboardVars == <<completed, finished, wasReset, handle, shutdown, server, collector, samples,
                   lastSeen, snap, history, lock, conn, received>>
profilingVars == <<enabled, startTime, taskStats, doing, seen, clock, overtaken, profile>>
monitoringVars == <<telemetryVars, dashboardVars, profilingVars>>

MonitoringInit == Telemetry!Init /\ Board!Init /\ Profile!Init

MonitoringNext ==
  \/ Telemetry!Next /\ UNCHANGED <<dashboardVars, profilingVars>>
  \/ Board!Next /\ UNCHANGED <<telemetryVars, profilingVars>>
  \/ Profile!Next /\ UNCHANGED <<telemetryVars, dashboardVars>>

MonitoringSpec == MonitoringInit /\ [][MonitoringNext]_monitoringVars
-----------------------------------------------------------------------------
(* Properties.                                                             *)

\* What the metrics, the history of the dashboard and the profiler tell of the
\* tasks is true, although none of them is read or written under one lock
\* (record_task_completion, record_memory_usage, reset; run_collector,
\* serve_sse; start_run, record_task, get_profile).
CountersTrue ==
  /\ Telemetry!CountersAgree
  /\ Board!HistorySound /\ Board!EventsInOrder
  /\ Profile!ProfileCoherent

=============================================================================
