----------------------------- MODULE Telemetry -----------------------------
(***************************************************************************)
(* The metrics that the threads of a program record without a common lock  *)
(* (src/src/metrics.rs): counters, the starting times of tasks, memory and *)
(* its peak, and a reset that stores zero into one after the other.  Each  *)
(* access to an atomic or under a mutex is a step.                         *)
(*                                                                         *)
(* A task takes one unit of time when its start is known, and none when    *)
(* it is not.  Thread w of the program is worker w of the metrics.         *)
(***************************************************************************)
EXTENDS Naturals, SequencesExt, FiniteSetsExt

CONSTANTS
  Threads,    \* the threads that record
  TaskIds,
  Sizes,      \* the amounts of memory recorded
  MaxCalls    \* bound: recording calls of all threads

VARIABLES
  started,    \* the keys of task_start_times
  timings,    \* the keys of task_timings
  executed, failed, totalTime,   \* total_tasks_executed, _failed, total_execution_time_ns
  workerTasks, workerBusy,       \* thread -> worker_tasks_executed, worker_busy_time_ns
  current, peak,                 \* current_memory_bytes, peak_memory_bytes
  at,         \* thread -> the step it is at, "idle" between calls
  arg,        \* thread -> the task or the size of its call
  reg,        \* thread -> its duration, or the peak it has read
  toReset,    \* the cells a reset has still to clear
  resets,     \* history: whether there has been a reset
  calls,      \* the recording calls begun, of which MaxCalls are made
  sizes       \* history: the sizes recorded since the start

vars == <<started, timings, executed, failed, totalTime, workerTasks, workerBusy, current, peak,
          at, arg, reg, toReset, resets, calls, sizes>>

Init ==
  /\ started = {} /\ timings = {}
  /\ executed = 0 /\ failed = 0 /\ totalTime = 0
  /\ workerTasks = [w \in Threads |-> 0] /\ workerBusy = [w \in Threads |-> 0]
  /\ current = 0 /\ peak = 0
  /\ at = [w \in Threads |-> "idle"]
  /\ arg = [w \in Threads |-> 0] /\ reg = [w \in Threads |-> 0]
  /\ toReset = <<>> /\ resets = FALSE
  /\ calls = 0 /\ sizes = {}

Counters == <<executed, failed, totalTime, workerTasks, workerBusy>>
Memory   == <<current, peak>>
History  == <<toReset, resets, sizes>>

Begin(w, step, a) ==
  /\ at[w] = "idle" /\ calls < MaxCalls
  /\ at' = [at EXCEPT ![w] = step]
  /\ arg' = [arg EXCEPT ![w] = a]
  /\ calls' = calls + 1

Goto(w, step) ==
  /\ at' = [at EXCEPT ![w] = step]
  /\ arg' = [arg EXCEPT ![w] = IF step = "idle" THEN 0 ELSE @]
  /\ UNCHANGED calls

\* record_task_start.
RecordStart(w, t) ==
  /\ at[w] = "idle" /\ t \notin started
  /\ started' = started \cup {t}
  /\ UNCHANGED <<timings, Counters, Memory, at, arg, reg, History, calls>>

\* record_task_completion: the start is taken, the timing stored, and then four
\* counters are raised.
RecordCompletion(w, t) ==
  /\ Begin(w, "timing", t)
  /\ started' = started \ {t}
  /\ reg' = [reg EXCEPT ![w] = IF t \in started THEN 1 ELSE 0]
  /\ UNCHANGED <<timings, Counters, Memory, History>>

StoreTiming(w) ==
  /\ at[w] = "timing" /\ Goto(w, "executed")
  /\ timings' = timings \cup {arg[w]}
  /\ UNCHANGED <<started, Counters, Memory, reg, History>>

CountExecuted(w) ==
  /\ at[w] = "executed" /\ Goto(w, "time")
  /\ executed' = executed + 1
  /\ UNCHANGED <<started, timings, failed, totalTime, workerTasks, workerBusy, Memory, reg, History>>

AddTime(w) ==
  /\ at[w] = "time" /\ Goto(w, "busy")
  /\ totalTime' = totalTime + reg[w]
  /\ UNCHANGED <<started, timings, executed, failed, workerTasks, workerBusy, Memory, reg, History>>

AddBusy(w) ==
  /\ at[w] = "busy" /\ Goto(w, "worker")
  /\ workerBusy' = [workerBusy EXCEPT ![w] = @ + reg[w]]
  /\ UNCHANGED <<started, timings, executed, failed, totalTime, workerTasks, Memory, reg, History>>

CountWorker(w) ==
  /\ at[w] = "worker" /\ Goto(w, "idle")
  /\ workerTasks' = [workerTasks EXCEPT ![w] = @ + 1]
  /\ reg' = [reg EXCEPT ![w] = 0]
  /\ UNCHANGED <<started, timings, executed, failed, totalTime, workerBusy, Memory, History>>

\* record_task_failure.
RecordFailure(w, t) ==
  /\ Begin(w, "failed", t)
  /\ started' = started \ {t}
  /\ UNCHANGED <<timings, Counters, Memory, reg, History>>

CountFailed(w) ==
  /\ at[w] = "failed" /\ Goto(w, "idle")
  /\ failed' = failed + 1
  /\ UNCHANGED <<started, timings, executed, totalTime, workerTasks, workerBusy, Memory, reg, History>>

\* record_memory_usage: a store, a load, and a compare_exchange until the peak is
\* high enough.
RecordMemory(w, size) ==
  /\ Begin(w, "load", size)
  /\ current' = size
  /\ sizes' = sizes \cup {size}
  /\ UNCHANGED <<started, timings, Counters, peak, reg, toReset, resets>>

LoadPeak(w) ==
  /\ at[w] = "load" /\ Goto(w, "exchange")
  /\ reg' = [reg EXCEPT ![w] = peak]
  /\ UNCHANGED <<started, timings, Counters, Memory, History>>

\* Mutant: a store in place of the compare_exchange.
ExchangeBlindly(w) ==
  /\ at[w] = "exchange" /\ Goto(w, "idle")
  /\ peak' = IF arg[w] > reg[w] THEN arg[w] ELSE peak
  /\ reg' = [reg EXCEPT ![w] = 0]
  /\ UNCHANGED <<started, timings, Counters, current, History>>

Exchange(w) ==
  /\ at[w] = "exchange"
  /\ IF arg[w] > reg[w] /\ peak # reg[w]
     THEN reg' = [reg EXCEPT ![w] = peak] /\ UNCHANGED <<at, arg, calls, peak>>
     ELSE /\ peak' = IF arg[w] > reg[w] THEN arg[w] ELSE peak
          /\ reg' = [reg EXCEPT ![w] = 0]
          /\ Goto(w, "idle")
  /\ UNCHANGED <<started, timings, Counters, current, History>>

\* reset, in the order of its stores.
ResetOrder ==
  <<"executed", "failed", "totalTime", "timings", "started", "workers", "peak", "current">>

Reset ==
  /\ toReset = <<>> /\ ~resets
  /\ toReset' = ResetOrder /\ resets' = TRUE
  /\ UNCHANGED <<started, timings, Counters, Memory, at, arg, reg, calls, sizes>>

Cleared(cell, value, zero) == IF Head(toReset) = cell THEN zero ELSE value

\* The counters of the workers are cleared one by one; nothing here tells that
\* from one step.
ResetNext ==
  /\ toReset # <<>>
  /\ toReset' = Tail(toReset)
  /\ executed' = Cleared("executed", executed, 0)
  /\ failed' = Cleared("failed", failed, 0)
  /\ totalTime' = Cleared("totalTime", totalTime, 0)
  /\ timings' = Cleared("timings", timings, {})
  /\ started' = Cleared("started", started, {})
  /\ workerTasks' = Cleared("workers", workerTasks, [w \in Threads |-> 0])
  /\ workerBusy' = Cleared("workers", workerBusy, [w \in Threads |-> 0])
  /\ peak' = Cleared("peak", peak, 0)
  /\ current' = Cleared("current", current, 0)
  /\ UNCHANGED <<at, arg, reg, resets, calls, sizes>>

Next ==
  \/ \E w \in Threads :
       \/ \E t \in TaskIds : RecordStart(w, t) \/ RecordCompletion(w, t) \/ RecordFailure(w, t)
       \/ StoreTiming(w) \/ CountExecuted(w) \/ AddTime(w) \/ AddBusy(w) \/ CountWorker(w)
       \/ CountFailed(w) \/ LoadPeak(w) \/ Exchange(w)
       \/ \E size \in Sizes : RecordMemory(w, size)
  \/ Reset \/ ResetNext

Spec == Init /\ [][Next]_vars
-----------------------------------------------------------------------------
(* Properties.                                                             *)

AtRest == toReset = <<>> /\ \A w \in Threads : at[w] = "idle"
SumOver(f) == MapThenSumSet(LAMBDA w : f[w], Threads)

\* Between the calls the counters tell the same story: without a reset every
\* completion is in the total and in the count of one worker, its time in both
\* sums, and every task that was completed has a timing; the peak is the largest
\* size recorded, and even after a reset in the middle of recording calls it is
\* not below the current size.  A worker's count never runs ahead of the total.
CountersAgree ==
  /\ AtRest =>
       /\ current <= peak
       /\ ~resets =>
            /\ executed = SumOver(workerTasks) /\ totalTime = SumOver(workerBusy)
            /\ totalTime <= executed
            /\ Cardinality(timings) <= executed
            /\ peak = Max({0} \cup sizes)
  /\ ~resets => SumOver(workerTasks) <= executed

=============================================================================
