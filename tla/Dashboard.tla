----------------------------- MODULE Dashboard -----------------------------
(***************************************************************************)
(* The dashboard server (src/src/dashboard.rs) over the counters it shows  *)
(* (src/src/monitoring.rs): the thread that accepts connections, the       *)
(* collector that samples into a bounded history, a thread for each        *)
(* connection, and the handle whose stop waits for the first of them.      *)
(*                                                                         *)
(* A sample is a record of its number, the completed tasks it saw and the  *)
(* difference to the one before.  Clients and the network are external: a  *)
(* write may be taken at once, never, or fail.                             *)
(***************************************************************************)
EXTENDS Integers, SequencesExt, FiniteSetsExt

CONSTANTS
  Clients,
  HistoryLen,   \* DashboardConfig::history_len
  MaxTasks,     \* bound: tasks the program completes
  MaxSamples,   \* bound: rounds of the collector
  MaxEvents     \* bound: events a client takes before it goes away

VARIABLES
  completed,   \* PerformanceMetrics::tasks_completed
  finished,    \* history: completions so far, resets or not
  wasReset,    \* history: whether the metrics have been reset
  handle,      \* running, joining, stopped or dropped
  shutdown,    \* the flag
  server,      \* run_server: bind, check, accept or over
  collector,   \* run_collector: none, check, sample, push or over
  samples,     \* samples taken
  lastSeen,    \* last_completed
  snap,        \* the collector's local snapshot
  history,
  lock,        \* who holds the mutex of the history: a client's thread or "none"
  conn,        \* client -> away, request, replay, check, latest, write or over
  received     \* client -> the events it has been sent

vars == <<completed, finished, wasReset, handle, shutdown, server, collector, samples, lastSeen,
          snap, history, lock, conn, received>>

Init ==
  /\ completed = 0 /\ finished = 0 /\ wasReset = FALSE
  /\ handle = "running" /\ shutdown = FALSE
  /\ server = "bind" /\ collector = "none"
  /\ samples = 0 /\ lastSeen = 0 /\ snap = [n |-> 0, completed |-> 0, delta |-> 0]
  /\ history = <<>> /\ lock = "none"
  /\ conn = [c \in Clients |-> "away"]
  /\ received = [c \in Clients |-> <<>>]

MetricsVars   == <<completed, finished, wasReset>>
CollectorVars == <<collector, samples, lastSeen, snap>>
ClientVars    == <<lock, conn, received>>
-----------------------------------------------------------------------------
(* The program whose tasks are counted, and the owner of the handle.       *)

RecordTaskCompletion ==
  /\ finished < MaxTasks
  /\ completed' = completed + 1 /\ finished' = finished + 1
  /\ UNCHANGED <<wasReset, handle, shutdown, server, CollectorVars, history, ClientVars>>

ResetMetrics ==
  /\ ~wasReset
  /\ completed' = 0 /\ wasReset' = TRUE
  /\ UNCHANGED <<finished, handle, shutdown, server, CollectorVars, history, ClientVars>>

Stop ==
  /\ handle = "running"
  /\ handle' = "joining" /\ shutdown' = TRUE
  /\ UNCHANGED <<MetricsVars, server, CollectorVars, history, ClientVars>>

Joined ==
  /\ handle = "joining" /\ server = "over"
  /\ handle' = "stopped"
  /\ UNCHANGED <<MetricsVars, shutdown, server, CollectorVars, history, ClientVars>>

\* Dropping the handle raises the flag and waits for nobody.
Drop ==
  /\ handle = "running"
  /\ handle' = "dropped" /\ shutdown' = TRUE
  /\ UNCHANGED <<MetricsVars, server, CollectorVars, history, ClientVars>>
-----------------------------------------------------------------------------
(* run_server.                                                             *)

\* bind fails, or the collector is spawned.
Bind ==
  /\ server = "bind"
  /\ \/ server' = "over" /\ UNCHANGED collector
     \/ server' = "check" /\ collector' = "check"
  /\ UNCHANGED <<MetricsVars, handle, shutdown, samples, lastSeen, snap, history, ClientVars>>

CheckShutdown ==
  /\ server = "check"
  /\ server' = IF shutdown THEN "over" ELSE "accept"
  /\ UNCHANGED <<MetricsVars, handle, shutdown, CollectorVars, history, ClientVars>>

\* accept does not block: it returns a connection, that nobody waits (after which
\* the thread sleeps), or an error, which ends the loop.
Accept ==
  /\ server = "accept"
  /\ \/ \E c \in Clients :
          conn[c] = "away" /\ conn' = [conn EXCEPT ![c] = "request"] /\ server' = "check"
     \/ server' \in {"check", "over"} /\ UNCHANGED conn
  /\ UNCHANGED <<MetricsVars, handle, shutdown, CollectorVars, history, lock, received>>

ServerStep == Bind \/ CheckShutdown \/ Accept
-----------------------------------------------------------------------------
(* run_collector.                                                          *)

CheckCollector ==
  /\ collector = "check"
  /\ \/ shutdown /\ collector' = "over"
     \/ ~shutdown /\ samples < MaxSamples /\ collector' = "sample"
  /\ UNCHANGED <<MetricsVars, handle, shutdown, server, samples, lastSeen, snap, history, ClientVars>>

\* completed.saturating_sub(*last).
Sample ==
  /\ collector = "sample"
  /\ samples' = samples + 1
  /\ snap' = [n |-> samples + 1, completed |-> completed, delta |-> Max({0, completed - lastSeen})]
  /\ lastSeen' = completed
  /\ collector' = "push"
  /\ UNCHANGED <<MetricsVars, handle, shutdown, server, history, ClientVars>>

\* pop_front of an empty history does nothing: a length of zero keeps one sample.
Push ==
  /\ collector = "push" /\ lock = "none"
  /\ history' = Append(IF Len(history) >= HistoryLen /\ history # <<>> THEN Tail(history) ELSE history,
                       snap)
  /\ collector' = "check"
  /\ UNCHANGED <<MetricsVars, handle, shutdown, server, samples, lastSeen, snap, ClientVars>>
-----------------------------------------------------------------------------
(* handle_connection: serve_sse and serve_snapshot; the other pages read    *)
(* nothing that changes.                                                   *)

Goes(c, to) == conn' = [conn EXCEPT ![c] = to]
Sent(c, s) == received' = [received EXCEPT ![c] = Append(@, s)]
ServerVars == <<MetricsVars, handle, shutdown, server, CollectorVars, history>>

\* A client may go away whenever something is written to it, which also gives the
\* lock back; it does so at the latest after MaxEvents events.
Fails(c) ==
  /\ conn[c] \in {"request", "replay", "write"}
  /\ Goes(c, "over")
  /\ lock' = IF lock = c THEN "none" ELSE lock
  /\ UNCHANGED <<ServerVars, received>>

\* serve_snapshot: the last sample is copied under the lock.
ServeSnapshot(c) ==
  /\ conn[c] = "request" /\ lock = "none"
  /\ IF history = <<>> THEN UNCHANGED received ELSE Sent(c, Last(history))
  /\ Goes(c, "over")
  /\ UNCHANGED <<ServerVars, lock>>

\* serve_sse writes the history with its lock held, so that nobody else gets it
\* before the client has taken all of it.
BeginReplay(c) ==
  /\ conn[c] = "request" /\ lock = "none"
  /\ lock' = c
  /\ Goes(c, "replay")
  /\ UNCHANGED <<ServerVars, received>>

Replay(c) ==
  /\ conn[c] = "replay" /\ Len(received[c]) < Len(history)
  /\ Sent(c, history[Len(received[c]) + 1])
  /\ UNCHANGED <<ServerVars, lock, conn>>

EndReplay(c) ==
  /\ conn[c] = "replay" /\ Len(received[c]) = Len(history)
  /\ lock' = "none"
  /\ Goes(c, "check")
  /\ UNCHANGED <<ServerVars, received>>

CheckClient(c) ==
  /\ conn[c] = "check"
  /\ Goes(c, IF shutdown THEN "over" ELSE "latest")
  /\ UNCHANGED <<ServerVars, lock, received>>

\* After an interval the last sample is copied under the lock, and written
\* without it; the same sample may be the last one twice.
Latest(c) ==
  /\ conn[c] = "latest" /\ lock = "none"
  /\ IF history = <<>> \/ Len(received[c]) >= MaxEvents
     THEN UNCHANGED received /\ Goes(c, IF history = <<>> THEN "check" ELSE "write")
     ELSE Sent(c, Last(history)) /\ Goes(c, "check")
  /\ UNCHANGED <<ServerVars, lock>>

Next ==
  \/ RecordTaskCompletion \/ ResetMetrics \/ Stop \/ Joined \/ Drop
  \/ ServerStep
  \/ CheckCollector \/ Sample \/ Push
  \/ \E c \in Clients : \/ Fails(c) \/ ServeSnapshot(c) \/ BeginReplay(c) \/ Replay(c)
                        \/ EndReplay(c) \/ CheckClient(c) \/ Latest(c)

\* The threads of the dashboard get on; clients need not.
Fairness == WF_vars(Joined) /\ WF_vars(ServerStep)

Spec == Init /\ [][Next]_vars /\ Fairness
-----------------------------------------------------------------------------
(* Properties.                                                             *)

Deltas(s) == FoldLeft(LAMBDA sum, x : sum + x.delta, 0, s)

\* The history is the last samples without a gap, within its length; their
\* differences never add up to more than has been completed, and without a reset
\* lead from one sample to the next.
HistorySound ==
  /\ Len(history) <= Max({1, HistoryLen})
  /\ Deltas(history) <= finished
  /\ \A i \in 1 .. Len(history) - 1 :
       /\ history[i + 1].n = history[i].n + 1
       /\ ~wasReset => history[i + 1].completed = history[i].completed + history[i + 1].delta

\* A client never gets an older sample after a newer one, nor any that the
\* collector has not finished.
EventsInOrder ==
  \A c \in Clients : \A i \in DOMAIN received[c] :
    /\ received[c][i].n \in 1 .. samples
    /\ i > 1 => received[c][i - 1].n <= received[c][i].n

\* stop returns, even when a client holds the lock of the history and reads no
\* more.
StopReturns == (handle = "joining") ~> (handle = "stopped")

=============================================================================
