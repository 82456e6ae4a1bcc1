--------------------------- MODULE PipelineStages ---------------------------
(***************************************************************************)
(* Threads that pass tokens along concurrent pipelines: the programs of    *)
(* src/examples/pipeline_basic.rs, pipeline_advanced.rs and                *)
(* pipeline_benchmark.rs.  A producer feeds the first pipeline and stops   *)
(* it; stages and workers poll one pipeline and push to the next; the main *)
(* thread joins them, and stops a pipeline that nobody else does.          *)
(*                                                                         *)
(* A pipeline is what ConcurrentPipeline proves it to be: a bounded queue  *)
(* whose counter of tokens in flight is its length.  Its capacity is at    *)
(* least the number of items in every program, so that no push is refused. *)
(***************************************************************************)
EXTENDS Naturals, SequencesExt

CONSTANTS
  Networks,   \* records of size (a buffer for each pipe), readers and stops
  MaxItems    \* bound: what the producer pushes

VARIABLES
  network,    \* the program that runs
  pushed,     \* items pushed by the producer
  queue,      \* pipe -> the items in it
  stopped,    \* the pipes that have been stopped
  pc,         \* reader -> look, count, pop, ask, push, end or done
  held,       \* reader -> the item it works on
  handled,    \* reader -> how many it has popped
  results     \* what the readers of the last pipe collected, in order

vars == <<network, pushed, queue, stopped, pc, held, handled, results>>

\* A reader polls the pipe from, pushes to the pipe to, or collects with to = 0,
\* and leaves by a rule: when from is stopped, when it is stopped and holds
\* nothing, or after an empty poll when it has had its items or from is stopped.
Pipes   == DOMAIN network.size
Readers == DOMAIN network.readers
From(t) == network.readers[t].from
To(t)   == network.readers[t].to
Rule(t) == network.readers[t].rule
At(t, label) == pc' = [pc EXCEPT ![t] = label]

Top(t) == IF Rule(t) = "polled" THEN "pop" ELSE "look"

Init ==
  /\ network \in Networks
  /\ pushed = 0
  /\ queue = [p \in Pipes |-> <<>>] /\ stopped = {}
  /\ pc = [t \in Readers |-> Top(t)]
  /\ held = [t \in Readers |-> 0] /\ handled = [t \in Readers |-> 0]
  /\ results = <<>>

HasRoom(p) == Len(queue[p]) < network.size[p]

\* push of the producer waits while the buffer is full.
Produce ==
  /\ pushed < MaxItems /\ HasRoom(1)
  /\ pushed' = pushed + 1
  /\ queue' = [queue EXCEPT ![1] = Append(@, pushed + 1)]
  /\ UNCHANGED <<network, stopped, pc, held, handled, results>>

\* What main, the producer or a stage stops a pipe after: the producer when it
\* has pushed, the main thread when the readers named have been joined.
Stop(p) ==
  /\ p \notin stopped
  /\ pushed = MaxItems
  /\ \A t \in network.stops[p] : pc[t] = "done"
  /\ stopped' = stopped \cup {p}
  /\ UNCHANGED <<network, pushed, queue, pc, held, handled, results>>

\* while !is_stopped(), or while !is_stopped() || tokens_in_flight() > 0.
Look(t) ==
  /\ pc[t] = "look"
  /\ At(t, IF From(t) \notin stopped THEN "pop"
           ELSE IF Rule(t) = "drained" THEN "count" ELSE "done")
  /\ UNCHANGED <<network, pushed, queue, stopped, held, handled, results>>

Count(t) ==
  /\ pc[t] = "count"
  /\ At(t, IF queue[From(t)] # <<>> THEN "pop" ELSE "done")
  /\ UNCHANGED <<network, pushed, queue, stopped, held, handled, results>>

Pop(t) ==
  /\ pc[t] = "pop" /\ queue[From(t)] # <<>>
  /\ queue' = [queue EXCEPT ![From(t)] = Tail(@)]
  /\ held' = [held EXCEPT ![t] = Head(queue[From(t)])]
  /\ handled' = [handled EXCEPT ![t] = @ + 1]
  /\ At(t, "push")
  /\ UNCHANGED <<network, pushed, stopped, results>>

\* An empty poll is followed by a sleep.
PopNone(t) ==
  /\ pc[t] = "pop" /\ queue[From(t)] = <<>>
  /\ At(t, IF Rule(t) = "polled" THEN "ask" ELSE "look")
  /\ UNCHANGED <<network, pushed, queue, stopped, held, handled, results>>

\* processed >= 20 || is_stopped()
Ask(t) ==
  /\ pc[t] = "ask"
  /\ At(t, IF handled[t] >= MaxItems \/ From(t) \in stopped THEN "done" ELSE "pop")
  /\ UNCHANGED <<network, pushed, queue, stopped, held, handled, results>>

\* The stage passes its result on, or the consumer keeps it.
PassOn(t) ==
  /\ pc[t] = "push"
  /\ IF To(t) = 0
     THEN results' = Append(results, held[t]) /\ UNCHANGED queue
     ELSE /\ HasRoom(To(t))
          /\ queue' = [queue EXCEPT ![To(t)] = Append(@, held[t])]
          /\ UNCHANGED results
  /\ held' = [held EXCEPT ![t] = 0]
  /\ At(t, Top(t))
  /\ UNCHANGED <<network, pushed, stopped, handled>>

Work(t) == Look(t) \/ Count(t) \/ Pop(t) \/ PopNone(t) \/ Ask(t) \/ PassOn(t)

Next == Produce \/ (\E p \in Pipes : Stop(p)) \/ \E t \in Readers : Work(t)

\* Threads that can go on do so.
AnyPipe   == UNION {DOMAIN n.size : n \in Networks}
AnyReader == UNION {DOMAIN n.readers : n \in Networks}
Fairness ==
  /\ WF_vars(Produce)
  /\ \A p \in AnyPipe : WF_vars(p \in Pipes /\ Stop(p))
  /\ \A t \in AnyReader : WF_vars(t \in Readers /\ Work(t))

Spec == Init /\ [][Next]_vars /\ Fairness
-----------------------------------------------------------------------------
(* Properties.                                                             *)

Done == \A t \in Readers : pc[t] = "done"

\* Every item pushed is at one place: in a pipe, with a reader, or collected.  It
\* can be left behind only in a pipe whose readers do not drain it; and where a
\* single thread reads each pipe, items come out in the order they went in.
ItemsAccounted ==
  LET places == results
                \o FlattenSeq([p \in Pipes |-> queue[p]])
                \o SelectSeq([t \in Readers |-> held[t]], LAMBDA i : i # 0)
  IN  /\ Len(places) = pushed /\ ToSet(places) = 1 .. pushed
      /\ Done =>
           \A p \in Pipes :
              (\A t \in Readers : From(t) = p => Rule(t) = "drained") => queue[p] = <<>>
      /\ (\A t, u \in Readers : From(t) = From(u) => t = u) =>
           \A i, j \in DOMAIN results : i < j => results[i] < results[j]

\* The programs come to their end: every reader leaves its loop.
ReadersLeave == <>Done

=============================================================================
