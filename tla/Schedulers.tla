----------------------------- MODULE Schedulers -----------------------------
(***************************************************************************)
(* The three sequential schedulers (src/src/scheduler.rs): a queue, a heap *)
(* ordered by priority, and one queue per worker served in turn.  Tasks    *)
(* are numbered in the order in which they are pushed.                     *)
(***************************************************************************)
EXTENDS Integers, SequencesExt

CONSTANTS
  MaxPushes,    \* bound: calls of push
  Priorities,   \* the priorities given to push, as their numbers
  NumWorkers    \* the queues of the round-robin scheduler, at least one

ASSUME SchedulersAssumption ==
  /\ Priorities \subseteq Int
  /\ NumWorkers \in Nat \ {0}

VARIABLES
  scheduler,   \* "fifo", "priority" or "round_robin"
  queue,       \* FifoScheduler::queue
  heap,        \* the entries of PriorityScheduler::heap
  queues,      \* RoundRobinScheduler::queues
  current,     \* RoundRobinScheduler::current
  log          \* history: the calls of push and pop that did something

vars == <<scheduler, queue, heap, queues, current, log>>

Init ==
  /\ scheduler \in {"fifo", "priority", "round_robin"}
  /\ queue = <<>>
  /\ heap = {}
  /\ queues = [w \in 0 .. NumWorkers - 1 |-> <<>>]
  /\ current = 0
  /\ log = <<>>

Pushed == {i \in DOMAIN log : log[i].op = "push"}
NextTask == Cardinality(Pushed) + 1

\* Both operations of the round-robin scheduler move the same index.
Following(w) == (w + 1) % NumWorkers

Push(p) ==
  /\ NextTask <= MaxPushes
  /\ CASE scheduler = "fifo" ->
            queue' = Append(queue, NextTask) /\ UNCHANGED <<heap, queues, current>>
       [] scheduler = "priority" ->
            /\ heap' = heap \cup {[task |-> NextTask, priority |-> p,
                                   order |-> Cardinality(heap)]}
            /\ UNCHANGED <<queue, queues, current>>
       [] scheduler = "round_robin" ->
            /\ queues' = [queues EXCEPT ![current] = Append(@, NextTask)]
            /\ current' = Following(current)
            /\ UNCHANGED <<queue, heap>>
  /\ log' = Append(log, [op |-> "push", task |-> NextTask, priority |-> p])
  /\ UNCHANGED scheduler

Took(task) == log' = Append(log, [op |-> "pop", task |-> task])

PopFifo ==
  /\ scheduler = "fifo" /\ queue # <<>>
  /\ queue' = Tail(queue)
  /\ Took(Head(queue))
  /\ UNCHANGED <<scheduler, heap, queues, current>>

\* Mutant: the tie break of cmp the other way round.
AheadReversed(e, f) ==
  e.priority > f.priority \/ (e.priority = f.priority /\ e.order > f.order)

\* e is greater than f in the order of the heap.
Ahead(e, f) ==
  e.priority > f.priority \/ (e.priority = f.priority /\ e.order < f.order)

\* Entries that compare equal come out in an order that the shape of the heap
\* decides: any of them may be next.
PopPriority ==
  /\ scheduler = "priority"
  /\ \E e \in heap :
       /\ ~ \E f \in heap : Ahead(f, e)
       /\ heap' = heap \ {e}
       /\ Took(e.task)
  /\ UNCHANGED <<scheduler, queue, queues, current>>

\* The queues are tried in turn from current on.
PopRoundRobin ==
  /\ scheduler = "round_robin"
  /\ \E k \in 0 .. NumWorkers - 1 :
       LET At(j) == (current + j) % NumWorkers IN
       /\ queues[At(k)] # <<>>
       /\ \A j \in 0 .. k - 1 : queues[At(j)] = <<>>
       /\ queues' = [queues EXCEPT ![At(k)] = Tail(@)]
       /\ current' = Following(At(k))
       /\ Took(Head(queues[At(k)]))
  /\ UNCHANGED <<scheduler, queue, heap>>

Next ==
  \/ \E p \in Priorities : Push(p)
  \/ PopFifo \/ PopPriority \/ PopRoundRobin

Spec == Init /\ [][Next]_vars
-----------------------------------------------------------------------------
(* Properties.                                                             *)

PushAt(t) == CHOOSE i \in Pushed : log[i].task = t
PopsIn(i, j) == {k \in i .. j : log[k].op = "pop"}
Waiting(i) == {log[j].task : j \in Pushed \cap 1 .. i} \ {log[j].task : j \in PopsIn(1, i)}

\* The places in the log of the pops between two pushes.
Between(x, y) == PopsIn(PushAt(x), PushAt(y))

\* The tasks x that have to be handed out before y as long as both are queued:
\* for the queue those pushed earlier; for the heap those of higher priority,
\* and those of the same priority pushed earlier unless at least as many tasks
\* were popped between the two pushes as y was pushed after x (the number a push
\* takes is the length of the heap, which a pop gives back); for the queues those
\* a whole turn of pushes earlier, with no pop in between.
Before(x, y) ==
  LET Undisturbed == PushAt(x) < PushAt(y) /\ Between(x, y) = {} IN
  CASE scheduler = "fifo" -> x < y
    [] scheduler = "priority" ->
         \/ log[PushAt(x)].priority > log[PushAt(y)].priority
         \/ /\ log[PushAt(x)].priority = log[PushAt(y)].priority
            /\ x < y /\ Cardinality(Between(x, y)) < y - x
    [] OTHER -> Undisturbed /\ (y - x) % NumWorkers = 0

\* No scheduler loses a task or hands one out twice, and each keeps its order
\* over every mixture of pushes and pops.
ServedInOrder ==
  /\ \A i \in PopsIn(1, Len(log)) :
       /\ log[i].task \in Waiting(i - 1)
       /\ \A x \in Waiting(i - 1) : ~Before(x, log[i].task)
  /\ Waiting(Len(log)) =
       CASE scheduler = "fifo" -> ToSet(queue)
         [] scheduler = "priority" -> {e.task : e \in heap}
         [] OTHER -> UNION {ToSet(queues[w]) : w \in DOMAIN queues}

=============================================================================
