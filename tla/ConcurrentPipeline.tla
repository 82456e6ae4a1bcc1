------------------------- MODULE ConcurrentPipeline -------------------------
(***************************************************************************)
(* The bounded token queue between two pipeline stages                     *)
(* (src/src/pipeline.rs): producers push, consumers poll, anyone stops it. *)
(*                                                                         *)
(* A push looks at the in-flight counter before it takes the queue mutex   *)
(* and then waits on the condition variable while the buffer is full.  The *)
(* counter is otherwise changed under that mutex only, so one step stands  *)
(* for each critical section.                                              *)
(***************************************************************************)
EXTENDS Naturals, SequencesExt

CONSTANTS
  Producers, Consumers,
  Items,        \* bound: pushes attempted by each producer
  Sizes,        \* the pairs of buffer_size and max_tokens given to new
  MaxSpurious   \* bound: how many waits may return without a notification

ASSUME PipelineAssumption ==
  /\ IsFiniteSet(Producers)
  /\ Items \in Nat /\ MaxSpurious \in Nat
  /\ Sizes \subseteq (Nat \ {0}) \X (Nat \ {0})

VARIABLES
  bufferSize,       \* buffer_size, fixed by new
  maxTokens,        \* max_tokens, fixed by new
  queue,            \* VecDeque<Token<T>>
  tokensInFlight,   \* tokens_in_flight
  stopped,          \* the flag of stop, under a mutex of its own
  pc,               \* where each producer is in push
  attempts,         \* calls of push a producer has started
  stopper,          \* the thread that calls stop
  spurious,         \* wait returns without notification so far (a bound)
  delivered         \* history: the tokens popped, in order

fixed == <<bufferSize, maxTokens>>
pipelineVars == <<fixed, queue, tokensInFlight, stopped, pc, attempts, stopper, spurious, delivered>>

PipelineInit ==
  /\ \E size \in Sizes : bufferSize = size[1] /\ maxTokens = size[2]
  /\ queue = <<>> /\ tokensInFlight = 0 /\ stopped = FALSE
  /\ pc = [p \in Producers |-> "idle"]
  /\ attempts = [p \in Producers |-> 0]
  /\ stopper = "running"
  /\ spurious = 0
  /\ delivered = <<>>

\* condvar.notify_all(), called with the queue mutex held or after a change
\* that waiting producers do not look at.
Awake(labels) == [p \in Producers |-> IF labels[p] = "waiting" THEN "acquire" ELSE labels[p]]

\* Mutant: one place too many.
FullBeyond == Len(queue) > bufferSize

Full == Len(queue) >= bufferSize

\* Mutant: the capacity is not looked at.
PushUnchecked(p) ==
  /\ pc[p] = "idle" /\ attempts[p] < Items
  /\ attempts' = [attempts EXCEPT ![p] = @ + 1]
  /\ pc' = [pc EXCEPT ![p] = "acquire"]
  /\ UNCHANGED <<fixed, queue, tokensInFlight, stopped, stopper, spurious, delivered>>

\* At capacity push returns an error: the item is dropped, as by .ok().
PushCheck(p) ==
  /\ pc[p] = "idle" /\ attempts[p] < Items
  /\ attempts' = [attempts EXCEPT ![p] = @ + 1]
  /\ IF tokensInFlight >= maxTokens
     THEN pc' = pc
     ELSE pc' = [pc EXCEPT ![p] = "acquire"]
  /\ UNCHANGED <<fixed, queue, tokensInFlight, stopped, stopper, spurious, delivered>>

\* Backpressure: the buffer is full when the producer holds the mutex.
PushWait(p) ==
  /\ pc[p] = "acquire" /\ Full
  /\ pc' = [pc EXCEPT ![p] = "waiting"]
  /\ UNCHANGED <<fixed, queue, tokensInFlight, stopped, attempts, stopper, spurious, delivered>>

\* The token's index is the counter's value before the increment.
PushEnqueue(p) ==
  /\ pc[p] = "acquire" /\ ~Full
  /\ tokensInFlight' = tokensInFlight + 1
  /\ queue' = Append(queue, [from |-> p, data |-> attempts[p], index |-> tokensInFlight])
  /\ pc' = Awake([pc EXCEPT ![p] = "idle"])
  /\ UNCHANGED <<fixed, stopped, attempts, stopper, spurious, delivered>>

WakeSpuriously(p) ==
  /\ pc[p] = "waiting" /\ spurious < MaxSpurious
  /\ spurious' = spurious + 1
  /\ pc' = [pc EXCEPT ![p] = "acquire"]
  /\ UNCHANGED <<fixed, queue, tokensInFlight, stopped, attempts, stopper, delivered>>

\* Mutant: nobody learns of the free place.
PopSilently(c) ==
  /\ queue # <<>>
  /\ queue' = Tail(queue)
  /\ tokensInFlight' = tokensInFlight - 1
  /\ delivered' = Append(delivered, Head(queue))
  /\ UNCHANGED <<fixed, stopped, pc, attempts, stopper, spurious>>

\* Mutant: the newest token goes first.
PopLast(c) ==
  /\ queue # <<>>
  /\ queue' = Front(queue)
  /\ tokensInFlight' = tokensInFlight - 1
  /\ pc' = Awake(pc)
  /\ delivered' = Append(delivered, Last(queue))
  /\ UNCHANGED <<fixed, stopped, attempts, stopper, spurious>>

\* try_pop; on an empty queue it returns None and changes nothing.
TryPop(c) ==
  /\ queue # <<>>
  /\ queue' = Tail(queue)
  /\ tokensInFlight' = tokensInFlight - 1
  /\ pc' = Awake(pc)
  /\ delivered' = Append(delivered, Head(queue))
  /\ UNCHANGED <<fixed, stopped, attempts, stopper, spurious>>

TryPopNone(c) == queue = <<>> /\ UNCHANGED pipelineVars

\* stop sets its flag and wakes the producers that wait for room, who look at
\* the buffer again and at nothing else.
StopSet ==
  /\ stopper = "running"
  /\ stopped' = TRUE
  /\ stopper' = "notify"
  /\ UNCHANGED <<fixed, queue, tokensInFlight, pc, attempts, spurious, delivered>>

StopNotify ==
  /\ stopper = "notify"
  /\ pc' = Awake(pc)
  /\ stopper' = "done"
  /\ UNCHANGED <<fixed, queue, tokensInFlight, stopped, attempts, spurious, delivered>>

PushStep(p) == PushCheck(p) \/ PushWait(p) \/ PushEnqueue(p)

PipelineNext ==
  \/ \E p \in Producers : PushStep(p) \/ WakeSpuriously(p)
  \/ \E c \in Consumers : TryPop(c) \/ TryPopNone(c)
  \/ StopSet \/ StopNotify

\* Producers keep running, and each consumer keeps polling whether or not the
\* pipeline has been stopped.
PipelineFairness ==
  /\ \A p \in Producers : WF_pipelineVars(PushStep(p))
  /\ \A c \in Consumers : WF_pipelineVars(TryPop(c))

PipelineSpec == PipelineInit /\ [][PipelineNext]_pipelineVars /\ PipelineFairness

-----------------------------------------------------------------------------
(* Properties.                                                             *)

Token == [from : Producers, data : Nat, index : Nat]

\* Types of the variables.
PipelineTypeOK ==
  /\ <<bufferSize, maxTokens>> \in Sizes
  /\ queue \in Seq(Token) /\ delivered \in Seq(Token)
  /\ tokensInFlight \in Nat
  /\ stopped \in BOOLEAN
  /\ pc \in [Producers -> {"idle", "acquire", "waiting"}]
  /\ attempts \in [Producers -> 0 .. Items]
  /\ stopper \in {"running", "notify", "done"}
  /\ spurious \in 0 .. MaxSpurious

\* However many producers one pop wakes up, the buffer never exceeds its size,
\* and the counter says how many tokens it holds.
BufferBounded == Len(queue) <= bufferSize

CounterExact == tokensInFlight = Len(queue)

\* The capacity is looked at outside the mutex: every producer but one may have
\* passed the check before the last free token is taken.
OverrunBounded ==
  tokensInFlight <= maxTokens + Cardinality(Producers) - 1

\* A producer waits for room only while there is none.
BlockedOnlyWhenFull == \A p \in Producers : pc[p] = "waiting" => Full

\* The items of one producer are delivered in the order in which it pushed them.
InOrder ==
  LET all == delivered \o queue IN
  \A i, j \in DOMAIN all :
    i < j /\ all[i].from = all[j].from => all[i].data < all[j].data

\* A push that has passed the capacity check returns, as long as consumers poll.
PushReturns == \A p \in Producers : pc[p] # "idle" ~> pc[p] = "idle"

=============================================================================
