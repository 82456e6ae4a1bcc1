--------------------------- MODULE PipelineProofs ---------------------------
(***************************************************************************)
(* Proofs about ConcurrentPipeline, for any number of producers and        *)
(* consumers and every buffer size and capacity.                           *)
(***************************************************************************)
EXTENDS ConcurrentPipeline, SequenceTheorems, FiniteSetTheorems, TLAPS

\* Producers that have passed the capacity check and not yet enqueued.
Admitted == {p \in Producers : pc[p] # "idle"}

\* Tokens already queued and tokens admitted share the room that the capacity
\* and the producers that may overrun it leave.
BufferInv ==
  /\ <<bufferSize, maxTokens>> \in Sizes
  /\ queue \in Seq(Token)
  /\ tokensInFlight \in Nat
  /\ attempts \in [Producers -> Nat]
  /\ pc \in [Producers -> {"idle", "acquire", "waiting"}]
  /\ BufferBounded
  /\ CounterExact
  /\ BlockedOnlyWhenFull
  /\ tokensInFlight + Cardinality(Admitted) <= maxTokens + Cardinality(Producers) - 1

LEMMA SizeFacts ==
  ASSUME <<bufferSize, maxTokens>> \in Sizes
  PROVE  bufferSize \in Nat \ {0} /\ maxTokens \in Nat \ {0}
BY PipelineAssumption

LEMMA AdmittedFacts ==
  /\ IsFiniteSet(Admitted) /\ Cardinality(Admitted) \in Nat
  /\ Cardinality(Producers) \in Nat /\ Cardinality(Admitted) <= Cardinality(Producers)
<1>1. Admitted \subseteq Producers
  BY DEF Admitted
<1> QED BY <1>1, PipelineAssumption, FS_Subset, FS_CardinalityType

LEMMA BufferInit == PipelineInit => BufferInv
<1> SUFFICES ASSUME PipelineInit PROVE BufferInv
  OBVIOUS
<1>1. <<bufferSize, maxTokens>> \in Sizes /\ bufferSize \in Nat \ {0} /\ maxTokens \in Nat \ {0}
  <2>1. PICK size \in Sizes : bufferSize = size[1] /\ maxTokens = size[2]
    BY DEF PipelineInit
  <2>2. size = <<bufferSize, maxTokens>>
    BY <2>1, PipelineAssumption
  <2> QED BY <2>2, SizeFacts
<1>2. queue = <<>> /\ tokensInFlight = 0 /\ pc = [p \in Producers |-> "idle"]
      /\ attempts = [p \in Producers |-> 0]
  BY DEF PipelineInit
<1>3. Admitted = {}
  BY <1>2 DEF Admitted
<1>4. Cardinality(Admitted) = 0 /\ Cardinality(Producers) \in Nat
  BY <1>3, AdmittedFacts, FS_EmptySet
<1>5. Len(queue) = 0 /\ queue \in Seq(Token)
  BY <1>2, EmptySeq
<1> QED
  BY <1>1, <1>2, <1>4, <1>5
     DEF BufferInv, BufferBounded, CounterExact, BlockedOnlyWhenFull

LEMMA BufferCheck ==
  ASSUME BufferInv, NEW p \in Producers, PushCheck(p)
  PROVE  BufferInv'
<1>1. /\ pc \in [Producers -> {"idle", "acquire", "waiting"}] /\ pc[p] = "idle"
      /\ attempts' \in [Producers -> Nat]
      /\ UNCHANGED <<bufferSize, maxTokens, queue, tokensInFlight>>
      /\ maxTokens \in Nat /\ tokensInFlight \in Nat
  BY SizeFacts DEF BufferInv, PushCheck, fixed
<1>2. CASE tokensInFlight >= maxTokens
  <2>1. pc' = pc
    BY <1>2 DEF PushCheck
  <2> QED
    BY <1>1, <2>1 DEF BufferInv, BufferBounded, CounterExact, BlockedOnlyWhenFull, Full, Admitted
<1>3. CASE ~(tokensInFlight >= maxTokens)
  <2>1. pc' = [pc EXCEPT ![p] = "acquire"]
    BY <1>3 DEF PushCheck
  <2>2. Admitted' = Admitted \cup {p} /\ p \notin Admitted
    BY <1>1, <2>1 DEF Admitted
  <2>3. Cardinality(Admitted') <= Cardinality(Producers) /\ Cardinality(Admitted') \in Nat
    <3>1. Admitted \cup {p} \subseteq Producers
      BY DEF Admitted
    <3> QED BY <2>2, <3>1, PipelineAssumption, FS_Subset, FS_CardinalityType
  <2>4. tokensInFlight' + Cardinality(Admitted') <= maxTokens' + Cardinality(Producers) - 1
    BY <1>1, <1>3, <2>3, AdmittedFacts
  <2> QED
    BY <1>1, <2>1, <2>4 DEF BufferInv, BufferBounded, CounterExact, BlockedOnlyWhenFull, Full
<1> QED BY <1>2, <1>3

LEMMA BufferEnqueue ==
  ASSUME BufferInv, NEW p \in Producers, PushEnqueue(p)
  PROVE  BufferInv'
<1> DEFINE token == [from |-> p, data |-> attempts[p], index |-> tokensInFlight]
<1>1. /\ pc \in [Producers -> {"idle", "acquire", "waiting"}] /\ pc[p] = "acquire"
      /\ queue \in Seq(Token) /\ tokensInFlight \in Nat /\ tokensInFlight = Len(queue)
      /\ bufferSize \in Nat /\ maxTokens \in Nat
      /\ Len(queue) <= bufferSize /\ ~(Len(queue) >= bufferSize)
      /\ attempts' = attempts
      /\ UNCHANGED <<bufferSize, maxTokens>>
      /\ tokensInFlight' = tokensInFlight + 1
      /\ queue' = Append(queue, token)
      /\ pc' = Awake([pc EXCEPT ![p] = "idle"])
  BY SizeFacts DEF BufferInv, PushEnqueue, BufferBounded, CounterExact, Full, fixed
<1>2. token \in Token
  BY <1>1 DEF Token, BufferInv
<1>3. queue' \in Seq(Token) /\ Len(queue') = Len(queue) + 1
  BY <1>1, <1>2, AppendProperties
<1>4. /\ pc' \in [Producers -> {"idle", "acquire", "waiting"}]
      /\ \A q \in Producers : pc'[q] # "waiting"
      /\ Admitted' = Admitted \ {p} /\ p \in Admitted
  BY <1>1 DEF Awake, Admitted
<1>5. Cardinality(Admitted') = Cardinality(Admitted) - 1
  BY <1>4, AdmittedFacts, FS_RemoveElement
<1>6. tokensInFlight' + Cardinality(Admitted') <= maxTokens' + Cardinality(Producers) - 1
  BY <1>1, <1>5, AdmittedFacts DEF BufferInv
<1>7. tokensInFlight' \in Nat /\ tokensInFlight' = Len(queue') /\ Len(queue') <= bufferSize'
  BY <1>1, <1>3
<1> QED
  BY <1>1, <1>3, <1>4, <1>6, <1>7
     DEF BufferInv, BufferBounded, CounterExact, BlockedOnlyWhenFull, Full

LEMMA BufferPop ==
  ASSUME BufferInv, NEW c \in Consumers, TryPop(c)
  PROVE  BufferInv'
<1>1. /\ pc \in [Producers -> {"idle", "acquire", "waiting"}]
      /\ queue \in Seq(Token) /\ tokensInFlight \in Nat /\ tokensInFlight = Len(queue)
      /\ bufferSize \in Nat /\ maxTokens \in Nat
      /\ Len(queue) <= bufferSize
      /\ UNCHANGED <<bufferSize, maxTokens, attempts>>
      /\ queue # <<>> /\ tokensInFlight' = tokensInFlight - 1 /\ queue' = Tail(queue)
      /\ pc' = Awake(pc)
  BY SizeFacts DEF BufferInv, TryPop, BufferBounded, CounterExact, fixed
<1>2. queue' \in Seq(Token) /\ Len(queue') = Len(queue) - 1 /\ Len(queue) \in Nat \ {0}
  BY <1>1, HeadTailProperties, EmptySeq, LenProperties
<1>3. /\ pc' \in [Producers -> {"idle", "acquire", "waiting"}]
      /\ \A q \in Producers : pc'[q] # "waiting"
      /\ Admitted' = Admitted
  BY <1>1 DEF Awake, Admitted
<1> QED
  BY <1>1, <1>2, <1>3, AdmittedFacts
     DEF BufferInv, BufferBounded, CounterExact, BlockedOnlyWhenFull, Full

\* Steps that move producers between waiting and acquiring only.
LEMMA BufferRest ==
  ASSUME BufferInv,
         UNCHANGED <<bufferSize, maxTokens, queue, tokensInFlight, attempts>>,
         pc' \in [Producers -> {"idle", "acquire", "waiting"}],
         \A p \in Producers : pc'[p] = "idle" <=> pc[p] = "idle",
         \A p \in Producers : pc'[p] = "waiting" => pc[p] = "waiting" \/ Full
  PROVE  BufferInv'
<1>1. Admitted' = Admitted /\ Full' = Full
  BY DEF Admitted, Full
<1> QED
  BY <1>1 DEF BufferInv, BufferBounded, CounterExact, BlockedOnlyWhenFull

LEMMA BufferAlways == PipelineSpec => []BufferInv
<1>1. BufferInv /\ [PipelineNext]_pipelineVars => BufferInv'
  <2> SUFFICES ASSUME BufferInv, [PipelineNext]_pipelineVars PROVE BufferInv'
    OBVIOUS
  <2>1. pc \in [Producers -> {"idle", "acquire", "waiting"}]
    BY DEF BufferInv
  <2>2. ASSUME NEW p \in Producers, PushStep(p) PROVE BufferInv'
    <3>1. CASE PushCheck(p)
      BY <3>1, BufferCheck
    <3>2. CASE PushWait(p)
      BY <2>1, <3>2, BufferRest DEF PushWait, fixed
    <3>3. CASE PushEnqueue(p)
      BY <3>3, BufferEnqueue
    <3> QED BY <2>2, <3>1, <3>2, <3>3 DEF PushStep
  <2>3. ASSUME NEW p \in Producers, WakeSpuriously(p) PROVE BufferInv'
    BY <2>1, <2>3, BufferRest DEF WakeSpuriously, fixed
  <2>4. ASSUME NEW c \in Consumers, TryPop(c) PROVE BufferInv'
    BY <2>4, BufferPop
  <2>5. CASE StopSet
    BY <2>1, <2>5, BufferRest DEF StopSet, fixed
  <2>6. CASE StopNotify
    BY <2>1, <2>6, BufferRest DEF StopNotify, Awake, fixed
  <2>7. CASE UNCHANGED pipelineVars
    BY <2>1, <2>7, BufferRest DEF pipelineVars, fixed
  <2> QED BY <2>2, <2>3, <2>4, <2>5, <2>6, <2>7 DEF PipelineNext, TryPopNone
<1> QED BY <1>1, BufferInit, PTL DEF PipelineSpec

\* The buffer never holds more than buffer_size tokens, however the producers
\* woken by one pop contend for the free place (the while loop of push).
THEOREM Bounded == PipelineSpec => []BufferBounded
BY BufferAlways, PTL DEF BufferInv

\* A producer sleeps in push only while the buffer is full: whoever makes room
\* notifies within the same critical section.
THEOREM NoneBlockedInVain == PipelineSpec => []BlockedOnlyWhenFull
BY BufferAlways, PTL DEF BufferInv

\* max_tokens may be exceeded, because push looks at the counter before it takes
\* the mutex, by no more than the number of other producers.
THEOREM Overrun == PipelineSpec => []OverrunBounded
<1>1. BufferInv => OverrunBounded
  <2> SUFFICES ASSUME BufferInv PROVE OverrunBounded
    OBVIOUS
  <2>1. maxTokens \in Nat /\ tokensInFlight \in Nat
    BY SizeFacts DEF BufferInv
  <2> QED BY <2>1, AdmittedFacts DEF BufferInv, OverrunBounded
<1> QED BY <1>1, BufferAlways, PTL
-----------------------------------------------------------------------------
(* Types and order.                                                        *)

Tokens == delivered \o queue

\* What BufferInv leaves out of the types.
RestTypes ==
  /\ delivered \in Seq(Token)
  /\ stopped \in BOOLEAN
  /\ attempts \in [Producers -> 0 .. Items]
  /\ stopper \in {"running", "notify", "done"}
  /\ spurious \in 0 .. MaxSpurious

\* The items of a producer are numbered by its attempts, and the one it is about
\* to enqueue is not among the tokens yet.
OrderInv ==
  /\ InOrder
  /\ \A i \in DOMAIN Tokens :
       /\ Tokens[i].data <= attempts[Tokens[i].from]
       /\ pc[Tokens[i].from] # "idle" => Tokens[i].data < attempts[Tokens[i].from]

LEMMA RestAlways == PipelineSpec => [](BufferInv /\ RestTypes)
<1>1. PipelineInit => RestTypes
  <2> SUFFICES ASSUME PipelineInit PROVE RestTypes
    OBVIOUS
  <2>1. delivered \in Seq(Token)
    BY EmptySeq DEF PipelineInit
  <2>2. stopped \in BOOLEAN /\ stopper \in {"running", "notify", "done"}
    BY DEF PipelineInit
  <2>3. attempts \in [Producers -> 0 .. Items] /\ spurious \in 0 .. MaxSpurious
    <3>1. 0 \in 0 .. Items /\ 0 \in 0 .. MaxSpurious
      BY PipelineAssumption
    <3>2. attempts = [p \in Producers |-> 0] /\ spurious = 0
      BY DEF PipelineInit
    <3> QED BY <3>1, <3>2
  <2> QED BY <2>1, <2>2, <2>3 DEF RestTypes
<1>2. BufferInv /\ RestTypes /\ [PipelineNext]_pipelineVars => RestTypes'
  <2> SUFFICES ASSUME BufferInv, RestTypes, [PipelineNext]_pipelineVars PROVE RestTypes'
    OBVIOUS
  <2>1. ASSUME NEW p \in Producers, PushStep(p) \/ WakeSpuriously(p) PROVE RestTypes'
    <3>1. /\ delivered' = delivered /\ UNCHANGED <<stopped, stopper>>
          /\ attempts' \in [Producers -> 0 .. Items] /\ spurious' \in 0 .. MaxSpurious
      <4>1. CASE PushStep(p)
        <5>1. CASE PushCheck(p)
          BY <5>1, PipelineAssumption DEF PushCheck, RestTypes
        <5>2. CASE PushWait(p) \/ PushEnqueue(p)
          BY <5>2 DEF PushWait, PushEnqueue, RestTypes
        <5> QED BY <4>1, <5>1, <5>2 DEF PushStep
      <4>2. CASE WakeSpuriously(p)
        BY <4>2, PipelineAssumption DEF WakeSpuriously, RestTypes
      <4> QED BY <2>1, <4>1, <4>2
    <3> QED BY <3>1 DEF RestTypes
  <2>2. ASSUME NEW c \in Consumers, TryPop(c) PROVE RestTypes'
    <3>1. delivered' = Append(delivered, Head(queue)) /\ Head(queue) \in Token
      BY <2>2, HeadTailProperties DEF TryPop, BufferInv
    <3>2. delivered' \in Seq(Token)
      BY <3>1, AppendProperties DEF RestTypes
    <3> QED BY <2>2, <3>2 DEF TryPop, RestTypes
  <2>3. CASE StopSet \/ StopNotify
    BY <2>3 DEF StopSet, StopNotify, RestTypes
  <2>4. CASE UNCHANGED pipelineVars
    BY <2>4 DEF pipelineVars, RestTypes
  <2> QED BY <2>1, <2>2, <2>3, <2>4 DEF PipelineNext, TryPopNone
<1> QED BY <1>1, <1>2, BufferAlways, PTL DEF PipelineSpec

\* The types hold for every number of producers and consumers.
THEOREM PipelineTypes == PipelineSpec => []PipelineTypeOK
<1>1. BufferInv /\ RestTypes => PipelineTypeOK
  BY DEF BufferInv, RestTypes, PipelineTypeOK
<1> QED BY <1>1, RestAlways, PTL

\* A step that leaves the tokens and the attempts alone, and no producer further
\* into push than it was.
LEMMA OrderKept ==
  ASSUME OrderInv, Tokens' = Tokens, attempts' = attempts,
         \A p \in Producers : pc'[p] # "idle" => pc[p] # "idle",
         \A i \in DOMAIN Tokens : Tokens[i].from \in Producers
  PROVE  OrderInv'
BY DEF OrderInv, InOrder, Tokens

LEMMA TokensTyped ==
  ASSUME BufferInv, RestTypes
  PROVE  /\ Tokens \in Seq(Token) /\ DOMAIN Tokens = 1 .. Len(Tokens) /\ Len(Tokens) \in Nat
         /\ \A i \in DOMAIN Tokens : Tokens[i].from \in Producers /\ Tokens[i].data \in Nat
<1>1. Tokens \in Seq(Token)
  BY ConcatProperties DEF BufferInv, RestTypes, Tokens
<1>2. DOMAIN Tokens = 1 .. Len(Tokens) /\ Len(Tokens) \in Nat
      /\ \A i \in DOMAIN Tokens : Tokens[i] \in Token
  BY <1>1, LenProperties, ElementOfSeq
<1> QED BY <1>1, <1>2 DEF Token

LEMMA OrderCheck ==
  ASSUME BufferInv, RestTypes, OrderInv, NEW p \in Producers, PushCheck(p)
  PROVE  OrderInv'
<1>1. /\ attempts \in [Producers -> 0 .. Items] /\ Items \in Nat
      /\ pc \in [Producers -> {"idle", "acquire", "waiting"}]
      /\ pc[p] = "idle" /\ attempts' = [attempts EXCEPT ![p] = @ + 1]
      /\ pc' = pc \/ pc' = [pc EXCEPT ![p] = "acquire"]
      /\ Tokens' = Tokens
  BY PipelineAssumption DEF BufferInv, RestTypes, PushCheck, Tokens
<1>2. ASSUME NEW i \in DOMAIN Tokens
      PROVE  /\ Tokens[i].data <= attempts'[Tokens[i].from]
             /\ pc'[Tokens[i].from] # "idle" => Tokens[i].data < attempts'[Tokens[i].from]
  <2>1. /\ Tokens[i].from \in Producers /\ Tokens[i].data \in Nat
        /\ Tokens[i].data <= attempts[Tokens[i].from]
        /\ pc[Tokens[i].from] # "idle" => Tokens[i].data < attempts[Tokens[i].from]
    BY TokensTyped DEF OrderInv
  <2>2. CASE Tokens[i].from = p
    BY <1>1, <2>1, <2>2
  <2>3. CASE Tokens[i].from # p
    BY <1>1, <2>1, <2>3
  <2> QED BY <2>2, <2>3
<1> QED BY <1>1, <1>2 DEF OrderInv, InOrder, Tokens

LEMMA OrderEnqueue ==
  ASSUME BufferInv, RestTypes, OrderInv, NEW p \in Producers, PushEnqueue(p)
  PROVE  OrderInv'
<1> DEFINE token == [from |-> p, data |-> attempts[p], index |-> tokensInFlight]
           n == Len(Tokens)
<1>1. /\ attempts \in [Producers -> 0 .. Items] /\ Items \in Nat /\ attempts' = attempts
      /\ pc \in [Producers -> {"idle", "acquire", "waiting"}] /\ pc[p] = "acquire"
      /\ delivered \in Seq(Token) /\ queue \in Seq(Token)
      /\ delivered' = delivered /\ queue' = Append(queue, token)
      /\ \A q \in Producers : pc'[q] # "idle" => q # p /\ pc[q] # "idle"
  BY PipelineAssumption DEF BufferInv, RestTypes, PushEnqueue, Awake
<1>2. token \in Token
  BY <1>1 DEF Token, BufferInv
<1>3. Tokens' = Append(Tokens, token)
  BY <1>1, <1>2 DEF Tokens
<1>4. /\ DOMAIN Tokens = 1 .. n /\ n \in Nat /\ Tokens \in Seq(Token)
      /\ \A i \in 1 .. n : Tokens[i].from \in Producers /\ Tokens[i].data \in Nat
  BY TokensTyped
<1>5. /\ DOMAIN Tokens' = 1 .. n + 1 /\ Tokens'[n + 1] = token
      /\ \A i \in 1 .. n : Tokens'[i] = Tokens[i]
  BY <1>2, <1>3, <1>4, AppendProperties
<1>6. token.from = p /\ token.data = attempts[p]
  OBVIOUS
<1> HIDE DEF token, n
<1>7. \A i \in 1 .. n : Tokens[i].from = p => Tokens[i].data < attempts[p]
  BY <1>1, <1>4 DEF OrderInv
<1>8. ASSUME NEW i \in 1 .. n + 1, NEW j \in 1 .. n + 1, i < j, Tokens'[i].from = Tokens'[j].from
      PROVE  Tokens'[i].data < Tokens'[j].data
  <2>1. i \in 1 .. n
    BY <1>4, <1>8
  <2>2. CASE j = n + 1
    BY <1>5, <1>6, <1>7, <1>8, <2>1, <2>2
  <2>3. CASE j \in 1 .. n
    BY <1>4, <1>5, <1>8, <2>1, <2>3 DEF OrderInv, InOrder, Tokens
  <2> QED BY <1>4, <2>2, <2>3
<1>9. ASSUME NEW i \in 1 .. n + 1
      PROVE  /\ Tokens'[i].data <= attempts'[Tokens'[i].from]
             /\ pc'[Tokens'[i].from] # "idle" => Tokens'[i].data < attempts'[Tokens'[i].from]
  <2>1. CASE i = n + 1
    BY <1>1, <1>5, <1>6, <2>1
  <2>2. CASE i \in 1 .. n
    BY <1>1, <1>4, <1>5, <2>2 DEF OrderInv
  <2> QED BY <1>4, <2>1, <2>2
<1>10. InOrder'
  BY <1>5, <1>8 DEF InOrder, Tokens
<1> QED BY <1>5, <1>9, <1>10 DEF OrderInv

\* A pop moves the boundary between what has been delivered and what is queued.
LEMMA PopConcat ==
  ASSUME NEW d \in Seq(Token), NEW q \in Seq(Token), q # <<>>
  PROVE  Append(d, Head(q)) \o Tail(q) = d \o q
<1>1. Head(q) \in Token /\ Tail(q) \in Seq(Token) /\ <<Head(q)>> \in Seq(Token)
  BY HeadTailProperties
<1>2. <<Head(q)>> \o Tail(q) = q
  <2> DEFINE r == <<Head(q)>> \o Tail(q)
  <2>1. /\ r \in Seq(Token) /\ Len(r) = 1 + Len(Tail(q)) /\ Len(q) \in Nat
        /\ Len(Tail(q)) = Len(q) - 1
        /\ \A i \in 1 .. Len(q) : r[i] = IF i <= 1 THEN Head(q) ELSE Tail(q)[i - 1]
    BY <1>1, ConcatProperties, HeadTailProperties, LenProperties
  <2>2. \A i \in 1 .. Len(Tail(q)) : Tail(q)[i] = q[i + 1]
    BY HeadTailProperties
  <2>3. \A i \in 1 .. Len(q) : r[i] = q[i]
    BY <2>1, <2>2
  <2> HIDE DEF r
  <2>4. Len(r) = Len(q) /\ r \in [1 .. Len(r) -> Token] /\ q \in [1 .. Len(q) -> Token]
    BY <2>1, LenProperties
  <2> QED BY <2>3, <2>4 DEF r
<1>3. Append(d, Head(q)) = d \o <<Head(q)>>
  BY <1>1, AppendIsConcat
<1>4. (d \o <<Head(q)>>) \o Tail(q) = d \o (<<Head(q)>> \o Tail(q))
  BY <1>1, ConcatAssociative
<1> QED BY <1>2, <1>3, <1>4

LEMMA OrderPop ==
  ASSUME BufferInv, RestTypes, OrderInv, NEW c \in Consumers, TryPop(c)
  PROVE  OrderInv'
<1>1. /\ delivered \in Seq(Token) /\ queue \in Seq(Token) /\ queue # <<>>
      /\ delivered' = Append(delivered, Head(queue)) /\ queue' = Tail(queue)
      /\ attempts' = attempts /\ pc' = Awake(pc)
      /\ pc \in [Producers -> {"idle", "acquire", "waiting"}]
  BY DEF BufferInv, RestTypes, TryPop
<1>2. Tokens' = Tokens
  BY <1>1, PopConcat DEF Tokens
<1>3. \A p \in Producers : pc'[p] # "idle" => pc[p] # "idle"
  BY <1>1 DEF Awake
<1> QED BY <1>1, <1>2, <1>3, OrderKept, TokensTyped

\* Tokens come out of the pipeline in the order in which their producer pushed
\* them, for any producers and consumers: the number of an item is fixed before
\* the mutex is taken, and nobody overtakes himself.
THEOREM FirstInFirstOut == PipelineSpec => []InOrder
<1>1. PipelineInit => OrderInv
  <2> SUFFICES ASSUME PipelineInit PROVE OrderInv
    OBVIOUS
  <2>1. DOMAIN Tokens = {}
    BY DEF PipelineInit, Tokens
  <2> QED BY <2>1 DEF OrderInv, InOrder, Tokens
<1>2. BufferInv /\ RestTypes /\ OrderInv /\ [PipelineNext]_pipelineVars => OrderInv'
  <2> SUFFICES ASSUME BufferInv, RestTypes, OrderInv, [PipelineNext]_pipelineVars PROVE OrderInv'
    OBVIOUS
  <2>1. pc \in [Producers -> {"idle", "acquire", "waiting"}]
        /\ \A i \in DOMAIN Tokens : Tokens[i].from \in Producers
    BY TokensTyped DEF BufferInv
  <2>2. ASSUME NEW p \in Producers, PushWait(p) \/ WakeSpuriously(p) PROVE OrderInv'
    BY <2>1, <2>2, OrderKept DEF PushWait, WakeSpuriously, Tokens
  <2>3. CASE StopSet \/ StopNotify \/ UNCHANGED pipelineVars
    BY <2>1, <2>3, OrderKept DEF StopSet, StopNotify, Awake, pipelineVars, Tokens
  <2> QED BY <2>2, <2>3, OrderCheck, OrderEnqueue, OrderPop DEF PipelineNext, PushStep, TryPopNone
<1>3. OrderInv => InOrder
  BY DEF OrderInv
<1> QED BY <1>1, <1>2, <1>3, RestAlways, PTL DEF PipelineSpec

=============================================================================
