-------------------------- MODULE PreemptiveProofs --------------------------
(***************************************************************************)
(* Proofs about PreemptiveToken, for any number of callers and watchdogs,  *)
(* any deadlines and any length of run.                                    *)
(***************************************************************************)
EXTENDS PreemptiveToken, TLAPS

\* What a watchdog may leave for.
Excused(d) == d \in met \cup misled

\* While the flag is up every watchdog has met it; a notification that is still
\* to come reaches those that have met its flag or were armed before it; and a
\* watchdog that was not told of a timeout has been woken by one, or for no
\* reason.
NoticeInv ==
  /\ cancelled => Born \subseteq met
  /\ (\E t \in Threads : pc[t] = "notify") => \A d \in Born : Excused(d)
  /\ \A d \in Dogs :
        \/ pc[d] = "left"
        \/ pc[d] \in {"woken", "decide"} /\ ~timedOut[d]
        => Excused(d)

\* The deadline lies no later than the end of the wait, at every point of it.
TimeInv ==
  \A d \in Dogs :
    /\ pc[d] = "locking" => now + timer[d] >= deadline[d]
    /\ pc[d] = "sleeping" => timer[d] >= deadline[d]
    /\ pc[d] \in {"woken", "decide"} /\ timedOut[d] => now >= deadline[d]
    /\ pc[d] \in Storing \cup {"fired"} => now >= deadline[d]

\* A reason is there from before the flag goes up until somebody resets it.
Explained == reason = "given" \/ anonymous \/ wasReset

ReasonInv ==
  /\ cancelled => Explained
  /\ \A t \in Threads : pc[t] \in {"setFlag", "readReason"} => Explained
  /\ \A t \in Threads : pc[t] \in {"resetReason", "resetFlag"} => wasReset
  /\ unexplained => anonymous \/ wasReset

\* The parts of TypeOK.
PlacesOK ==
  /\ \A c \in Callers :
        pc[c] \in Storing \cup {"idle", "guarding", "readReason", "resetReason", "resetFlag"}
  /\ \A d \in Dogs :
        pc[d] \in Storing \cup {"unborn", "spawned", "locking", "sleeping", "woken", "decide",
                               "fired", "left"}
  /\ holder \in {Free} \cup {d \in Dogs : pc[d] = "decide"}

TimesOK ==
  /\ now \in Nat
  /\ deadline \in [Dogs -> 0 .. MaxTime]
  /\ timer \in [Dogs -> Nat]
  /\ timedOut \in [Dogs -> BOOLEAN]

GuardsOK == guard \in [Callers -> [state : {"none", "budget", "held"}, time : Nat]]

RestOK ==
  /\ cancelled \in BOOLEAN /\ deadlineSet \in BOOLEAN
  /\ reason \in {"none", "given"}
  /\ spurious \in 0 .. MaxSpurious
  /\ arg \in [Threads -> {"none", "given"}]
  /\ ops \in 0 .. MaxOps
  /\ unexplained \in BOOLEAN /\ anonymous \in BOOLEAN /\ wasReset \in BOOLEAN

FatesOK == met \subseteq Born /\ misled \subseteq Born

TokenInv ==
  /\ DOMAIN pc = Threads
  /\ PlacesOK /\ TimesOK /\ GuardsOK /\ RestOK /\ FatesOK
  /\ NoticeInv /\ TimeInv /\ ReasonInv

LEMMA Types == TokenInv => TypeOK
BY DEF TokenInv, TypeOK, PlacesOK, TimesOK, GuardsOK, RestOK, FatesOK

LEMMA TokenInit == Init => TokenInv
<1> SUFFICES ASSUME Init PROVE TokenInv
  OBVIOUS
<1> USE PreemptiveAssumption
<1>1. \A c \in Callers : pc[c] = "idle"
  BY DEF Init, Threads
<1>2. \A d \in Dogs : pc[d] = "unborn"
  BY DEF Init, Threads
<1>3. DOMAIN pc = Threads /\ PlacesOK /\ TimesOK /\ RestOK
  <2>1. DOMAIN pc = Threads /\ PlacesOK
    BY <1>1, <1>2 DEF Init, PlacesOK, Storing
  <2>2. TimesOK
    BY DEF Init, TimesOK
  <2>3. arg \in [Threads -> {"none", "given"}]
    BY DEF Init
  <2>4. spurious \in 0 .. MaxSpurious /\ ops \in 0 .. MaxOps
    BY DEF Init
  <2> QED BY <2>1, <2>2, <2>3, <2>4 DEF Init, RestOK
<1>7. GuardsOK
  BY DEF Init, GuardsOK, NoGuard
<1>4. FatesOK /\ NoticeInv
  BY <1>1, <1>2 DEF Init, FatesOK, NoticeInv, Born, Threads
<1>5. TimeInv
  BY <1>2 DEF TimeInv, Storing
<1>6. ReasonInv
  BY <1>1, <1>2 DEF Init, ReasonInv, Threads
<1> QED BY <1>3, <1>4, <1>5, <1>6, <1>7 DEF TokenInv

\* cancel_with_reason, whichever thread is in it.
LEMMA StoreStep ==
  ASSUME TokenInv, NEW t \in Threads, Store(t)
  PROVE  TokenInv'
<1> USE PreemptiveAssumption DEF Goto, Begin, token, dogVars, reports, fates, history
<1>0. t \in Threads /\ (t \in Dogs \/ t \in Callers) /\ ~(t \in Dogs /\ t \in Callers)
  BY DEF Threads
<1>1. CASE SetReason(t)
  <2>1. DOMAIN pc' = Threads /\ PlacesOK'
    BY <1>0, <1>1 DEF SetReason, TokenInv, PlacesOK, Storing, Threads
  <2>2. TimesOK' /\ GuardsOK'
    BY <1>0, <1>1 DEF SetReason, TokenInv, TimesOK, GuardsOK
  <2>3. RestOK'
    BY <1>0, <1>1 DEF SetReason, TokenInv, RestOK
  <2>4. FatesOK' /\ NoticeInv'
    BY <1>0, <1>1 DEF SetReason, TokenInv, NoticeInv, Excused, Born, FatesOK, RestOK, Threads
  <2>5. TimeInv'
    BY <1>0, <1>1 DEF SetReason, TokenInv, TimeInv, TimesOK, Storing, Threads
  <2>6. ReasonInv'
    BY <1>0, <1>1 DEF SetReason, TokenInv, ReasonInv, Explained, RestOK, Threads
  <2> QED BY <2>1, <2>2, <2>3, <2>4, <2>5, <2>6 DEF TokenInv
<1>2. CASE SetFlag(t)
  <2>1. DOMAIN pc' = Threads /\ PlacesOK'
    BY <1>0, <1>2 DEF SetFlag, TokenInv, PlacesOK, Storing, Threads
  <2>2. TimesOK' /\ GuardsOK'
    BY <1>0, <1>2 DEF SetFlag, TokenInv, TimesOK, GuardsOK
  <2>3. RestOK'
    BY <1>0, <1>2 DEF SetFlag, TokenInv, RestOK
  <2>4. FatesOK' /\ NoticeInv'
    BY <1>0, <1>2 DEF SetFlag, TokenInv, NoticeInv, Excused, Born, FatesOK, RestOK, Threads
  <2>5. TimeInv'
    BY <1>0, <1>2 DEF SetFlag, TokenInv, TimeInv, TimesOK, Storing, Threads
  <2>6. ReasonInv'
    BY <1>0, <1>2 DEF SetFlag, TokenInv, ReasonInv, Explained, RestOK, Threads
  <2> QED BY <2>1, <2>2, <2>3, <2>4, <2>5, <2>6 DEF TokenInv
<1>3. CASE Notify(t)
  <2>1. DOMAIN pc' = Threads /\ PlacesOK'
    BY <1>0, <1>3 DEF Notify, TokenInv, PlacesOK, Storing, Threads
  <2>2. TimesOK' /\ GuardsOK'
    BY <1>0, <1>3 DEF Notify, TokenInv, TimesOK, GuardsOK
  <2>3. RestOK'
    BY <1>0, <1>3 DEF Notify, TokenInv, RestOK
  <2>4. FatesOK' /\ NoticeInv'
    BY <1>0, <1>3 DEF Notify, TokenInv, NoticeInv, Excused, Born, FatesOK, RestOK, Threads
  <2>5. TimeInv'
    BY <1>0, <1>3 DEF Notify, TokenInv, TimeInv, TimesOK, Storing, Threads
  <2>6. ReasonInv'
    BY <1>0, <1>3 DEF Notify, TokenInv, ReasonInv, Explained, RestOK, Threads
  <2> QED BY <2>1, <2>2, <2>3, <2>4, <2>5, <2>6 DEF TokenInv
<1> QED BY <1>1, <1>2, <1>3 DEF Store

\* The wait of a watchdog.
LEMMA DogStep ==
  ASSUME TokenInv, NEW d \in Dogs, WatchdogStep(d) \/ WakeSpuriously(d), ~Store(d)
  PROVE  TokenInv'
<1> USE PreemptiveAssumption DEF Goto, Begin, token, dogVars, reports, fates, history
<1>0. d \in Threads /\ (d \in Dogs \/ d \in Callers) /\ ~(d \in Dogs /\ d \in Callers)
  BY DEF Threads
<1>1. CASE Look(d)
  <2>1. DOMAIN pc' = Threads /\ PlacesOK'
    BY <1>0, <1>1 DEF Look, TokenInv, PlacesOK, Storing, Threads
  <2>2. TimesOK' /\ GuardsOK'
    BY <1>0, <1>1 DEF Look, TokenInv, TimesOK, GuardsOK
  <2>3. RestOK'
    BY <1>0, <1>1 DEF Look, TokenInv, RestOK
  <2>4. FatesOK' /\ NoticeInv'
    BY <1>0, <1>1 DEF Look, TokenInv, NoticeInv, Excused, Born, FatesOK, RestOK, Threads
  <2>5. TimeInv'
    BY <1>0, <1>1 DEF Look, TokenInv, TimeInv, TimesOK, Storing, Threads
  <2>6. ReasonInv'
    BY <1>0, <1>1 DEF Look, TokenInv, ReasonInv, Explained, RestOK, Threads
  <2> QED BY <2>1, <2>2, <2>3, <2>4, <2>5, <2>6 DEF TokenInv
<1>2. CASE Sleep(d)
  <2>1. DOMAIN pc' = Threads /\ PlacesOK'
    BY <1>0, <1>2 DEF Sleep, TokenInv, PlacesOK, Storing, Threads
  <2>2. TimesOK' /\ GuardsOK'
    BY <1>0, <1>2 DEF Sleep, TokenInv, TimesOK, GuardsOK
  <2>3. RestOK'
    BY <1>0, <1>2 DEF Sleep, TokenInv, RestOK
  <2>4. FatesOK' /\ NoticeInv'
    BY <1>0, <1>2 DEF Sleep, TokenInv, NoticeInv, Excused, Born, FatesOK, RestOK, Threads
  <2>5. TimeInv'
    BY <1>0, <1>2 DEF Sleep, TokenInv, TimeInv, TimesOK, Storing, Threads
  <2>6. ReasonInv'
    BY <1>0, <1>2 DEF Sleep, TokenInv, ReasonInv, Explained, RestOK, Threads
  <2> QED BY <2>1, <2>2, <2>3, <2>4, <2>5, <2>6 DEF TokenInv
<1>3. CASE TimeOut(d)
  <2>1. DOMAIN pc' = Threads /\ PlacesOK'
    BY <1>0, <1>3 DEF TimeOut, TokenInv, PlacesOK, Storing, Threads
  <2>2. TimesOK' /\ GuardsOK'
    BY <1>0, <1>3 DEF TimeOut, TokenInv, TimesOK, GuardsOK
  <2>3. RestOK'
    BY <1>0, <1>3 DEF TimeOut, TokenInv, RestOK
  <2>4. FatesOK' /\ NoticeInv'
    BY <1>0, <1>3 DEF TimeOut, TokenInv, NoticeInv, Excused, Born, FatesOK, TimesOK, Threads
  <2>5. TimeInv'
    BY <1>0, <1>3 DEF TimeOut, TokenInv, TimeInv, TimesOK, Storing, Threads
  <2>6. ReasonInv'
    BY <1>0, <1>3 DEF TimeOut, TokenInv, ReasonInv, Explained, RestOK, Threads
  <2> QED BY <2>1, <2>2, <2>3, <2>4, <2>5, <2>6 DEF TokenInv
<1>4. CASE WakeSpuriously(d)
  <2>1. DOMAIN pc' = Threads /\ PlacesOK'
    BY <1>0, <1>4 DEF WakeSpuriously, TokenInv, PlacesOK, Storing, Threads
  <2>2. TimesOK' /\ GuardsOK'
    BY <1>0, <1>4 DEF WakeSpuriously, TokenInv, TimesOK, GuardsOK
  <2>3. RestOK'
    BY <1>0, <1>4 DEF WakeSpuriously, TokenInv, RestOK
  <2>4. FatesOK' /\ NoticeInv'
    BY <1>0, <1>4 DEF WakeSpuriously, TokenInv, NoticeInv, Excused, Born, FatesOK, RestOK, Threads
  <2>5. TimeInv'
    BY <1>0, <1>4 DEF WakeSpuriously, TokenInv, TimeInv, TimesOK, Storing, Threads
  <2>6. ReasonInv'
    BY <1>0, <1>4 DEF WakeSpuriously, TokenInv, ReasonInv, Explained, RestOK, Threads
  <2> QED BY <2>1, <2>2, <2>3, <2>4, <2>5, <2>6 DEF TokenInv
<1>5. CASE Reacquire(d)
  <2>1. DOMAIN pc' = Threads /\ PlacesOK'
    BY <1>0, <1>5 DEF Reacquire, TokenInv, PlacesOK, Storing, Threads
  <2>2. TimesOK' /\ GuardsOK'
    BY <1>0, <1>5 DEF Reacquire, TokenInv, TimesOK, GuardsOK
  <2>3. RestOK'
    BY <1>0, <1>5 DEF Reacquire, TokenInv, RestOK
  <2>4. FatesOK' /\ NoticeInv'
    BY <1>0, <1>5 DEF Reacquire, TokenInv, NoticeInv, Excused, Born, FatesOK, RestOK, Threads
  <2>5. TimeInv'
    BY <1>0, <1>5 DEF Reacquire, TokenInv, TimeInv, TimesOK, Storing, Threads
  <2>6. ReasonInv'
    BY <1>0, <1>5 DEF Reacquire, TokenInv, ReasonInv, Explained, RestOK, Threads
  <2> QED BY <2>1, <2>2, <2>3, <2>4, <2>5, <2>6 DEF TokenInv
<1>6. CASE Decide(d)
  <2>1. DOMAIN pc' = Threads /\ PlacesOK'
    BY <1>0, <1>6 DEF Decide, TokenInv, PlacesOK, Storing, Threads
  <2>2. TimesOK' /\ GuardsOK'
    BY <1>0, <1>6 DEF Decide, TokenInv, TimesOK, GuardsOK
  <2>3. RestOK'
    BY <1>0, <1>6 DEF Decide, TokenInv, RestOK
  <2>4. FatesOK' /\ NoticeInv'
    BY <1>0, <1>6 DEF Decide, TokenInv, NoticeInv, Excused, Born, FatesOK, RestOK, Threads
  <2>5. TimeInv'
    BY <1>0, <1>6 DEF Decide, TokenInv, TimeInv, TimesOK, Storing, Threads
  <2>6. ReasonInv'
    BY <1>0, <1>6 DEF Decide, TokenInv, ReasonInv, Explained, RestOK, Threads
  <2> QED BY <2>1, <2>2, <2>3, <2>4, <2>5, <2>6 DEF TokenInv
<1> QED BY <1>1, <1>2, <1>3, <1>4, <1>5, <1>6 DEF WatchdogStep

\* What a caller does by itself.
LEMMA CallerStepInv ==
  ASSUME TokenInv, NEW c \in Callers, CallerStep(c), ~Store(c)
  PROVE  TokenInv'
<1> USE PreemptiveAssumption DEF Goto, Begin, token, dogVars, reports, fates, history
<1>0. c \in Threads /\ (c \in Dogs \/ c \in Callers) /\ ~(c \in Dogs /\ c \in Callers)
  BY DEF Threads
<1>1. CASE StartGuard(c)
  <2>1. DOMAIN pc' = Threads /\ PlacesOK'
    BY <1>0, <1>1 DEF StartGuard, TokenInv, PlacesOK, Storing, Threads
  <2>2. TimesOK' /\ GuardsOK'
    BY <1>0, <1>1 DEF StartGuard, TokenInv, TimesOK, GuardsOK
  <2>3. RestOK'
    BY <1>0, <1>1 DEF StartGuard, TokenInv, RestOK
  <2>4. FatesOK' /\ NoticeInv'
    BY <1>0, <1>1 DEF StartGuard, TokenInv, NoticeInv, Excused, Born, FatesOK, RestOK, Threads
  <2>5. TimeInv'
    BY <1>0, <1>1 DEF StartGuard, TokenInv, TimeInv, TimesOK, Storing, Threads
  <2>6. ReasonInv'
    BY <1>0, <1>1 DEF StartGuard, TokenInv, ReasonInv, Explained, RestOK, Threads
  <2> QED BY <2>1, <2>2, <2>3, <2>4, <2>5, <2>6 DEF TokenInv
<1>2. CASE CheckReason(c)
  <2>1. DOMAIN pc' = Threads /\ PlacesOK'
    BY <1>0, <1>2 DEF CheckReason, TokenInv, PlacesOK, Storing, Threads
  <2>2. TimesOK' /\ GuardsOK'
    BY <1>0, <1>2 DEF CheckReason, TokenInv, TimesOK, GuardsOK
  <2>3. RestOK'
    BY <1>0, <1>2 DEF CheckReason, TokenInv, RestOK
  <2>4. FatesOK' /\ NoticeInv'
    BY <1>0, <1>2 DEF CheckReason, TokenInv, NoticeInv, Excused, Born, FatesOK, RestOK, Threads
  <2>5. TimeInv'
    BY <1>0, <1>2 DEF CheckReason, TokenInv, TimeInv, TimesOK, Storing, Threads
  <2>6. ReasonInv'
    BY <1>0, <1>2 DEF CheckReason, TokenInv, ReasonInv, Explained, RestOK, Threads
  <2> QED BY <2>1, <2>2, <2>3, <2>4, <2>5, <2>6 DEF TokenInv
<1>3. CASE ResetReason(c)
  <2>1. DOMAIN pc' = Threads /\ PlacesOK'
    BY <1>0, <1>3 DEF ResetReason, TokenInv, PlacesOK, Storing, Threads
  <2>2. TimesOK' /\ GuardsOK'
    BY <1>0, <1>3 DEF ResetReason, TokenInv, TimesOK, GuardsOK
  <2>3. RestOK'
    BY <1>0, <1>3 DEF ResetReason, TokenInv, RestOK
  <2>4. FatesOK' /\ NoticeInv'
    BY <1>0, <1>3 DEF ResetReason, TokenInv, NoticeInv, Excused, Born, FatesOK, RestOK, Threads
  <2>5. TimeInv'
    BY <1>0, <1>3 DEF ResetReason, TokenInv, TimeInv, TimesOK, Storing, Threads
  <2>6. ReasonInv'
    BY <1>0, <1>3 DEF ResetReason, TokenInv, ReasonInv, Explained, Threads
  <2> QED BY <2>1, <2>2, <2>3, <2>4, <2>5, <2>6 DEF TokenInv
<1>4. CASE ResetFlag(c)
  <2>1. DOMAIN pc' = Threads /\ PlacesOK'
    BY <1>0, <1>4 DEF ResetFlag, TokenInv, PlacesOK, Storing, Threads
  <2>2. TimesOK' /\ GuardsOK'
    BY <1>0, <1>4 DEF ResetFlag, TokenInv, TimesOK, GuardsOK
  <2>3. RestOK'
    BY <1>0, <1>4 DEF ResetFlag, TokenInv, RestOK
  <2>4. FatesOK' /\ NoticeInv'
    BY <1>0, <1>4 DEF ResetFlag, TokenInv, NoticeInv, Excused, Born, FatesOK, RestOK, Threads
  <2>5. TimeInv'
    BY <1>0, <1>4 DEF ResetFlag, TokenInv, TimeInv, TimesOK, Storing, Threads
  <2>6. ReasonInv'
    BY <1>0, <1>4 DEF ResetFlag, TokenInv, ReasonInv, Explained, RestOK, Threads
  <2> QED BY <2>1, <2>2, <2>3, <2>4, <2>5, <2>6 DEF TokenInv
<1> QED BY <1>1, <1>2, <1>3, <1>4 DEF CallerStep

\* The operations a caller begins.
LEMMA CallInv ==
  ASSUME TokenInv, NEW c \in Callers, CallerCall(c)
  PROVE  TokenInv'
<1> USE PreemptiveAssumption DEF Goto, Begin, token, dogVars, reports, fates, history
<1>0. c \in Threads /\ (c \in Dogs \/ c \in Callers) /\ ~(c \in Dogs /\ c \in Callers)
  BY DEF Threads
<1>1. CASE \E r \in {"none", "given"} : Cancel(c, r)
  <2>1. DOMAIN pc' = Threads /\ PlacesOK'
    BY <1>0, <1>1 DEF Cancel, TokenInv, PlacesOK, Storing, Threads
  <2>2. TimesOK' /\ GuardsOK'
    BY <1>0, <1>1 DEF Cancel, TokenInv, TimesOK, GuardsOK
  <2>3. RestOK'
    BY <1>0, <1>1 DEF Cancel, TokenInv, RestOK
  <2>4. FatesOK' /\ NoticeInv'
    BY <1>0, <1>1 DEF Cancel, TokenInv, NoticeInv, Excused, Born, FatesOK, RestOK, Threads
  <2>5. TimeInv'
    BY <1>0, <1>1 DEF Cancel, TokenInv, TimeInv, TimesOK, Storing, Threads
  <2>6. ReasonInv'
    BY <1>0, <1>1 DEF Cancel, TokenInv, ReasonInv, Explained, RestOK, Threads
  <2> QED BY <2>1, <2>2, <2>3, <2>4, <2>5, <2>6 DEF TokenInv
<1>2. CASE \E d \in Dogs, budget \in Budgets : ArmGuard(c, d, budget)
  <2> PICK d \in Dogs, budget \in Budgets : ArmGuard(c, d, budget)
    BY <1>2
  <2>1. d \in Threads /\ d # c /\ pc[d] = "unborn"
    BY <1>0 DEF ArmGuard, Spawn, NoGuard, Threads
  <2>2. DOMAIN pc' = Threads /\ PlacesOK'
    BY <1>0, <2>1 DEF ArmGuard, Spawn, NoGuard, TokenInv, PlacesOK, Storing, Threads
  <2>3. TimesOK' /\ GuardsOK'
    BY <1>0 DEF ArmGuard, Spawn, NoGuard, TokenInv, TimesOK, GuardsOK
  <2>4. RestOK'
    <3>1. ops' \in 0 .. MaxOps
      BY DEF ArmGuard, Spawn, NoGuard, TokenInv, RestOK
    <3>2. arg' \in [Threads -> {"none", "given"}] /\ deadlineSet' = TRUE
      BY <2>1 DEF ArmGuard, Spawn, NoGuard, TokenInv, RestOK
    <3> QED BY <3>1, <3>2 DEF ArmGuard, TokenInv, RestOK
  <2>5. FatesOK' /\ NoticeInv'
    BY <1>0, <2>1 DEF ArmGuard, Spawn, NoGuard, TokenInv, NoticeInv, Excused, Born, FatesOK, Threads
  <2>6. TimeInv'
    BY <1>0, <2>1 DEF ArmGuard, Spawn, NoGuard, TokenInv, TimeInv, TimesOK, Storing, Threads
  <2>7. ReasonInv'
    BY <1>0, <2>1 DEF ArmGuard, Spawn, NoGuard, TokenInv, ReasonInv, Explained, Threads
  <2> QED BY <2>2, <2>3, <2>4, <2>5, <2>6, <2>7 DEF TokenInv
<1>3. CASE \E d \in Dogs, budget \in Budgets, r \in {"none", "given"} : Arm(c, d, budget, r)
  <2> PICK d \in Dogs, budget \in Budgets, r \in {"none", "given"} : Arm(c, d, budget, r)
    BY <1>3
  <2>1. d \in Threads /\ d # c /\ pc[d] = "unborn"
    BY <1>0 DEF Arm, Spawn, Threads
  <2>2. DOMAIN pc' = Threads /\ PlacesOK'
    BY <1>0, <2>1 DEF Arm, Spawn, TokenInv, PlacesOK, Storing, Threads
  <2>3. TimesOK' /\ GuardsOK'
    BY <1>0 DEF Arm, Spawn, TokenInv, TimesOK, GuardsOK
  <2>4. RestOK'
    <3>1. ops' \in 0 .. MaxOps
      BY DEF Arm, Spawn, TokenInv, RestOK
    <3>2. arg' \in [Threads -> {"none", "given"}] /\ deadlineSet' = TRUE
      BY <2>1 DEF Arm, Spawn, TokenInv, RestOK
    <3> QED BY <3>1, <3>2 DEF Arm, TokenInv, RestOK
  <2>5. FatesOK' /\ NoticeInv'
    BY <1>0, <2>1 DEF Arm, Spawn, TokenInv, NoticeInv, Excused, Born, FatesOK, Threads
  <2>6. TimeInv'
    BY <1>0, <2>1 DEF Arm, Spawn, TokenInv, TimeInv, TimesOK, Storing, Threads
  <2>7. ReasonInv'
    BY <1>0, <2>1 DEF Arm, Spawn, TokenInv, ReasonInv, Explained, Threads
  <2> QED BY <2>2, <2>3, <2>4, <2>5, <2>6, <2>7 DEF TokenInv
<1>4. CASE DropGuard(c)
  <2>1. DOMAIN pc' = Threads /\ PlacesOK'
    BY <1>0, <1>4 DEF DropGuard, NoGuard, TokenInv, PlacesOK, Storing, Threads
  <2>2. TimesOK' /\ GuardsOK'
    BY <1>0, <1>4 DEF DropGuard, NoGuard, TokenInv, TimesOK, GuardsOK
  <2>3. RestOK'
    BY <1>0, <1>4 DEF DropGuard, NoGuard, TokenInv, RestOK
  <2>4. FatesOK' /\ NoticeInv'
    BY <1>0, <1>4 DEF DropGuard, NoGuard, TokenInv, NoticeInv, Excused, Born, FatesOK, RestOK, Threads
  <2>5. TimeInv'
    BY <1>0, <1>4 DEF DropGuard, NoGuard, TokenInv, TimeInv, TimesOK, Storing, Threads
  <2>6. ReasonInv'
    BY <1>0, <1>4 DEF DropGuard, NoGuard, TokenInv, ReasonInv, Explained, RestOK, Threads
  <2> QED BY <2>1, <2>2, <2>3, <2>4, <2>5, <2>6 DEF TokenInv
<1>5. CASE CheckFlag(c)
  <2>1. DOMAIN pc' = Threads /\ PlacesOK'
    BY <1>0, <1>5 DEF CheckFlag, TokenInv, PlacesOK, Storing, Threads
  <2>2. TimesOK' /\ GuardsOK'
    BY <1>0, <1>5 DEF CheckFlag, TokenInv, TimesOK, GuardsOK
  <2>3. RestOK'
    BY <1>0, <1>5 DEF CheckFlag, TokenInv, RestOK
  <2>4. FatesOK' /\ NoticeInv'
    BY <1>0, <1>5 DEF CheckFlag, TokenInv, NoticeInv, Excused, Born, FatesOK, RestOK, Threads
  <2>5. TimeInv'
    BY <1>0, <1>5 DEF CheckFlag, TokenInv, TimeInv, TimesOK, Storing, Threads
  <2>6. ReasonInv'
    BY <1>0, <1>5 DEF CheckFlag, TokenInv, ReasonInv, Explained, RestOK, Threads
  <2> QED BY <2>1, <2>2, <2>3, <2>4, <2>5, <2>6 DEF TokenInv
<1>6. CASE ResetDeadline(c)
  <2>1. DOMAIN pc' = Threads /\ PlacesOK'
    BY <1>0, <1>6 DEF ResetDeadline, TokenInv, PlacesOK, Storing, Threads
  <2>2. TimesOK' /\ GuardsOK'
    BY <1>0, <1>6 DEF ResetDeadline, TokenInv, TimesOK, GuardsOK
  <2>3. RestOK'
    <3>1. ops' \in 0 .. MaxOps
      BY <1>6 DEF ResetDeadline, TokenInv, RestOK
    <3> QED BY <1>6, <3>1 DEF ResetDeadline, TokenInv, RestOK
  <2>4. FatesOK' /\ NoticeInv'
    BY <1>0, <1>6 DEF ResetDeadline, TokenInv, NoticeInv, Excused, Born, FatesOK, RestOK, Threads
  <2>5. TimeInv'
    BY <1>0, <1>6 DEF ResetDeadline, TokenInv, TimeInv, TimesOK, Storing, Threads
  <2>6. ReasonInv'
    BY <1>0, <1>6 DEF ResetDeadline, TokenInv, ReasonInv, Explained, RestOK, Threads
  <2> QED BY <2>1, <2>2, <2>3, <2>4, <2>5, <2>6 DEF TokenInv
<1> QED BY <1>1, <1>2, <1>3, <1>4, <1>5, <1>6 DEF CallerCall

LEMMA ClockStep ==
  ASSUME TokenInv, AdvanceClock
  PROVE  TokenInv'
<1> USE DEF AdvanceClock, TokenInv, token, dogVars, reports, fates, history
<1>1. DOMAIN pc' = Threads /\ PlacesOK'
  BY DEF PlacesOK
<1>2. TimesOK' /\ GuardsOK' /\ RestOK'
  BY DEF TimesOK, GuardsOK, RestOK
<1>3. FatesOK' /\ NoticeInv' /\ ReasonInv'
  BY DEF FatesOK, NoticeInv, Excused, Born, ReasonInv, Explained
<1>4. TimeInv'
  BY PreemptiveAssumption DEF TimeInv, TimesOK
<1> QED BY <1>1, <1>2, <1>3, <1>4

LEMMA TokenStutter ==
  ASSUME TokenInv, UNCHANGED vars
  PROVE  TokenInv'
BY DEF vars, token, dogVars, reports, fates, history, TokenInv, PlacesOK, TimesOK, GuardsOK, RestOK,
       FatesOK, NoticeInv, Excused, Born, TimeInv, ReasonInv, Explained

LEMMA TokenStep == TokenInv /\ [Next]_vars => TokenInv'
<1> SUFFICES ASSUME TokenInv, [Next]_vars PROVE TokenInv'
  OBVIOUS
<1>1. CASE AdvanceClock
  BY <1>1, ClockStep
<1>2. CASE \E t \in Threads : Store(t)
  BY <1>2, StoreStep
<1>3. CASE \E c \in Callers : CallerStep(c) /\ ~Store(c)
  BY <1>3, CallerStepInv
<1>4. CASE \E c \in Callers : CallerCall(c)
  BY <1>4, CallInv
<1>5. CASE \E d \in Dogs : (WatchdogStep(d) \/ WakeSpuriously(d)) /\ ~Store(d)
  BY <1>5, DogStep
<1>6. CASE UNCHANGED vars
  BY <1>6, TokenStutter
<1> QED BY <1>1, <1>2, <1>3, <1>4, <1>5, <1>6 DEF Next, Threads

THEOREM TokenInvariant == Spec => []TokenInv
BY TokenInit, TokenStep, PTL DEF Spec

\* The types, among them that only the watchdog that holds the wakeup mutex
\* decides.
THEOREM TokenTypes == Spec => []TypeOK
BY TokenInvariant, Types, PTL

\* No watchdog cancels before its deadline, for any number of watchdogs on the
\* token and whatever wakes them.
THEOREM Patience == Spec => []NeverEarly
<1>1. TokenInv => NeverEarly
  BY DEF TokenInv, TimeInv, NeverEarly
<1> QED BY <1>1, TokenInvariant, PTL

\* A failed check reports a reason, unless somebody cancelled without one or
\* reset the token.
THEOREM ReasonsKept == Spec => []ReasonReported
<1>1. TokenInv => ReasonReported
  BY DEF TokenInv, ReasonInv, ReasonReported
<1> QED BY <1>1, TokenInvariant, PTL

\* A watchdog leaves without cancelling only if the token has been cancelled
\* since it was armed, however often it was reset, or if it was woken for no
\* reason or by the late notification of a cancel that a reset has undone.
THEOREM DeadlinesKept == Spec => []NoDeadlineForgotten
<1>1. TokenInv => NoDeadlineForgotten
  BY DEF TokenInv, NoticeInv, Excused, Born, NoDeadlineForgotten
<1> QED BY <1>1, TokenInvariant, PTL

=============================================================================
