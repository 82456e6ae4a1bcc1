---------------------------- MODULE RunVariants ----------------------------
(***************************************************************************)
(* The calls that run several instances of taskflows: run, run_n,          *)
(* run_n_sequential, run_until and run_many of the work-queue executor     *)
(* (src/src/executor.rs, src/src/future.rs), and run, run_n_async,         *)
(* run_until_async and run_n_sequential_async of the asynchronous one      *)
(* (src/src/async_executor.rs).  One caller makes one call and waits for   *)
(* every future it is given.                                               *)
(*                                                                         *)
(* Each instance runs as TaskExecution promises; here a task starts, takes *)
(* its closure, and finishes.  Instances that a factory makes have         *)
(* closures of their own; the taskflows passed to run_many may repeat.     *)
(***************************************************************************)
EXTENDS Naturals, SequencesExt, FiniteSetsExt

CONSTANT
  Programs     \* the calls: records of variant, workers, n, flows, objects, steps and goal

VARIABLES
  program,    \* the call that is made
  phase,      \* of the caller: launch, await, check, extra, wait or returned
  instances,  \* the runs that have been launched, in that order
  claimed,    \* <<taskflow, task>>: the closures that have been taken
  executed,   \* those that have returned
  progress    \* the counter the closures add to and the predicate reads

vars == <<program, phase, instances, claimed, executed, progress>>

Asynchronous == {"async_run", "run_n_async", "run_until_async", "run_n_sequential_async"}
Sequential == {"run_n_sequential", "run_until", "run_until_async", "run_n_sequential_async"}
Until == {"run_until", "run_until_async"}
Many  == {"run_many", "run_many_and_wait"}

\* Zero instances are taken for one, except by the last variant.
Total ==
  CASE program.variant \in {"run", "async_run"} -> 1
    [] program.variant \in Many -> Len(program.objects)
    [] program.variant = "run_n_sequential_async" -> program.n
    [] OTHER -> Max({program.n, 1})

\* The flow of an instance: the tasks each task depends on, and those whose
\* closure panics.  The taskflows of run_many may differ.
FlowOf(k) == program.flows[((instances[k].object - 1) % Len(program.flows)) + 1]
Tasks(k) == DOMAIN FlowOf(k).deps

\* The taskflow the next instance runs; a factory makes a new one each time.
NextObject ==
  IF program.variant \in Many THEN program.objects[Len(instances) + 1] ELSE Len(instances) + 1

\* run_n gives each of several instances a thread, with an executor of its own.
Threaded == program.variant = "run_n" /\ program.n > 1

Init ==
  /\ program \in Programs
  /\ phase = IF program.variant \notin Until /\ Total = 0 THEN "wait" ELSE "launch"
  /\ instances = <<>> /\ claimed = {} /\ executed = {} /\ progress = 0
-----------------------------------------------------------------------------
(* The caller.                                                             *)

Launched ==
  instances' = Append(instances, [object |-> NextObject, running |-> {}, done |-> {}, aborted |-> {},
                                  status |-> IF Threaded THEN "spawned" ELSE "running"])

\* A sequential variant waits for an instance before it goes on; of the last one
\* run_n_sequential returns the future.
Launch ==
  /\ phase = "launch"
  /\ Launched
  /\ phase' = IF program.variant \in Until THEN "await"
              ELSE IF Len(instances) + 1 = Total THEN "wait"
              ELSE IF program.variant \in Sequential THEN "await"
              ELSE "launch"
  /\ UNCHANGED <<program, claimed, executed, progress>>

\* Mutant: the future of the instance is dropped, not waited for.
AwaitNothing ==
  /\ phase = "await"
  /\ phase' = IF program.variant \in Until THEN "check" ELSE "launch"
  /\ UNCHANGED <<program, instances, claimed, executed, progress>>

Await ==
  /\ phase = "await" /\ Last(instances).status = "over"
  /\ phase' = IF program.variant \in Until THEN "check" ELSE "launch"
  /\ UNCHANGED <<program, instances, claimed, executed, progress>>

\* The predicate; run_until runs one more instance once it holds.
Check ==
  /\ phase = "check"
  /\ phase' = IF progress < program.goal THEN "launch"
              ELSE IF program.variant = "run_until" THEN "extra" ELSE "wait"
  /\ UNCHANGED <<program, instances, claimed, executed, progress>>

LaunchExtra ==
  /\ phase = "extra"
  /\ Launched
  /\ phase' = "wait"
  /\ UNCHANGED <<program, claimed, executed, progress>>

\* The futures are waited for one after the other, or a JoinSet for all.
Wait ==
  /\ phase = "wait"
  /\ \A k \in DOMAIN instances : instances[k].status = "over"
  /\ phase' = "returned"
  /\ UNCHANGED <<program, instances, claimed, executed, progress>>
-----------------------------------------------------------------------------
(* An instance.                                                            *)

\* A thread of run_n calls the factory and run.
Begin(k) ==
  /\ instances[k].status = "spawned"
  /\ instances' = [instances EXCEPT ![k].status = "running"]
  /\ UNCHANGED <<program, phase, claimed, executed, progress>>

Closure(k, t) == <<instances[k].object, t>>

\* A worker for the task: those that panicked in the work-queue executor are gone.
HasWorker(k) ==
  \/ program.variant \in Asynchronous
  \/ Cardinality(instances[k].running) + Cardinality(instances[k].aborted) < program.workers

Startable(k, t) ==
  /\ instances[k].status = "running" /\ HasWorker(k)
  /\ t \notin instances[k].running \cup instances[k].done \cup instances[k].aborted
  /\ FlowOf(k).deps[t] \subseteq instances[k].done

\* The task takes its closure, or finds it taken by another instance and is done.
Start(k, t) ==
  /\ Startable(k, t)
  /\ claimed' = claimed \cup {Closure(k, t)}
  /\ instances' = IF Closure(k, t) \in claimed
                  THEN [instances EXCEPT ![k].done = @ \cup {t}]
                  ELSE [instances EXCEPT ![k].running = @ \cup {t}]
  /\ UNCHANGED <<program, phase, executed, progress>>

\* What the closures of an instance add to the counter: its first task does.
Step(k) == program.steps[((k - 1) % Len(program.steps)) + 1]

Finish(k, t) ==
  /\ t \in instances[k].running
  /\ IF t \in FlowOf(k).faulty
     THEN /\ instances' = [instances EXCEPT ![k].running = @ \ {t}, ![k].aborted = @ \cup {t}]
          /\ UNCHANGED <<executed, progress>>
     ELSE /\ instances' = [instances EXCEPT ![k].running = @ \ {t}, ![k].done = @ \cup {t}]
          /\ executed' = executed \cup {Closure(k, t)}
          /\ progress' = progress + (IF t = 1 THEN Step(k) ELSE 0)
  /\ UNCHANGED <<program, phase, claimed>>

\* Mutant: a job that panicked keeps the loop of run_async waiting.
OverWhenDone(k) == instances[k].done = Tasks(k)

\* All tasks have been retired; or a JoinSet is empty; or the workers are gone.
Over(k) ==
  \/ instances[k].done = Tasks(k)
  \/ /\ program.variant \in Asynchronous /\ instances[k].running = {}
     /\ ~ \E t \in Tasks(k) : Startable(k, t)
  \/ program.variant \notin Asynchronous /\ Cardinality(instances[k].aborted) = program.workers

End(k) ==
  /\ instances[k].status = "running" /\ Over(k)
  /\ instances' = [instances EXCEPT ![k].status = "over"]
  /\ UNCHANGED <<program, phase, claimed, executed, progress>>

\* is_running of a future, when the run it stands for is over: not its shutdown
\* flag, which the last worker of a run raises; that of run_n is in no thread's hands.
IsRunning(k) == Threaded \/ instances[k].done # Tasks(k)

Next ==
  \/ Launch \/ Await \/ Check \/ LaunchExtra \/ Wait
  \/ \E k \in DOMAIN instances : Begin(k) \/ End(k) \/ \E t \in Tasks(k) : Start(k, t) \/ Finish(k, t)

\* Threads and tasks that can go on do so; no step is ever taken twice, so that
\* fairness for all of them together is enough.
Spec == Init /\ [][Next]_vars /\ WF_vars(Next)
-----------------------------------------------------------------------------
(* Properties.                                                             *)

RECURSIVE StepsUntil(_, _)
StepsUntil(k, sum) == IF sum >= program.goal THEN k ELSE StepsUntil(k + 1, sum + Step(k + 1))

\* The instances a call is asked for, counted from its arguments alone.
Expected == IF program.variant \in Until THEN StepsUntil(1, Step(1)) ELSE Total

\* The instance run_until launches for the future it returns, beyond what it is
\* asked for: StopsWhenMet of MCDocuments is about it.
Surplus == IF program.variant = "run_until" THEN 1 ELSE 0

\* The tasks that no panic reaches.
RECURSIVE Doomed(_, _)
Doomed(k, t) == t \in FlowOf(k).faulty \/ \E d \in FlowOf(k).deps[t] : Doomed(k, d)
Survivors(k) == {t \in Tasks(k) : ~Doomed(k, t)}

\* A call that has returned has run as many instances as it was asked for, and one
\* more for run_until, one after the other in the sequential variants, and every
\* closure that no panic cuts off exactly once, after those it depends on unless two
\* runs share a taskflow, and until the predicate has held where it has one; no
\* future reports an end before the last closure of its run.
VariantsComplete ==
  /\ phase = "returned" =>
       /\ Len(instances) = Expected + Surplus
       /\ \A k \in DOMAIN instances :
            program.workers > Cardinality(FlowOf(k).faulty) =>
              {instances[k].object} \X Survivors(k) \subseteq executed
       /\ program.variant \in Until => progress >= program.goal
  /\ program.variant \in Sequential =>
       Cardinality({k \in DOMAIN instances : instances[k].status # "over"}) <= 1
  /\ \A k \in DOMAIN instances :
       /\ IsInjective([j \in DOMAIN instances |-> instances[j].object]) =>
            \A t \in instances[k].running \cup instances[k].done :
               {instances[k].object} \X FlowOf(k).deps[t] \subseteq executed
       /\ instances[k].status = "over" => instances[k].running = {}
  /\ program.variant \notin Many =>
       progress = FoldFunction(+, 0, [k \in DOMAIN instances |->
                                        IF <<k, 1>> \in executed THEN Step(k) ELSE 0])

\* Every call returns, in spite of a panic where the executor survives one.
CallReturns ==
  (program.variant \in Asynchronous \/ \A i \in DOMAIN program.flows : program.flows[i].faulty = {})
    ~> (phase = "returned")

=============================================================================
