----------------------------- MODULE MCExecutor -----------------------------
(***************************************************************************)
(* Executor on the task graphs of SmallFlows.                              *)
(***************************************************************************)
EXTENDS Executor, SmallFlows

\* ADVANCED_CONDITIONS.md, best practice 2: missing branches fall back to the
\* default behaviour, the release of all the successors, so the run ends with
\* every task executed.
FallbackCompletes ==
  (main = "notify") ~> (main = "returned" /\ DOMAIN graph \subseteq finished)

\* tests/integration_tests.rs, test_subflow: once wait has returned, the parent
\* and every task its subflow created have been executed.
ChildrenExecuted == main = "returned" => DOMAIN graph \subseteq finished

=============================================================================
