------------------------------ MODULE MCAsync ------------------------------
(***************************************************************************)
(* AsyncExecutor on the task graphs of SmallFlows.                         *)
(***************************************************************************)
EXTENDS AsyncExecutor, SmallFlows

\* ADVANCED_CONDITIONS.md, best practice 2: missing branches fall back to the
\* default behaviour, the release of all the successors, so every task has been
\* executed once the run is over.
FallbackExecutes == driver = "returned" => DOMAIN graph \subseteq finished

=============================================================================
