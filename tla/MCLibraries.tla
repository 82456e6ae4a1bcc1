----------------------------- MODULE MCLibraries -----------------------------
(***************************************************************************)
(* One run for the two structures that threads share directly: a behaviour *)
(* is one of the component subject, and the other stays as it was created. *)
(* Both are extended, not instantiated: their properties hold of the empty *)
(* buffer and of the empty scheduler that the other subject leaves.        *)
(***************************************************************************)
EXTENDS ConcurrentPipeline, DynamicPriority

VARIABLE subject

allVars == <<subject, pipelineVars, vars>>

\* Little room for more tokens than it holds, where producers wait, and much room
\* for few tokens, where the capacity check is what holds them back.
TightAndWide == {<<2, 2>>, <<4, 1>>}

\* The idle buffer has one size only.
LibrariesInit ==
  /\ subject \in {"pipeline", "priorities"}
  /\ PipelineInit /\ (subject = "pipeline" \/ bufferSize = 4)
  /\ Init

LibrariesNext ==
  \/ subject = "pipeline" /\ PipelineNext /\ UNCHANGED <<subject, vars>>
  \/ subject = "priorities" /\ Next /\ UNCHANGED <<subject, pipelineVars>>

\* The fairness of each component: where it is not the subject, it has nothing
\* to do and none is needed.
LibrariesFairness ==
  /\ \A p \in Producers : WF_pipelineVars(subject = "pipeline" /\ PushStep(p))
  /\ \A c \in Consumers : WF_pipelineVars(subject = "pipeline" /\ TryPop(c))
  /\ WF_vars(subject = "priorities" /\ (Tick \/ EscalateNext \/ EscalateEnd))

LibrariesSpec == LibrariesInit /\ [][LibrariesNext]_allVars /\ LibrariesFairness

=============================================================================
