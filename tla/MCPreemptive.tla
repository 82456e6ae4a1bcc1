---------------------------- MODULE MCPreemptive ----------------------------
(***************************************************************************)
(* PreemptiveToken with two callers and up to two watchdogs.               *)
(***************************************************************************)
EXTENDS PreemptiveToken, FiniteSets

\* A bound: with two watchdogs no operation but the two that arm them; with one,
\* MaxOps operations, so that a cancel, a reset and an arming may follow each
\* other.  What a thread has begun is never cut off: only beginning is.
FewCalls == Cardinality(Born) > 1 => ops <= 2

BoundedSpec == Init /\ [][Next /\ FewCalls']_vars /\ Fairness

\* preemptive.rs, lines 229-231: after a reset the pending watchdog exits without
\* setting the flag again because deadline_unix_ms is zeroed.
ResetDisarms ==
  [][\A d \in Dogs : ~deadlineSet /\ pc[d] # "setReason" => pc'[d] # "setReason"]_vars

=============================================================================
