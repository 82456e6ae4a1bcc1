-------------------------- MODULE MCDynamicPriority --------------------------
(***************************************************************************)
(* DynamicPriority with a few pushes.                                      *)
(***************************************************************************)
EXTENDS DynamicPriority

\* dynamic_priority.rs, line 338: the policy elevates task priorities.  A step
\* of a pass never lowers one.
NeverDemotes ==
  [][EscalateNext =>
       \A k \in DOMAIN index, l \in DOMAIN index' : k[2] = l[2] => l[1] <= k[1]]_vars

=============================================================================
