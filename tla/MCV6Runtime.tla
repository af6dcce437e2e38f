---------------------------- MODULE MCV6Runtime ----------------------------
(***************************************************************************)
(* Small instances of V6Runtime for TLC: workflow graphs over the steps s1 *)
(* to s3 of w1, and the provider's behaviours.                             *)
(***************************************************************************)
EXTENDS V6Runtime, TLC

CONSTANTS w1, s1, s2, s3

\* s2 depends on s1
ChainSteps == {s1, s2}
ChainOwner == [s \in ChainSteps |-> w1]
ChainDeps == (s1 :> {}) @@ (s2 :> {s1})

\* s3 after s2 after s1
LongChainOwner == [s \in {s1, s2, s3} |-> w1]
LongChainDeps == (s1 :> {}) @@ (s2 :> {s1}) @@ (s3 :> {s2})

\* a single step
OneOwner == s1 :> w1
OneDeps == s1 :> {}

AllOutcomes == AgentResult \cup {"throws"}
NoOutcomeUncertain == {"verified", "failed", "blocked"}
=============================================================================
