------------------------ MODULE AtMostOnceActuation ------------------------
(***************************************************************************)
(* What the actuation governance promises for one idempotency key: the     *)
(* provider is entered only while no earlier call is in doubt, there is at *)
(* most one external effect, and what a dispatch is told of an effect is   *)
(* true and final.                                                         *)
(***************************************************************************)
EXTENDS Naturals

CONSTANT Dispatches

VARIABLES
  doubt,     \* a call was made that the provider has not refused
  effects,   \* external effects so far
  verified,  \* the provider has confirmed an effect
  told       \* [Dispatches -> Outcome \cup {"none"}]: what callers heard

vars == <<doubt, effects, verified, told>>

Outcome == {"VERIFIED", "EXECUTED", "FAILED", "BLOCKED", "UNKNOWN", "ERROR"}

Init ==
  /\ doubt = FALSE
  /\ effects = 0
  /\ verified = FALSE
  /\ told = [d \in Dispatches |-> "none"]

Enter == ~doubt /\ doubt' = TRUE /\ UNCHANGED <<effects, verified, told>>

Effect ==
  /\ doubt
  /\ effects = 0
  /\ effects' = 1
  /\ UNCHANGED <<doubt, verified, told>>

Confirm ==
  /\ effects = 1
  /\ verified' = TRUE
  /\ UNCHANGED <<doubt, effects, told>>

(* Only a call without an effect is refused. *)
Refuse ==
  /\ doubt
  /\ effects = 0
  /\ doubt' = FALSE
  /\ UNCHANGED <<effects, verified, told>>

Truthful(outcome) ==
  /\ outcome \in {"VERIFIED", "EXECUTED"} => effects = 1
  /\ outcome = "VERIFIED" => verified

Tell ==
  /\ told' \in [Dispatches -> Outcome \cup {"none"}]
  /\ \A d \in Dispatches : told'[d] # told[d] =>
                              told[d] = "none" /\ Truthful(told'[d])
  /\ UNCHANGED <<doubt, effects, verified>>

Next == Enter \/ Effect \/ Confirm \/ Refuse \/ Tell

Spec == Init /\ [][Next]_vars
=============================================================================
