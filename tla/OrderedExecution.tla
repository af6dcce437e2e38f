-------------------------- MODULE OrderedExecution --------------------------
(***************************************************************************)
(* What the autonomous runtime promises about its workflows, without the   *)
(* queue, the ledger, the copies and the processes: providers are called   *)
(* in the order of the dependencies, a step is called again only as long   *)
(* as no call has had an effect, and what is stored as completed has been  *)
(* verified. It does not promise that a stored step stays COMPLETED.       *)
(***************************************************************************)
EXTENDS Naturals

CONSTANTS Workflows, Steps, WorkflowOf, DependsOn,
          Once   \* steps promised not to be called again after an effect

VARIABLES
  calls, effects,  \* [Steps -> Nat]: calls of the provider, and their effects
  verified,        \* steps whose effect the provider has confirmed
  stored,          \* steps stored as COMPLETED
  finished         \* workflows stored as COMPLETED

vars == <<calls, effects, verified, stored, finished>>

StepsOf(w) == {s \in Steps : WorkflowOf[s] = w}

Init ==
  /\ calls = [s \in Steps |-> 0]
  /\ effects = [s \in Steps |-> 0]
  /\ verified = {}
  /\ stored = {}
  /\ finished = {}

(* An exception counts as an effect: the provider may have acted.          *)
Call(s, acted, confirmed) ==
  /\ DependsOn[s] \subseteq verified
  /\ s \in Once => effects[s] = 0
  /\ confirmed => acted
  /\ calls' = [calls EXCEPT ![s] = @ + 1]
  /\ effects' = IF acted THEN [effects EXCEPT ![s] = @ + 1] ELSE effects
  /\ verified' = IF confirmed THEN verified \cup {s} ELSE verified
  /\ UNCHANGED <<stored, finished>>

(* A save writes one whole workflow.                                       *)
Save(w, done, all) ==
  /\ done \subseteq StepsOf(w) \cap verified
  /\ all => StepsOf(w) \subseteq verified
  /\ stored' = (stored \ StepsOf(w)) \cup done
  /\ finished' = IF all THEN finished \cup {w} ELSE finished \ {w}
  /\ UNCHANGED <<calls, effects, verified>>

Next ==
  \/ \E s \in Steps, acted, confirmed \in BOOLEAN : Call(s, acted, confirmed)
  \/ \E w \in Workflows, done \in SUBSET Steps, all \in BOOLEAN : Save(w, done, all)

Spec == Init /\ [][Next]_vars

(* What follows for a caller: a step was called only after an effect of    *)
(* every step it depends on, the steps promised once had one effect at     *)
(* most, and what is stored or finished was verified.                      *)
Promise ==
  /\ \A s \in Steps : calls[s] > 0 =>
       \A d \in DependsOn[s] : d \in verified /\ effects[d] > 0
  /\ \A s \in Once : effects[s] <= 1
  /\ stored \subseteq verified
  /\ \A w \in finished : StepsOf(w) \subseteq verified
=============================================================================
