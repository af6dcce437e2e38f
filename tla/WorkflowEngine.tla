--------------------------- MODULE WorkflowEngine ---------------------------
(***************************************************************************)
(* The pure part of the V6 execution layer: what the workflow engine lets  *)
(* run, how the orchestrator turns an agent's result into a step status,   *)
(* and how the runtime classifies a result that did not complete a step.   *)
(*                                                                         *)
(* A workflow is a record [status, steps]; steps maps EVERY step to a      *)
(* status and only the entries of StepsOf(w) mean anything for workflow w  *)
(* (a step id is a primary key of the database, so it has one workflow).   *)
(***************************************************************************)
EXTENDS Naturals, FiniteSets

CONSTANTS
  Workflows,    \* durable workflows of one ownership scope (one tenant)
  Steps,        \* workflow steps; a queue row and a ledger row per step
  WorkflowOf,   \* [Steps -> Workflows]
  DependsOn,    \* [Steps -> SUBSET Steps]
  MaxAttempts   \* failurePolicy.maxAttempts

(* The runtime's constructor rejects maxAttempts < 1; the compiler rejects *)
(* a dependency on an unknown task and on the task itself (but no cycle).  *)
ASSUME EngineAssumption ==
  /\ WorkflowOf \in [Steps -> Workflows]
  /\ DependsOn \in [Steps -> SUBSET Steps]
  /\ \A s \in Steps : \A d \in DependsOn[s] :
        d # s /\ WorkflowOf[d] = WorkflowOf[s]
  /\ MaxAttempts \in Nat \ {0}

StepStatus == {"PENDING", "READY", "RUNNING", "COMPLETED", "FAILED"}
WorkflowStatus == {"READY", "COMPLETED"}
Workflow == [status : WorkflowStatus, steps : [Steps -> StepStatus]]

(* What an agent reports, by the three fields the runtime reads:           *)
(*   verified      success, executed and verified                          *)
(*   unverified    executed, but no provider confirmation                  *)
(*   failed        not executed, executionStatus "failed"                  *)
(*   blocked       not executed, executionStatus "blocked"                 *)
(*   inconclusive  not executed, any other status (planned, queued, ...)   *)
AgentResult == {"verified", "unverified", "failed", "blocked", "inconclusive"}
Executed(result) == result \in {"verified", "unverified"}

StepsOf(w) == {s \in Steps : WorkflowOf[s] = w}

(* WorkflowCompiler.compile: every step PENDING, the workflow READY. *)
Compiled == [status |-> "READY", steps |-> [s \in Steps |-> "PENDING"]]

(* Mutation: a dependency counts as satisfied unless it FAILED.            *)
DependenciesNotFailed(flow, s) ==
  \A d \in DependsOn[s] : flow.steps[d] # "FAILED"

DependenciesSatisfied(flow, s) ==
  \A d \in DependsOn[s] : flow.steps[d] = "COMPLETED"

(* WorkflowEngine.evaluate: the runnableStepIds of its decision. A RUNNING *)
(* step is runnable again: that is how an interrupted step is resumed.     *)
RunnableStepIds(w, flow) ==
  {s \in StepsOf(w) : /\ flow.steps[s] \notin {"COMPLETED", "FAILED"}
                      /\ DependenciesSatisfied(flow, s)
                      /\ flow.status = "READY"}

AllStepsCompleted(w, flow) ==
  /\ StepsOf(w) # {}
  /\ \A s \in StepsOf(w) : flow.steps[s] = "COMPLETED"

(* Mutation: whatever did not fail completes its step.                     *)
StatusUnlessFailed(result) ==
  IF result = "failed" THEN "FAILED" ELSE "COMPLETED"

(* WorkflowOrchestrator.runReadySteps: the step status an agent result     *)
(* leaves in the workflow object.                                          *)
StatusAfter(result) ==
  CASE result = "verified" -> "COMPLETED"
    [] result = "blocked"  -> "RUNNING"
    [] OTHER               -> "FAILED"

(* Mutation: one attempt too many before the escalation.                   *)
ClassifyOneTooMany(result, attempts) ==
  CASE result = "unverified"     -> "reconcile"
    [] result = "blocked"        -> "block"
    [] attempts > MaxAttempts    -> "escalate"
    [] OTHER                     -> "retry"

(* classifyFailure, on the fields the runtime passes (it passes no         *)
(* errorCode, so the "permanent" class and its action never arise).        *)
ClassifyFailure(result, attempts) ==
  CASE result = "unverified"     -> "reconcile"
    [] result = "blocked"        -> "block"
    [] attempts >= MaxAttempts   -> "escalate"
    [] OTHER                     -> "retry"

WithStep(flow, s, status) == [flow EXCEPT !.steps[s] = status]
=============================================================================
