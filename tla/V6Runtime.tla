----------------------------- MODULE V6Runtime -----------------------------
(***************************************************************************)
(* AutonomousRuntime.runPersistedCycle, run by several runtime processes   *)
(* over the shared database: load the workflow, recover stale claims,      *)
(* schedule its runnable steps, claim one queue row of the scope, execute  *)
(* its step behind the execution ledger, and settle the row and the        *)
(* workflow. Between two actions of a process lies an await: any other     *)
(* process, the clock, or a crash may come in between.                     *)
(***************************************************************************)
EXTENDS QueueStore, ExecutionLedger

CONSTANTS
  Procs,              \* runtime processes serving the same tenant
  Authorized,         \* steps the actuation boundary lets through
  Outcomes,           \* what the provider may answer: results and "throws"
  SlowSteps,          \* steps whose cycle may outlive its claim
  MaxFaults,          \* bound: crashes, exceptions, outlived claims
  NoWorkflow, NoStep  \* model values: no workflow, no step

ASSUME RuntimeAssumption ==
  /\ Authorized \subseteq Steps
  /\ Outcomes \subseteq AgentResult \cup {"throws"}
  /\ SlowSteps \subseteq Steps
  /\ MaxFaults \in Nat
  /\ NoStep \notin Steps
  /\ NoWorkflow \notin Workflows

VARIABLES
  store,     \* the workflow table: [Workflows -> Workflow]
  proc,      \* the state of each process' current cycle
  provider,  \* external: what the provider has seen, per step
  faults     \* how many faults have happened

vars == <<queue, ledger, store, proc, provider, faults>>

(***************************************************************************)
(* A cycle's local state. flow is the process' own copy of the workflow;   *)
(* row is the queue row a pending store call is about; step is the claimed *)
(* step; tries its attempt number; todo the steps still to be scheduled.   *)
(***************************************************************************)
PC == {"idle", "recover", "schedule", "insert", "pick", "claim", "run",
       "begin", "create", "reset", "dispatch", "record", "settle",
       "complete", "save"}
Cycle == [pc : PC, wf : Workflows \cup {NoWorkflow}, flow : Workflow,
          todo : SUBSET Steps, row : Steps \cup {NoStep},
          step : Steps \cup {NoStep}, tries : Nat,
          result : AgentResult \cup {"none"}]
IdleCycle == [pc |-> "idle", wf |-> NoWorkflow, flow |-> Compiled, todo |-> {},
              row |-> NoStep, step |-> NoStep, tries |-> 0, result |-> "none"]

(* From the claim until the row is settled the process holds its step.     *)
HoldingPC == {"run", "begin", "create", "reset", "dispatch", "record",
              "settle", "complete"}
Holds(p, s) == proc[p].step = s /\ proc[p].pc \in HoldingPC
Held(s) == \E p \in Procs : Holds(p, s)

At(p, label) == proc[p].pc = label
Goto(p, label) == proc' = [proc EXCEPT ![p].pc = label]
EndCycle(p) == proc' = [proc EXCEPT ![p] = IdleCycle]

ProviderRow == [calls : Nat, effects : Nat, verified : BOOLEAN]

Init ==
  /\ QueueInit
  /\ LedgerInit
  /\ store = [w \in Workflows |-> Compiled]
  /\ proc = [p \in Procs |-> IdleCycle]
  /\ provider = [s \in Steps |-> [calls |-> 0, effects |-> 0, verified |-> FALSE]]
  /\ faults = 0
-----------------------------------------------------------------------------
(* Scheduling *)

(* Mutation: the cycle starts from the workflow as it was compiled.        *)
StartCycleCompiled(p, w) ==
  /\ At(p, "idle")
  /\ proc' = [proc EXCEPT ![p] =
                [IdleCycle EXCEPT !.pc = "recover", !.wf = w]]
  /\ UNCHANGED <<queue, ledger, store, provider, faults>>

(* runPersistedCycle: workflowStore.get. *)
StartCycle(p, w) ==
  /\ At(p, "idle")
  /\ proc' = [proc EXCEPT ![p] =
                [IdleCycle EXCEPT !.pc = "recover", !.wf = w, !.flow = store[w]]]
  /\ UNCHANGED <<queue, ledger, store, provider, faults>>

(* queue.recoverStaleClaims, over the whole scope; then the engine's       *)
(* decision gives the steps to schedule.                                   *)
RecoverStaleClaims(p) ==
  /\ At(p, "recover")
  /\ RecoverRows
  /\ proc' = [proc EXCEPT ![p].pc = "schedule",
                          ![p].todo = RunnableStepIds(proc[p].wf, proc[p].flow)]
  /\ UNCHANGED <<ledger, store, provider, faults>>

(* scheduleRunnableSteps, queue.get: a live or completed row is skipped, a *)
(* FAILED one is not.                                                      *)
LookUpRow(p, s) ==
  /\ At(p, "schedule")
  /\ s \in proc[p].todo
  /\ proc' = IF queue[s].status \in {"QUEUED", "CLAIMED", "COMPLETED"}
             THEN [proc EXCEPT ![p].todo = @ \ {s}]
             ELSE [proc EXCEPT ![p].pc = "insert", ![p].row = s]
  /\ UNCHANGED <<queue, ledger, store, provider, faults>>

ScheduleStep(p) ==
  /\ At(p, "insert")
  /\ Enqueue(proc[p].row)
  /\ proc' = [proc EXCEPT ![p].pc = "schedule", ![p].row = NoStep,
                          ![p].todo = @ \ {proc[p].row}]
  /\ UNCHANGED <<ledger, store, provider, faults>>

(* The row exists. The catch would swallow an error that says "already     *)
(* exists" (InMemoryQueueStore); the unique violation PrismaQueueStore     *)
(* raises says something else and ends the cycle.                          *)
ScheduleDuplicate(p) ==
  /\ At(p, "insert")
  /\ queue[proc[p].row].status # "ABSENT"
  /\ EndCycle(p)
  /\ UNCHANGED <<queue, ledger, store, provider, faults>>

(* The first pass goes on to claim; the continuation pass, after a step    *)
(* was completed, ends the cycle.                                          *)
ScheduleDone(p) ==
  /\ At(p, "schedule")
  /\ proc[p].todo = {}
  /\ IF proc[p].step = NoStep THEN Goto(p, "pick") ELSE EndCycle(p)
  /\ UNCHANGED <<queue, ledger, store, provider, faults>>
-----------------------------------------------------------------------------
(* Claiming *)

(* claimNext, the query. Priority and dates order the candidates; they are *)
(* abstracted, so any candidate may come first. It may belong to another   *)
(* workflow of the scope.                                                  *)
PickCandidate(p, s) ==
  /\ At(p, "pick")
  /\ s \in Claimable
  /\ proc' = [proc EXCEPT ![p].pc = "claim", ![p].row = s]
  /\ UNCHANGED <<queue, ledger, store, provider, faults>>

(* No candidate: the cycle saves the workflow it loaded and ends.          *)
NothingToClaim(p) ==
  /\ At(p, "pick")
  /\ Claimable = {}
  /\ Goto(p, "save")
  /\ UNCHANGED <<queue, ledger, store, provider, faults>>

ClaimNext(p) ==
  /\ At(p, "claim")
  /\ ClaimRow(proc[p].row)
  /\ proc' = [proc EXCEPT ![p].pc = "run", ![p].row = NoStep,
                          ![p].step = proc[p].row,
                          ![p].tries = queue[proc[p].row].attempts + 1]
  /\ UNCHANGED <<ledger, store, provider, faults>>

(* The guarded update touched no row: claimNext returns null.              *)
ClaimLost(p) ==
  /\ At(p, "claim")
  /\ proc[p].row \notin Claimable
  /\ proc' = [proc EXCEPT ![p].pc = "save", ![p].row = NoStep]
  /\ UNCHANGED <<queue, ledger, store, provider, faults>>
-----------------------------------------------------------------------------
(* Executing *)

CanRun(p) == proc[p].step \in RunnableStepIds(proc[p].wf, proc[p].flow)

(* orchestrator.runReadySteps(workflow, next.stepId).                      *)
RunReadyStep(p) ==
  /\ At(p, "run")
  /\ CanRun(p)
  /\ proc' = [proc EXCEPT ![p].pc = "begin",
                ![p].flow = WithStep(@, proc[p].step, "RUNNING")]
  /\ UNCHANGED <<queue, ledger, store, provider, faults>>

(* Nothing ran: the step is not runnable in the loaded workflow, or is not *)
(* a step of it. The row is failed all the same.                           *)
RejectClaim(p) ==
  /\ At(p, "run")
  /\ ~CanRun(p)
  /\ FailRow(proc[p].step)
  /\ Goto(p, "save")
  /\ UNCHANGED <<ledger, store, provider, faults>>

(* ledger.begin, the read. An unresolved row gives a blocked result and an *)
(* executed one its recorded result, without a dispatch.                   *)
BeginExecution(p) ==
  /\ At(p, "begin")
  /\ LET s == proc[p].step
         answer == Begin(s)
     IN  proc' = CASE answer = "recover" ->
                        [proc EXCEPT ![p].pc = "settle", ![p].result = Recovered(s)]
                   [] answer = "unresolved" ->
                        [proc EXCEPT ![p].pc = "settle", ![p].result = "blocked"]
                   [] OTHER -> [proc EXCEPT ![p].pc = answer]
  /\ UNCHANGED <<queue, ledger, store, provider, faults>>

CreateExecution(p) ==
  /\ At(p, "create")
  /\ CreateRow(proc[p].step)
  /\ Goto(p, "dispatch")
  /\ UNCHANGED <<queue, store, provider, faults>>

(* Another process created the row first: the unique violation ends the    *)
(* cycle; the queue row stays CLAIMED.                                     *)
CreateRaceLost(p) ==
  /\ At(p, "create")
  /\ ledger[proc[p].step].status # "absent"
  /\ EndCycle(p)
  /\ UNCHANGED <<queue, ledger, store, provider, faults>>

ResetFailedExecution(p) ==
  /\ At(p, "reset")
  /\ ResetRow(proc[p].step)
  /\ Goto(p, "dispatch")
  /\ UNCHANGED <<queue, store, provider, faults>>

(* V6ActuationBoundaryEngine.validate, the registry and the agent check:   *)
(* a step they do not let through never reaches the provider.              *)
BoundaryBlocks(p) ==
  /\ At(p, "dispatch")
  /\ proc[p].step \notin Authorized
  /\ proc' = [proc EXCEPT ![p].pc = "record", ![p].result = "blocked"]
  /\ UNCHANGED <<queue, ledger, store, provider, faults>>

(* An answer or an exception that may stand for a side effect counts as an *)
(* effect.                                                                 *)
Called(s, mayHaveActed, verified) ==
  provider' = [provider EXCEPT
                 ![s].calls = @ + 1,
                 ![s].effects = IF mayHaveActed THEN @ + 1 ELSE @,
                 ![s].verified = @ \/ verified]

ProviderAnswers(p, result) ==
  /\ At(p, "dispatch")
  /\ proc[p].step \in Authorized
  /\ Called(proc[p].step, Executed(result), result = "verified")
  /\ proc' = [proc EXCEPT ![p].pc = "record", ![p].result = result]
  /\ UNCHANGED <<queue, ledger, store, faults>>

(* The agent throws: nothing catches it below the executive loop, so the   *)
(* ledger row stays executing and the queue row CLAIMED.                   *)
ProviderThrows(p) ==
  /\ At(p, "dispatch")
  /\ proc[p].step \in Authorized
  /\ "throws" \in Outcomes
  /\ faults < MaxFaults
  /\ faults' = faults + 1
  /\ Called(proc[p].step, TRUE, FALSE)
  /\ EndCycle(p)
  /\ UNCHANGED <<queue, ledger, store>>

RecordExecution(p) ==
  /\ At(p, "record")
  /\ CompleteExecution(proc[p].step, proc[p].result)
  /\ Goto(p, "settle")
  /\ UNCHANGED <<queue, store, provider, faults>>
-----------------------------------------------------------------------------
(* Settling: the orchestrator updates its copy of the workflow, then the   *)
(* runtime branches on the result.                                         *)

Settled(p) ==
  WithStep(proc[p].flow, proc[p].step, StatusAfter(proc[p].result))

Classification(p) == ClassifyFailure(proc[p].result, proc[p].tries)

SaveWorkflow(w, flow) == store' = [store EXCEPT ![w] = flow]

(* The executed branch: workflowStore.save with the step's new status, and *)
(* the workflow's once all its steps are COMPLETED in this copy.           *)
SettleExecuted(p) ==
  /\ At(p, "settle")
  /\ Executed(proc[p].result)
  /\ LET flow == IF AllStepsCompleted(proc[p].wf, Settled(p))
                 THEN [Settled(p) EXCEPT !.status = "COMPLETED"]
                 ELSE Settled(p)
     IN  /\ SaveWorkflow(proc[p].wf, flow)
         /\ proc' = [proc EXCEPT ![p].pc = "complete", ![p].flow = flow]
  /\ UNCHANGED <<queue, ledger, provider, faults>>

(* queue.complete, then the continuation: schedule what became runnable.   *)
CompleteClaim(p) ==
  /\ At(p, "complete")
  /\ CompleteRow(proc[p].step)
  /\ proc' = [proc EXCEPT ![p].pc = "schedule",
                          ![p].todo = RunnableStepIds(proc[p].wf, proc[p].flow)]
  /\ UNCHANGED <<ledger, store, provider, faults>>

(* queue.retry, with the step READY in the copy that is saved next.        *)
SettleRetry(p) ==
  /\ At(p, "settle")
  /\ ~Executed(proc[p].result)
  /\ Classification(p) = "retry"
  /\ RetryRow(proc[p].step)
  /\ proc' = [proc EXCEPT ![p].pc = "save",
                ![p].flow = WithStep(@, proc[p].step, "READY")]
  /\ UNCHANGED <<ledger, store, provider, faults>>

(* The row is no longer CLAIMED or FAILED: retry throws, nothing is saved. *)
RetryRefused(p) ==
  /\ At(p, "settle")
  /\ ~Executed(proc[p].result)
  /\ Classification(p) = "retry"
  /\ ~Retryable(proc[p].step)
  /\ EndCycle(p)
  /\ UNCHANGED <<queue, ledger, store, provider, faults>>

(* The block and escalate branches: queue.fail.                            *)
SettleFailure(p) ==
  /\ At(p, "settle")
  /\ ~Executed(proc[p].result)
  /\ Classification(p) # "retry"
  /\ FailRow(proc[p].step)
  /\ proc' = [proc EXCEPT ![p].pc = "save", ![p].flow = Settled(p)]
  /\ UNCHANGED <<ledger, store, provider, faults>>

(* workflowStore.save at the end of a cycle: the whole workflow, as this   *)
(* process knows it, over whatever is stored by now.                       *)
SaveAndFinish(p) ==
  /\ At(p, "save")
  /\ SaveWorkflow(proc[p].wf, proc[p].flow)
  /\ EndCycle(p)
  /\ UNCHANGED <<queue, ledger, provider, faults>>
-----------------------------------------------------------------------------
(* The environment *)

(* A process dies in the middle of a cycle and is started again.           *)
Crash(p) ==
  /\ ~At(p, "idle")
  /\ faults < MaxFaults
  /\ faults' = faults + 1
  /\ EndCycle(p)
  /\ UNCHANGED <<queue, ledger, store, provider>>

(* A retry's backoff elapses, or a claim nobody holds any more goes stale. *)
TimePasses(s) ==
  /\ queue[s].status \in {"QUEUED", "CLAIMED"}
  /\ ~queue[s].ripe
  /\ queue[s].status = "CLAIMED" => ~Held(s)
  /\ queue' = [queue EXCEPT ![s].ripe = TRUE]
  /\ UNCHANGED <<ledger, store, proc, provider, faults>>

(* Nothing renews a claim while its step executes, and it is stamped with  *)
(* the cycle's start: it may go stale under a process that is still alive. *)
ClaimOutlived(s) ==
  /\ s \in SlowSteps
  /\ faults < MaxFaults
  /\ queue[s].status = "CLAIMED" /\ ~queue[s].ripe /\ Held(s)
  /\ faults' = faults + 1
  /\ queue' = [queue EXCEPT ![s].ripe = TRUE]
  /\ UNCHANGED <<ledger, store, proc, provider>>
-----------------------------------------------------------------------------
CycleStep(p) ==
  \/ RecoverStaleClaims(p)
  \/ \E s \in Steps : LookUpRow(p, s) \/ PickCandidate(p, s)
  \/ ScheduleStep(p) \/ ScheduleDuplicate(p) \/ ScheduleDone(p)
  \/ NothingToClaim(p) \/ ClaimNext(p) \/ ClaimLost(p)
  \/ RunReadyStep(p) \/ RejectClaim(p)
  \/ BeginExecution(p) \/ CreateExecution(p) \/ CreateRaceLost(p)
  \/ ResetFailedExecution(p) \/ BoundaryBlocks(p)
  \/ \E result \in Outcomes \ {"throws"} : ProviderAnswers(p, result)
  \/ RecordExecution(p) \/ SettleExecuted(p) \/ CompleteClaim(p)
  \/ SettleRetry(p) \/ RetryRefused(p) \/ SettleFailure(p) \/ SaveAndFinish(p)

Next ==
  \/ \E p \in Procs : \/ \E w \in Workflows : StartCycle(p, w)
                      \/ CycleStep(p)
                      \/ ProviderThrows(p)
                      \/ Crash(p)
  \/ \E s \in Steps : TimePasses(s) \/ ClaimOutlived(s)

Spec == Init /\ [][Next]_vars

(* Every await returns, the driver keeps visiting every workflow (the      *)
(* executive's interval timer runs the cycles of its workflows in turn),   *)
(* and time passes. Crashes and provider exceptions are not required.      *)
Fairness ==
  /\ \A p \in Procs : WF_vars(CycleStep(p))
  /\ \A p \in Procs, w \in Workflows : SF_vars(StartCycle(p, w))
  /\ \A s \in Steps : WF_vars(TimePasses(s))

FairSpec == Spec /\ Fairness
-----------------------------------------------------------------------------
(* Properties *)

(* Types: every table and every cycle stays within its declared shape.     *)
TypeOK ==
  /\ queue \in [Steps -> QueueRow]
  /\ ledger \in [Steps -> LedgerRow]
  /\ store \in [Workflows -> Workflow]
  /\ proc \in [Procs -> Cycle]
  /\ provider \in [Steps -> ProviderRow]
  /\ faults \in 0..MaxFaults

(* A step is dispatched only after the provider has verified every step it *)
(* depends on, however old the copy of the workflow the process works on   *)
(* (docs/v6-autonomous-business.md: a step must not run until its required *)
(* predecessor steps have completed).                                      *)
DependenciesFirst ==
  \A p \in Procs : At(p, "dispatch") =>
    \A d \in DependsOn[proc[p].step] : provider[d].verified

(* Stored truth: a stored step is COMPLETED only if its execution was      *)
(* verified, and a stored workflow only if that holds of all its steps,    *)
(* whichever interleaving of whole-workflow saves produced the record.     *)
StoredTruth ==
  \A s \in Steps :
    LET flow == store[WorkflowOf[s]]
    IN  \/ flow.steps[s] = "COMPLETED"
        \/ flow.status = "COMPLETED"
        => provider[s].verified

(* So do the queue and the ledger: a row that is COMPLETED, or recorded as *)
(* executed, had an effect, and one recorded as verified was verified,     *)
(* also where records are overwritten or made by several holders.          *)
RecordedTruth ==
  \A s \in Steps :
    /\ queue[s].status = "COMPLETED" \/ ledger[s].executed => provider[s].effects > 0
    /\ ledger[s].verified => provider[s].verified

(* The runtime implements OrderedExecution: dependencies first, no call    *)
(* after an effect for the steps whose cycle is in time, stored truth. One *)
(* step of the code is one call, one save, or nothing to it.               *)
Ordered == INSTANCE OrderedExecution WITH
  Once     <- Steps \ SlowSteps,
  calls    <- [s \in Steps |-> provider[s].calls],
  effects  <- [s \in Steps |-> provider[s].effects],
  verified <- {s \in Steps : provider[s].verified},
  stored   <- {s \in Steps : store[WorkflowOf[s]].steps[s] = "COMPLETED"},
  finished <- {w \in Workflows : store[w].status = "COMPLETED"}
RunsInOrder == Ordered!Spec

(* Claim ownership: two processes never hold the same step, if its cycle   *)
(* does not outlive the staleness threshold, whatever other cycles do (the *)
(* v6.9 concurrent claim demos: concurrent workers cannot both own the     *)
(* same item).                                                             *)
ClaimExclusive ==
  \A p, q \in Procs, s \in Steps \ SlowSteps :
    Holds(p, s) /\ Holds(q, s) => p = q

Redispatched(s) ==
  provider[s].effects > 0 /\ provider'[s].calls # provider[s].calls

(* Once a call may have had an external effect, the step is never          *)
(* dispatched again: not after a crash between call and record, not after  *)
(* an exception, not by a retry (docs/v6-actuation-boundary.md, Durable    *)
(* execution). Its cycle must not outlive the staleness threshold.         *)
NoDispatchAfterEffect == [][\A s \in Steps \ SlowSteps : ~Redispatched(s)]_vars

(* The same without the condition: "An existing completed execution is     *)
(* recovered rather than dispatched again." (docs/v6-actuation-boundary.md *)
(* line 48)                                                                *)
CompletedIsRecovered == [][\A s \in Steps : ~Redispatched(s)]_vars

(* Retries are bounded by the failure policy: recovery may add one call    *)
(* per fault, because a recovered claim does not consult maxAttempts.      *)
CallsBounded ==
  \A s \in Steps : provider[s].calls <= MaxAttempts + faults

(* With one runtime process, a COMPLETED step is never un-completed by a   *)
(* later save of the workflow.                                             *)
CompletedStaysCompleted ==
  [][\A w \in Workflows, s \in Steps :
       store[w].steps[s] = "COMPLETED" => store'[w].steps[s] = "COMPLETED"]_vars

(* Every claim is eventually settled or recovered, also when its holder    *)
(* dies or its cycle ends with an exception.                               *)
ClaimsAreReleased ==
  \A s \in Steps : queue[s].status = "CLAIMED" ~> queue[s].status # "CLAIMED"

(* A verified execution that was recorded in the ledger reaches the        *)
(* workflow table for good, whatever crash lies between the record and the *)
(* save (the v6 crash recovery demo: persisted as COMPLETED).              *)
RecordedReachesStore ==
  \A s \in Steps :
    ledger[s].verified ~> [](store[WorkflowOf[s]].steps[s] = "COMPLETED")

(* No silent stall: in the end every step is COMPLETED, or is FAILED, or   *)
(* its queue row is, or it waits for such a step.                          *)
Visible(s) ==
  \/ store[WorkflowOf[s]].steps[s] \in {"COMPLETED", "FAILED"}
  \/ queue[s].status = "FAILED"
NoSilentStall ==
  \A s \in Steps : <>[](Visible(s) \/ \E d \in DependsOn[s] :
                            store[WorkflowOf[s]].steps[d] # "COMPLETED")
=============================================================================
