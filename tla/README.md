# Verification of the autonomous execution layer

TLA+ models of the parts of this repository that decide what happens in the
world and remember that it happened: the executive loop and what hosts and wakes
it, durable workflows with their queue and ledger, the V6 runtime that ties them
together, the gates in front of the providers, the communication router and the
agent tasks. TLC checks small instances; TLAPS proves the central properties for
every instance.

Run, in this directory:

    tlc -workers 2 -config RuntimePool.cfg MCV6Runtime      # RuntimeRecovery, RepeatedDispatch: the same module
    tlc -workers 2 -config ActuationPool.cfg MCGuardedActuation
    tlc -workers 2 -config CommunicationPool.cfg MCCommunicationRouter   # MisreadResponse, too
    tlc -workers 2 -config LoopPool.cfg MCExecutiveLoop
    tlc -workers 2 -config InboxPool.cfg ExecutiveInbox
    tlc -workers 2 -config LifecyclePool.cfg ExecutiveLifecycle          # SingletonLost, too
    tlc -workers 2 -config TenantPool.cfg TenantHost
    tlc -workers 2 -config AgentTaskPool.cfg AgentTasks
    tlapm V6RuntimeProofs.tla                               # and every other *Proofs.tla

## The system

Paths are below `src/luuku-ai/` unless they start with `src/`.

| Part | State | Operations | Hard part |
|---|---|---|---|
| **Executive host** `os/executive/production-executive-host.ts` | a map of services per company | start, stop, refresh on a timer | overlapping refreshes with lists of different ages |
| **Production runtime** `os/executive/executive-production-runtime.ts` and its lease | runtime state, lease owner | start, stop, health | start and stop overtake each other at every await |
| **Event inbox, wake trigger** `os/executive/durable-executive-event-adapter.ts`, `executive-wake-trigger.ts` | one row per event with a lease; one run at a time | accept, drain, wake, heartbeat | repeated events, failing calls, leases that run out, runs that are joined |
| **Executive loop and cycle** `os/executive/persistent-executive-loop.ts`, `autonomous-executive-cycle.ts` | the checkpoint, remembered outcomes | observe, decide, submit, continue, run, remember, checkpoint | decisions on what was observed many awaits ago; a checkpoint that is a copy |
| **V6 runtime** `orchestration/workflow/autonomous-runtime.ts` | none; a cycle holds a copy of one workflow | `runPersistedCycle`: load, recover stale claims, schedule, claim, execute, settle, save, continue | an await between any two of these; several processes; crashes |
| **Workflow engine, orchestrator, compiler** `orchestration/workflow/` | the workflow object | `evaluate`, `runReadySteps`, `compile` | decides on a copy that may be stale |
| **Failure classification** `orchestration/runtime/` | none | `classifyFailure`, retry policy | an unverified execution must not be repeated nor forgotten |
| **Queue** `orchestration/queue/` | one row per step: status, attempts, dates | `enqueue`, `claimNext`, `complete`, `fail`, `retry`, `recoverStaleClaims` | claim is a read and a guarded update; claims go stale |
| **Execution ledger** `orchestration/execution/execution-ledger.ts` | one row per workflow step | `begin` (read, then create or reset), `complete` | unguarded second write of `begin`, last-writer-wins `complete` |
| **Workflow table** `orchestration/workflow/prisma-workflow-store.ts` | workflow and step rows | `get`, `save` (whole workflow) | lost updates |
| **Actuation boundary, actuators** `orchestration/execution/` | registry | `dispatch` | an exception does not say whether the effect happened |
| **Actuation governance** `production-actuation-governance.ts`, `prisma-actuation-idempotency-store.ts` | one row per action, a map of promises per process | guarded `dispatch`: control, authorization, claim, dispatch, complete | cross-process claims, ambiguous writes, waiters |
| **Communication router** `shared/communication/router.ts`, `communication-execution.service.ts`, `human-review.service.ts`, the email and WhatsApp adapters | one row per idempotency key, reviews in memory | `execute`: policy, start, review, mark, send, complete | approvals that a restart forgets; requests whose answer is lost; late providers |
| **Agent tasks** `shared/communication/agent-task-*.ts`, `agent-delegation.service.ts` | a record per task, in memory | plan, execute, recover, delegate, return | attempts that overlap, late results, a budget shared by callers |
| Decision engines, approval store, control plane, inbound channels, frontends, routes, auth, CRM, knowledge, memory | | | not modelled |

How they interact: the host keeps one executive service per company; timers and
inbox events start runs of its loop. A run observes, derives intents, submits a
workflow for each that policy permits, and calls `runPersistedCycle` for it. A
runtime cycle reads and writes four tables through separate awaited calls
(workflow, queue, ledger, and whatever the provider keeps); nothing but the
single-row guards of the queue and the primary keys of queue and ledger orders
two cycles. Messages pass the router on their way to a provider. Dispatches do not
all pass the governance: the step executor that the executive's cycle makes
(`SharedAgentWorkflowExecutor`, `autonomous-executive-cycle.ts:101`) dispatches through
`createDefaultProductionActuatorComposition` itself, behind the ledger alone;
`GuardedProductionActuation` protects the compositions that use it.

The production host composes its executives with `executeRuntime: false` and without
capabilities and policy rules (`production-executive-host.ts:130-142`): its cycles
observe, end with an exception at the first actionable intent, and run nothing. The loop
is modelled as `executeRuntime: true` with capabilities and rules composes it, as the
repository's demos do.

What makes each part correct, in one line each:

- host: a company has one executive at most, and one if it stays;
- runtime and lease: whoever runs owns the lease, and health says what is so;
- inbox: an accepted event is delivered or given up, and neither is undone;
- loop: nothing unapproved becomes a workflow; what is checkpointed was done, and
  stays checkpointed; what is remembered is not done again; permitted work gets done;
- V6 runtime: a step runs only after its dependencies; a recorded outcome reaches
  the workflow; nothing is left claimed; every step ends visibly;
- queue: one owner per claim, and every claim ends;
- ledger: an effect that may have happened is never caused again;
- workflow table: what it calls COMPLETED was verified;
- governance, router: at most one effect per key, sent with consent, and callers
  are told the truth;
- agent tasks: a budget that holds for all recoveries together, and no success
  that was none.

## Modules

    WorkflowEngine            pure operators: runnable steps, status after a result,
        |                     classification of failures; the constants and their assumption
        +-- QueueStore        VARIABLE queue;  one operator per database statement
        +-- ExecutionLedger   VARIABLE ledger; begin's read and its two writes, complete
              \   /
             V6Runtime        the cycle, run by several processes; properties
              |- OrderedExecution    what the runtime promises (abstract), which it refines
              |- V6RuntimeProofs     types, truth of the tables, exclusive claims, effects
              |                      not repeated, calls bounded, the refinement
              |- MCV6Runtime         workflow graphs and provider behaviours for TLC

    AtMostOnceActuation       what a gate in front of a provider promises (abstract)
       |  refined by
       +-- GuardedActuation      dispatch, claim and complete for one key
       |      |- GuardedActuationProofs  types, truth of the row, the refinement
       |      |- MCGuardedActuation      dispatches and servers for TLC
       +-- CommunicationRouter   attempts of one request, reviews, provider
              |- CommunicationProofs     types, consent, truth of the row, the refinement
              |- MCCommunicationRouter   attempts and reviews for TLC

    ExecutiveLoop             runs of the loop by several processes; extends V6Runtime,
       |                      whose cycles are a part of a run
       |- ExecutiveLoopProofs    types, checkpoint, memory, permission; on V6RuntimeProofs
       |- MCExecutiveLoop        intents, plans and rules for TLC
    ExecutiveInbox            inbox, drains, trigger   |- ExecutiveInboxProofs
    ExecutiveLifecycle        runtimes and their lease |- ExecutiveLifecycleProofs
    TenantHost                the host's refreshes and services |- TenantHostProofs
    AgentTasks                one task id, every caller |- AgentTasksProofs

The ledger of the V6 runtime, the governance's row and the router's row are three
tables with one purpose on three paths to the providers; the last two are shown to
keep one promise, `AtMostOnceActuation`.

Operators under a comment that begins with "Mutation" are never used by a
specification. Each is a plausible bug of the operator that follows it; replacing
the operator by it makes the property named in `PROJECT.json` fail, which shows
that the property depends on that code.

### V6Runtime and what it extends

`proc[p]` is the state of the cycle process `p` is in: its program counter
(`pc`, one value per await), the copy of the workflow it loaded (`flow`), the
claimed step, its attempt number and the agent's result. One action is one
awaited call with the synchronous code after it:

| pc | actions | code |
|---|---|---|
| idle | `StartCycle` | `runPersistedCycle`, load |
| recover | `RecoverStaleClaims` | `runCycle`, first line |
| schedule, insert | `LookUpRow`, `ScheduleStep`, `ScheduleDuplicate`, `ScheduleDone` | `scheduleRunnableSteps`, both times it is called |
| pick, claim | `PickCandidate`, `NothingToClaim`, `ClaimNext`, `ClaimLost` | `PrismaQueueStore.claimNext`: query, guarded update |
| run | `RunReadyStep`, `RejectClaim` | `runReadySteps` with the claimed step; the last else |
| begin, create, reset | `BeginExecution`, `CreateExecution`, `CreateRaceLost`, `ResetFailedExecution` | `ExecutionLedger.begin` |
| dispatch | `BoundaryBlocks`, `ProviderAnswers`, `ProviderThrows` | actuators, boundary, agent |
| record | `RecordExecution` | `ExecutionLedger.complete` |
| settle, complete, save | `SettleExecuted`, `CompleteClaim`, `SettleRetry`, `RetryRefused`, `SettleFailure`, `SaveAndFinish` | the branches of `runCycle` |

`Crash` may happen at every pc and also stands for a database call that throws:
nothing between the call and the executive's loop catches it, so the cycle ends
where it is. `TimePasses` and `ClaimOutlived` move the clock.

Abstractions. A workflow holds a status for every step of the model; only those
of its own steps mean anything. Dates are one Boolean per row, `ripe`: the row's
`availableAt` has come (QUEUED), the claim is stale (CLAIMED). Priority and dates
choose among candidates in the code; here any candidate may be chosen. An agent's
result is one of five classes, by the fields the runtime reads (`success`,
`executed`, `verified`, `executionStatus`). `provider[s]` is not in the program:
it counts the calls that reached the provider, those that may have had an effect,
and remembers whether one was verified; the properties speak of it. Boundary,
registry and agent check are one set, `Authorized`. Workflows stay READY until
they are COMPLETED, as the compiler leaves them.

`OrderedExecution` keeps of all this what a caller of the runtime can count on: a
step is called after its dependencies were verified, called again only while no
call has had an effect, and what a save stores as completed was verified. `Promise`
draws the consequences. The refinement maps `calls`, `effects` and `verified` to
`provider`, `stored` and `finished` to the workflow table, and `Once` to the steps
outside `SlowSteps`; queue, ledger, copies and processes have no counterpart. It does
not say that what is stored stays: with two processes it does not.

### GuardedActuation and AtMostOnceActuation

One idempotency key, that is one step of one workflow: no table entry, promise or
call relates two keys. `Dispatches` are the calls of `dispatch(step)` for it, each
made once in its server `NodeOf[d]`; a retry is another member. `row` is the
durable row, `local[n]` the promise in server n's `localInFlight`, named after
the dispatch that made it.

| pc | actions | code |
|---|---|---|
| new | `BlockedByGovernance`, `JoinLocal`, `IssueCreate` | the gate's tests and the first look into the map |
| creating | `CreateRow`, `CreateFails` | `create`; it may fail after the commit |
| conflict, found | `ReadRow`, `ClaimRejects`, `JoinFound`, `AnswerFound` | the catch of `claim`: `findUnique`, then the map again |
| created | `EnterProvider` | the rest of `claim`, entering `composition.dispatch` |
| calling, acted | `ProviderActs`, `ProviderConfirms`, `ProviderRefuses`, `DispatchThrows` | the provider; the effect comes before the answer |
| recording | `RecordAnswer`, `RecordFails` | the write of `complete`; it may fail after the commit |
| recorded, unrecorded | `ReturnOwn` | the rest of `complete` and of `dispatch`, with the waiters it wakes |
| any | `Crash` | a server dies with its map and its calls, and starts again |

`provider` counts calls, refusals (answers that say nothing was executed) and
effects. A call that is not refused is in doubt: it was executed, or threw, or its
server died. The abstract specification says that the provider is entered only
while no call is in doubt, that there is one effect at most, and that VERIFIED and
EXECUTED are told only of an effect; the refinement maps `doubt` to
`calls # refused` and `told` to the outcomes of the dispatches.

### CommunicationRouter

One request with one `idempotencyKey`, executed by any number of `Attempts`.

| pc | actions | code |
|---|---|---|
| new | `Evaluate` | `execute`, policy's decision for this attempt |
| starting | `StartThrows`, `FindExisting` | `start`: `findUnique`, `existingResult` |
| creating, resetting | `Plan`, `PlanFails` | `create`, or the reset of a failed row |
| planned | `RequireReview`, `Refuse`, `Admit` | the gates, with the reviews of that moment |
| blocking | `Block`, `BlockFails` | `complete` with a blocked result |
| marking | `MarkExecuting`, `MarkFails` | `markExecuting` |
| calling | `AdapterBlocks`, `Send`, `Confirmed`, `Rejected`, `Unreadable`, `ResponseLost` | the adapter |
| recording | `Record`, `RecordFails` | `complete`; an exception becomes "unknown" |
| any | `ProviderAccepts`, `ProviderRefuses`, `DecideReview`, `ReviewOfOther`, `Crash` | provider, humans, other requests, the process |

The provider acts on a request whether or not the attempt still waits. Reviews are
in memory: `Crash` forgets them and every attempt. A review of another request
(`ReviewOfOther`) is kept by the fields in which it says what this request says
(`agrees`); `canExecuteFor` compares action and requester, and the task only of a
request that names one (`NamesTask`), so it lets such a review count. Recipient and text
are never compared; `communication-router-human-review-demo.ts` itself sends another
body with an approval. Assumed of the providers: an answer that is not 2xx means the
message was not accepted.

### The executive

`ExecutiveLoop` extends `V6Runtime`: a process of the loop is one of its `Procs`, and
the persisted cycles of its run are that process' cycles. `loop[l]` is the run: its
copy of the checkpoint (`handled`), whether the cycle is paused, the intents still to
do, the one being submitted, the workflows to run, and the runtime's lists.

| pc | actions | code |
|---|---|---|
| idle, load | `StartRun`, `LoadCheckpoint` | the service's tick; `run`, first line |
| observe, cycle | `Observe`, `NextIntent` | one cycle: snapshot, gate, intents, decisions |
| lookup, create | `LookUpPlan`, `CreateWorkflow` | `DurableExecutiveSubmission`, the bridge |
| continue, queue, schedule | `Continue`, `LookUpQueued`, `ScheduleWorkflow` | `ExecutiveRuntimeContinuation` |
| cycle, running | `BeginRuntime`, `RuntimeGoesOn`, `RuntimeReturns`, `RuntimeThrows`, `AgentThrows` | `runPersistedCycle` for each workflow: every step of `V6Runtime` |
| running | `RuntimeCompletes`, `RuntimeEnds` | the same, and the lists: `completed` (executed, verified or not) and `ended` (failed, blocked, reconciled, escalated) |
| cycle, remember | `NextOutcome`, `Remember` | `recordRuntimeOutcome` |
| cycle | `SaveCheckpoint` | the rest of the loop's cycle |
| any | `Interrupted`, `Clock` | a call throws, or the process dies; the queue's dates |

An intent is its checkpoint key; `PlanOf` gives the plan, whose id has no trace of the
evidence in the key, and `RuleOf` what the policy says of the plan's capability. A plan
has one task (`intent-plan-builder.ts`), so its workflow has one step. What the stores
and the objectives give rise to (`open`, `waiting`) changes at any time; the intents of
one moment have different plans (`Observable`). `shared` is not in the program: it marks
a run that overlapped another. Left out: objectives' progress, capacity, budgets,
learning and the report.

`ExecutiveInbox`: a drain reads its clock once, so `drain[n].age` and `age[e]` (the
age of `processingStartedAt`) are relative; both are capped. Everything between two
awaits is one action; a heartbeat, a stop and a crash may come between any.

`ExecutiveLifecycle`: `starting[r][c]` is where a call of `start` is, `service[r]`
the timer and the run of the service. Stopping a service without an active run is
one action with the rest of `stop`: the promise it awaits is already settled.

`TenantHost`: a refresh reads the companies (`ReadCompanies`), gets the answer
later, and applies it in one turn (`ApplyRefresh`) up to the active runs it waits
for (`RunEnds` continues it). `Services` bounds how many exist; a service that is
off, idle and out of the map is forgotten and its name reused.

### AgentTasks

One task id (tasks share only the map). `call[c]` is where a caller is: sending the
message, at the agent, returned with a result, applied. `Resume` is an action of
its own because other continuations can run between the write of the record and
the decision that reads it. A recovery that is told "retry" calls again. `seen` is
what an observer at the agent's door notes; the program has no such state.

## Runs

| Run | Instance | Shows |
|---|---|---|
| `RuntimePool` | 2 processes, a chain of two steps, every provider answer, 1 fault; the claim of the second step may go stale under its holder | types, dependencies first, exclusive claims, bounded calls, no dispatch after an effect, implements `OrderedExecution` |
| `RuntimeRecovery` | 1 process, a chain of three steps the last of which the boundary blocks, 2 faults, claims that go stale under their holder, fairness | completed stays completed, claims are released, recorded results reach the table, no silent stall |
| `ActuationPool` | 2 dispatches in one server, 1 in another; every answer, failing writes, crashes; fairness | types, the row tells the truth, implements `AtMostOnceActuation`, waiters whose promise is not replaced are answered |
| `CommunicationPool` | 3 attempts, one after another, over WhatsApp; 1 review, of this request or of another of the same requester, for the same task or for another | types, consent, the row tells the truth, implements `AtMostOnceActuation` |
| `InboxPool` | 2 processes, 1 event, drains longer than the lease, 1 fault, fairness | leases are honoured, settled events stay settled, the heartbeat goes on, no event is left behind |
| `LifecyclePool` | 3 runtimes, one start of each at a time | runs happen under the lease, health is true |
| `TenantPool` | 2 companies, 2 overlapping refreshes, fairness | one executive per company; the host follows the companies |
| `LoopPool` | 2 processes, an autonomous and a founder's intent, every answer of the agent, 2 attempts, 2 cycles in a run, 1 interruption, 2 changes of what is observed, fairness | types, only permitted work, what is checkpointed or called a success was done, what is remembered is over, keys are kept, work gets done |
| `AgentTaskPool` | 2 recoveries (one is not admitted), a direct execution, a reported result, 1 message that cannot be sent, fairness | budget, true decisions, no redone work, recoveries end |

Runs that end in a violation, each a disagreement between the code and what the
repository says of it (`PROJECT.json`, findings):

| Run | What happens |
|---|---|
| `RepeatedDispatch` | a stale claim with a living holder: both holders pass the ledger's read, the second resets after the first executed |
| `MisreadResponse` | the email adapter takes a 2xx response without a readable id for a rejection; the row says failed and may be retried although the message was accepted |
| `SingletonLost` | start, stop and start while the first start still checks: the failing check of one start releases the lease the other has acquired, and its service goes on without it |

### Bounds

Two processes are the smallest number with a race; every race in the runtime's code
is between two calls on one row. A chain of two steps has a dependency and a
continuation. Two attempts are the smallest number with a retry and an escalation.
One fault with two processes, two with one, cover a crash at each await and a crash
of the recovery itself.

The gates need no bound besides their dispatches or attempts: each is made once. An
owner, a waiter and a dispatch in another server are the parts of every race in the
store. In the router a first attempt that fails or is lost, one that retries it, and
one that finds what the second left are all that can follow each other. An attempt
names one review, so one is enough to meet each kind; that reviews, overlapping attempts
and both channels in any number change nothing about consent is proved.

The inbox has one event: events share nothing but the drain's order, and two
processes with a repeated emission meet every status of a row. `MaxDrain` is longer
than `StaleAfter`, so that leases run out under their holder. Three runtimes let one
own the lease while two others come and go. Two refreshes are the smallest number
with an old and a new list; three services let a company get a new one while the
old one still runs.

The loop starts without intents; one change brings one, another takes it away, brings
the other or an approval that is awaited, at any await. Two processes are two writers of
every row, workflow, outcome and checkpoint; two cycles are the smallest number in which
a run goes on from its own copy, two attempts the smallest with a retry. Not in the
instance, but in the theorems: several autonomous plans, whose rows a cycle may claim for
each other; several keys with one plan (a failure whose evidence changes); intents
without a rule; claims that outlive their cycle.

Deadlock is not checked where everything may be said and done: all dispatches or
attempts made, all agent calls told.

### Fairness

`V6Runtime`: weak fairness of a process' next step (an await returns), strong
fairness of starting a cycle for each workflow (the executive's timer visits all its
workflows; strong, because a process is idle only now and then), and weak fairness of
the clock. Crashes and exceptions are bounded and never required. Progress is checked
with one process; with two, whole-workflow saves may undo it (see below).

`GuardedActuation`: weak fairness of each dispatch that has claimed or is waiting for
a call: the database answers or fails, the actuator answers or throws. The code has no
timeout of its own around the actuator; one that never returns keeps its waiters
waiting. New dispatches and crashes are not required.

`ExecutiveInbox`: awaits of a drain return, runs of the loop end, time passes, and the
heartbeat's interval timer fires (strong: it does nothing while a run is active).
`NoneLeftBehind` supposes in its own statement that drains keep being started.

`TenantHost`: runs end; the host's database answers, successfully in the long run, and
its timer fires. `FollowsCompanies` supposes that the timer is set.

`ExecutiveLoop`: timers start runs, each step of a run returns (weak fairness of
`LoopStep`, the runtime's steps included), and time passes (`Clock`). Exceptions of the
agent, interruptions and changes are not required, and bounded where they would never end.

`AgentTasks`: agents answer, continuations run, and a recovery that is told "retry" is
called again.

## Proofs

For any sets of processes, workflows and steps, any dependency relation satisfying
`EngineAssumption`, any provider behaviour, any bound on faults:

| Theorem | Statement | Inductive invariant |
|---|---|---|
| `TypeCorrect` | `Spec => []TypeOK` | `TypeInv`: TypeOK, and each cycle has a step, row or result exactly where its pc needs one |
| `DependenciesComeFirst` | `Spec => []DependenciesFirst` | `TruthInv` |
| `StoreTellsTruth` | `Spec => []StoredTruth` | `TruthInv`: every copy of every workflow, stored or held, is true of the provider; so is the ledger, and a result on its way into a copy. Without the copies the property is not inductive: a save could store a lie |
| `ClaimsAreExclusive` | `Spec => []ClaimExclusive` | `OwnInv`: a held row of a step outside `SlowSteps` is CLAIMED and not stale, so neither a claim nor a recovery touches it |
| `EffectsAreNotRepeated` | `Spec => NoDispatchAfterEffect` | `EffectInv` on top of `OwnInv`, for the same steps: the ledger is `executing` or executed wherever an effect may have happened, and a process at `reset` still sees a failed row |
| `CallsAreBounded` | `Spec => []CallsBounded` | `BudgetInv`: the calls made, and those that may still come (holders that have not called, holders that may give the row back, attempts never started, a row that is free or orphaned), are at most `MaxAttempts` and one per fault. Without counting the holders whose claims went stale it would not be inductive: each may give the row back once |
| `RecordsTellTruth` | `Spec => []RecordedTruth` | `ActedInv`: a COMPLETED queue row and an executed ledger row had an effect, and so had the step of a process that is about to write either. It needs no condition on the claims: holders may overwrite each other's records, but not with an effect that was none |
| `Refinement` | `Spec => RunsInOrder` | `TruthInv` gives the guards about dependencies and stored truth, `EffectInv` the one about earlier effects; a call is an abstract call, a save an abstract save, everything else a stutter |
| `PromiseKept` | `Spec => []Ordered!Promise` | `CallInv`: calls, effects and verifications of a step against those of its dependencies |
| `CompletedForGood` | `Spec /\ []CyclesApart => CompletedStaysCompleted` | `CopyInv`: the copy of a cycle in flight has every step that is stored COMPLETED, and the step it executes is RUNNING in it |
| `CompletedForGoodAlone` | the same for one process, without `CyclesApart` | |
| `CyclesWait` | of a set of steps each of which depends on one of the set, none is ever called | `TruthInv` and `CallInv` |

`ClaimsAreExclusive` and `EffectsAreNotRepeated` speak of the steps outside `SlowSteps`: that the cycle of a step ends within
`queueClaimStaleAfterMs` is an assumption on the deployment, not something the code
enforces, and they assume it of no other step. `RepeatedDispatch` shows that the second
fails without it (`CompletedIsRecovered`).

`CyclesApart` says that the cycles of one workflow do not overlap, as when one
executive runs them one after another; claims may still go stale and other workflows
be run at the same time. It is necessary: a cycle that found nothing to do may save its
old copy over a step completed meanwhile. `PromiseKept` and `CyclesWait` are state
predicates no run lists: the first is what `RunsInOrder`, which is checked, comes to.
`CyclesWait` says of every graph what becomes of one that the compiler should have
rejected.

For any dispatches and servers (`GuardedActuationProofs`):

| Theorem | Statement | Inductive invariant |
|---|---|---|
| `TypeCorrect` | `Spec => []TypeOK` | with `Answering`: who records has an answer |
| `RowIsTruthful` | `Spec => []RowTellsTruth` | `IInv`: the IN_FLIGHT row has one owner at most among the living dispatches, the owner's place says what the provider has seen, and rows read, answers and outcomes are true. Without the ownership a second dispatch could enter the provider under the same row |
| `Refinement` | `Spec => AtMostOnce` | `IInv`; each action is an abstract step or a stutter |

For any attempts and reviews (`CommunicationProofs`); `Assumed` is attempts that do not
overlap, over WhatsApp:

| Theorem | Statement | Inductive invariant |
|---|---|---|
| `TypeCorrect` | `Spec => []TypeOK` | `Typed`: TypeOK, and who records has an answer |
| `ConsentBeforeSending` | `Spec => []SentWithConsent`, for overlapping attempts over either channel, and reviews of any other requests | with `Typed`; an approved review is never changed while the process lives |
| `LedgerTellsTruth` | `Assumed`, then `Spec => []LedgerTruth` | `RInv`: a message in doubt (`Guarded`) keeps the row at executing, unknown or verified and everybody else at the look at that row; with the books of the provider, so that it is the only one. Without `Guarded` nothing would connect a message of a lost attempt to the row it left |
| `Refinement` | `Assumed`, then `Spec => SentAtMostOnce` | `RInv`; each action is an abstract step or a stutter |

The second assumption of `Assumed` is necessary (`MisreadResponse`); so is the first
(overlapping attempts, below).

For any processes, events and faults (`ExecutiveInboxProofs`), any runtimes
(`ExecutiveLifecycleProofs`), any processes, intents and plans (`ExecutiveLoopProofs`),
any callers of a task (`AgentTasksProofs`), any companies, refreshes and services
(`TenantHostProofs`):

| Theorem | Statement | Inductive invariant |
|---|---|---|
| `TypeCorrect` (inbox) | `Spec => []TypeOK` | `Typed`: TypeOK, and a drain has an event where its pc needs one |
| `SettledForGood` | `Spec => NeverReopened` | the same: only a claim or a receive writes an unsettled status, and both look at it first |
| `LeaseKept` | `Spec => []LeaseHonoured` | `Stamped`: unless a drain has outlived the lease, the row it holds is PROCESSING with a stamp of that drain or a later claim |
| `TypeCorrect` (lifecycle) | `Spec => []TypeOK` | itself |
| `RunningOwnsLease`, `HealthTellsTruth` | `OneStartAtATime`, then `Spec => []RunsUnderLease`, `[]HealthIsTrue` | the books of each runtime: what state, ownership, lease and service may be at once, and that a start is under way only where the state allows it |
| `LoopTypesCorrect` | `LoopSpec => []LoopTypeOK` | `IInv` |
| `WrittenWorkWasDone` | `LoopSpec => []WrittenWasDone` | `Proven` and `Written`: every copy of the checkpoint and every step in a run's `completed` list had an effect, and so does what is stored of them. Without the copies a save could store what was not done |
| `RememberedWorkIsOver` | `LoopSpec => RememberedIsOver` | the same with the runtime's own invariant `V6Inv` (from `V6RuntimeProofs`): a step in the lists had an effect or a FAILED row, neither ever goes away (`Growth`), and for a claim in time neither lets the provider be called |
| `OnlyPermittedWork` | `LoopSpec => []NoUnapprovedWork` | `Founded` and `Permitted`: the intents a run has to do were permitted when it looked, and the one it submits still has its permitted plan |
| `CheckpointGrows` | `LoopSpec => KeysKept` | `Alone`: a run that is not shared is alone, and its copy holds the checkpoint |
| `TypeCorrect` (tasks) | `Spec => []TypeOK` | `TypeInv`: TypeOK, and a task in flight is past its planning |
| `BudgetKept` | `Spec => []RecoveryBudget` | `BudgetInv`: the attempts of recoveries are among those the record counts |
| `DecisionsAreTrue` | `Spec => []CompletedIsTrue` | `TruthInv`: so are the record and the results on their way to it |
| `WorkIsNotRedone` | `Spec => []CompletedNotRedone` | `LoneInv`: while attempts do not overlap one call is in flight at most, it owns the record, and a success is on its way to the record or in it |
| `TypeCorrect` (host) | `Spec => []TypeOK` | `IInv` |
| `OneExecutive` | `Spec => []OneExecutivePerCompany` | `IInv`: the map and the services agree, a service that is on or runs is the one in the map, and what a refresh waits for still runs but is off. Without the last, the end of a wait could take a service out of the map that can still begin a run |

`OneStartAtATime` says that a runtime has one start in flight; `SingletonLost` shows
that it is necessary.

Each proof of a step groups the actions that leave the invariant's variables alone and
treats the others one by one; a record that changes several fields at once is named,
typed, and then compared field by field.

Model-checked only: everything under fairness, since liveness is out of the prover's
reach. Every invariant of a passing run, and every action property and refinement, is a
theorem.

## What the code does that a reader may not expect

Seen while modelling; each follows from the lines named and limits a property above.

Runtime:

- An executed but unverified result takes the branch of a completed one
  (`autonomous-runtime.ts:36`): its queue row is completed and the `reconcile` branch
  below cannot be reached. The step becomes FAILED (`workflow-orchestrator.ts:64`), and
  the executive checkpoints its intent and remembers "Workflow completed."
  (`persistent-executive-loop.ts:75`, `autonomous-executive-cycle.ts:169`), although the
  comment at `persistent-executive-loop.ts:59` speaks of workflows that "actually reached
  a V6 terminal completion". What holds of both is that something was done
  (`WrittenWasDone`).
- Over the Prisma queue, the FAILED row of a blocked step is looked up, passed over by
  the skip list and inserted again; the unique violation is not the "already exists"
  the catch looks for, so every later cycle of that workflow ends before it claims.
  `NoSilentStall` counts the steps as ended visibly when the row is FAILED; a step
  independent of the blocked one would starve.
- `save` writes the whole workflow: with two processes, a cycle that found nothing to
  do may save its old copy over a step completed meanwhile.
- `claimNext` is not restricted to the cycle's workflow: with two workflows in a scope,
  a cycle of one claims a row of the other, does not find it runnable and fails it. The
  executive then remembers the other as a failure, though it was never called. The
  instances have one workflow that may run; the theorems have any number.
- A crash between the save of a COMPLETED step and `queue.complete` ends with the step's
  row FAILED: the recovered row is claimed and found not runnable. The executive remembers
  the completed workflow as a failure; what holds is that it is over (`RememberedIsOver`).
- A recovered claim does not consult `maxAttempts`: one call more for every crash.
- The compiler rejects unknown and self dependencies, but no cycle of them: its steps, and
  those behind it, are never dispatched (`CyclesWait`), and no row or status says so.

Governance:

- A late `create` may succeed after a release committed and before the releaser resumed:
  its promise replaces the older one in the map, whose waiters hang.
- A release that commits but loses its response tells waiters to reconcile a row that
  is gone.

Communication:

- Two attempts of one key that overlap both pass `start` (a planned row has no existing
  result, a failed one is reset by id) and both send; only the provider's own
  idempotency stands between. The theorems are about attempts that do not.
- A blocked row is terminal: what a review allows later is refused under the same key.
- A request without a key always gets a row of its own.
- An approval counts for any other message with the same action and requester, and with
  the same task if the message names one (`human-review.service.ts:102-112`).

Executive:

- The checkpoint only counts workflows completed in the same cycle
  (`persistent-executive-loop.ts:64`): after a crash between completion and save, or when
  the workflow was completed by another process, the key is never handled; the intent is
  found "already submitted" and costs every later run all its cycles.
- Overlapping runs save their copies over each other; keys are lost, but none is gained
  for work that was not done (`WrittenWasDone`).
- The plan id is made of the intent alone: the same kind of failure with other evidence
  finds the old workflow and is never worked again.
- An intent without a capability or a rule throws and ends the cycle, with the intents
  behind it.
- Stopping the host during its first refresh leaves a timer that is set afterwards: a
  stopped host goes on hosting. A first refresh that fails leaves `started` true without
  a timer, and no later start tries again.

Agent tasks:

- `delegate` records an agent that fails and names blockers as failed
  (`agent-delegation.service.ts:116`), which a recovery retries, although
  `agent-task-recovery.service.ts:24` says "Blocked tasks are never retried
  automatically"; only a result reported through `returnAndClose` becomes blocked.
- A late result overwrites a completed record. `CompletedNotRedone` is about attempts
  that do not overlap.
- A recovery may be told "failed" for a spent budget while the last attempt is still
  being made and may succeed.

## Not modelled

- Decision engines (arbitration, capacity, budget, tradeoff, strategy, learning):
  pure functions over text and numbers without shared state. Of the policy and the
  exception management, what the loop's gates depend on is in `ExecutiveLoop`.
- Approval store, control plane, tool registry: in-memory registries or configuration;
  the loop sees of them whether an approval is waiting, the governance what it decides.
- Inbound channels and webhooks: parsing and provider I/O around a table of messages.
- The in-memory queue, stores and leases that tests use where they differ from the
  Prisma ones.
- Ownership scopes: a runtime, its queue and its stores are created for one scope,
  which is the one modelled.
- Agents, planning of steps, frontends, HTTP, authentication, knowledge, memory, CRM;
  events, observability records, returned summaries: nothing the models have reads them.
- A step object that its caller changes after it was authorized: dispatches have
  no input in the model.

These parts are most of the repository's lines. They hold little state that two actors
share, which is why the models are about the rest.

## Plan

Done: the runtime with queue, ledger and workflow table; both gates in front of the
providers, refining one abstract specification; inbox, lease and host of the executive,
and its loop composed with the runtime; agent tasks; the runtime's refinement of its
promise; and the theorems above.

Next, in this order:

1. `ExecutiveLoop` against an abstract executive (a permitted intent is submitted once,
   ends, is remembered and checkpointed): the refinement, from `IInv`.
2. The approval store (a request is decided once) and the deduplication of inbound
   messages (a webhook delivered twice).
3. The compiler's dependency checks against the definition of an acyclic graph, over all
   graphs of a few steps.
