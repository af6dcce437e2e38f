---------------------------- MODULE ExecutiveLoop ----------------------------
(***************************************************************************)
(* PersistentExecutiveLoop over AutonomousExecutiveCycle for one company:  *)
(* observe, derive intents, plan, decide, submit a workflow, queue it, run *)
(* the V6 runtime, remember the outcome, checkpoint the intents that are   *)
(* done, and cycle again while there is something to do.  Services start   *)
(* the loop from timers and events; each step is one awaited call with the *)
(* synchronous code after it.  The runtime is V6Runtime itself: a process  *)
(* of the loop is one of its Procs, and a cycle of it is a part of a run.  *)
(***************************************************************************)
EXTENDS V6Runtime

CONSTANTS
  Keys,         \* checkpoint keys of actionable intents: type and evidence
  Recovering,   \* the keys of RECOVER_FAILED_WORK
  PlanOf,       \* the plan of an intent, whose id is that of its workflow and
                \* has no trace of the evidence
  RuleOf,       \* the policy rule for the plan's capability, or "none"
  NoKey,
  MaxCycles,
  MaxOpen,      \* bound: intents at one time
  MaxChanges    \* bound: changes of what the executive observes

ASSUME ExecutiveLoopAssumption ==
  /\ Recovering \subseteq Keys /\ NoKey \notin Keys
  /\ PlanOf \in [Keys -> Workflows]
  /\ RuleOf \in [Workflows -> {"AUTONOMOUS", "FOUNDER_APPROVAL", "none"}]
  \* The plan of an intent has one task.
  /\ \A w \in Workflows : \E s \in Steps : StepsOf(w) = {s}
  /\ MaxCycles \in Nat \ {0} /\ MaxOpen \in Nat /\ MaxChanges \in Nat

VARIABLES
  open,        \* external: the intents the stores and objectives give rise to
  waiting,     \* external: is some workflow awaiting approval
  created,     \* the workflows that are in the table
  checkpoint,  \* the stored checkpoint: handled intent keys
  memory,      \* [Workflows -> the outcome remembered of the workflow]
  loop,        \* [Procs -> a run of the loop]
  changes

loopVars == <<vars, open, waiting, created, checkpoint, memory, loop, changes>>

RunPC == {"idle", "load", "observe", "cycle", "lookup", "create", "continue", "queue",
          "schedule", "running", "remember"}
NoRun == [pc |-> "idle", handled |-> {}, cycle |-> 0, paused |-> FALSE, todo |-> {}, key |-> NoKey,
          submitted |-> {}, torun |-> {}, completed |-> {}, ended |-> {}, shared |-> FALSE]
\* completed and ended are the lists of the runtime's results that a cycle
\* collects: runtime.completed, and failed, blocked, reconciled and escalated.
Run == [pc : RunPC, handled : SUBSET Keys, cycle : 0..(MaxCycles - 1), paused : BOOLEAN,
        todo : SUBSET Keys, key : Keys \cup {NoKey}, submitted : SUBSET Keys, torun : SUBSET Workflows,
        completed : SUBSET Steps, ended : SUBSET Steps, shared : BOOLEAN]

\* Two intents of one plan are not there at the same time.
Observable == {K \in SUBSET Keys : Cardinality(K) <= MaxOpen /\ \A j, k \in K : PlanOf[j] = PlanOf[k] => j = k}

LoopInit ==
  /\ Init
  /\ open = {} /\ waiting = FALSE
  /\ created = {} /\ checkpoint = {}
  /\ memory = [w \in Workflows |-> "none"]
  /\ loop = [l \in Procs |-> NoRun]
  /\ changes = 0

LoopAt(l, label) == loop[l].pc = label
Active(l) == ~LoopAt(l, "idle")
\* Every step but a start finds `loop` changed at l alone.
Goes(l, run) == loop' = [loop EXCEPT ![l] = run]
External == <<open, waiting, changes>>
-----------------------------------------------------------------------------
(* Decisions: pure functions of the snapshot and the plan.                 *)

\* Mutation: failed work is an exception that stops its own recovery.
SeverityOfFailure(signal, count) ==
  IF signal \in {"SAFETY_BOUNDARY", "APPROVAL_REQUIRED", "REPEATED_FAILURE"} THEN "CRITICAL" ELSE "SERIOUS"
\* ExecutiveExceptionManagementEngine.determineSeverity
Severity(signal, count) ==
  CASE signal \in {"SAFETY_BOUNDARY", "APPROVAL_REQUIRED"} -> "CRITICAL"
    [] signal = "REPEATED_FAILURE" /\ count >= 3 -> "SERIOUS"
    [] signal \in {"OBJECTIVE_STALLED", "DEPENDENCY_BLOCKED", "CAPACITY_CONSTRAINT"} -> "ROUTINE"
    [] OTHER -> "SERIOUS"

Signals(failing, awaiting) ==
  (IF failing > 0 THEN {"REPEATED_FAILURE"} ELSE {}) \cup (IF awaiting THEN {"APPROVAL_REQUIRED"} ELSE {})

\* evaluateExecutionGate: a critical exception stops every submission.
Pauses(observed, awaiting) ==
  LET failing == Cardinality(observed \cap Recovering)
  IN  \E signal \in Signals(failing, awaiting) : Severity(signal, failing) = "CRITICAL"

\* Mutation: an approval that is still needed does not block.
DecisionHopeful(w) == IF RuleOf[w] = "none" THEN "BLOCKED" ELSE "ELIGIBLE"
\* ExecutiveAutonomyPolicy, then ExecutionDecisionProjector.
Decision(w) == IF RuleOf[w] = "AUTONOMOUS" THEN "ELIGIBLE" ELSE "BLOCKED"
\* No capability or no rule for it: building or judging the plan throws.
Unplannable(w) == RuleOf[w] = "none"
-----------------------------------------------------------------------------
(* A run *)

\* A timer or an event starts a run; it may find another process at work.
StartRun(l) ==
  /\ LoopAt(l, "idle")
  /\ LET others == {m \in Procs \ {l} : Active(m)}
     IN  loop' = [m \in Procs |-> IF m = l THEN [NoRun EXCEPT !.pc = "load", !.shared = others # {}]
                                  ELSE IF m \in others THEN [loop[m] EXCEPT !.shared = TRUE] ELSE loop[m]]
  /\ UNCHANGED <<vars, External, created, checkpoint, memory>>

\* The checkpoint is read once; later cycles of the run go on from the copy.
LoadCheckpoint(l) ==
  /\ LoopAt(l, "load")
  /\ Goes(l, [loop[l] EXCEPT !.pc = "observe", !.handled = checkpoint])
  /\ UNCHANGED <<vars, External, created, checkpoint, memory>>

\* What the cycle has to do: an intent that is not permitted costs it nothing.
ToDo(intents, paused) ==
  {k \in intents : Unplannable(PlanOf[k]) \/ (~paused /\ Decision(PlanOf[k]) = "ELIGIBLE")}

\* One cycle begins: the state is read, and intents are derived from it.
Observe(l) ==
  /\ LoopAt(l, "observe")
  /\ LET paused == Pauses(open, waiting)
     IN  Goes(l, [loop[l] EXCEPT !.pc = "cycle", !.paused = paused, !.submitted = {}, !.completed = {},
                                 !.ended = {}, !.todo = ToDo(open \ loop[l].handled, paused)])
  /\ UNCHANGED <<vars, External, created, checkpoint, memory>>

\* The next intent: its plan throws, or it is submitted.
NextIntent(l) ==
  /\ LoopAt(l, "cycle")
  /\ \E k \in loop[l].todo :
       Goes(l, IF Unplannable(PlanOf[k]) THEN NoRun
               ELSE [loop[l] EXCEPT !.todo = @ \ {k}, !.pc = "lookup", !.key = k])
  /\ UNCHANGED <<vars, External, created, checkpoint, memory>>

Plan(l) == PlanOf[loop[l].key]
TaskOf(w) == CHOOSE s \in Steps : WorkflowOf[s] = w

\* DurableExecutiveSubmission: a plan whose workflow exists is not submitted twice.
LookUpPlan(l) ==
  /\ LoopAt(l, "lookup")
  /\ Goes(l, [loop[l] EXCEPT !.pc = IF Plan(l) \in created THEN "continue" ELSE "create"])
  /\ UNCHANGED <<vars, External, created, checkpoint, memory>>

\* ExecutiveExecutionBridge: the workflow and its step are READY.
Bridged == [status |-> "READY", steps |-> [s \in Steps |-> "READY"]]

\* A second creation of the same id is refused by the table and ends the run.
CreateWorkflow(l) ==
  /\ LoopAt(l, "create")
  /\ IF Plan(l) \in created
     THEN UNCHANGED <<store, created>> /\ Goes(l, NoRun)
     ELSE /\ SaveWorkflow(Plan(l), Bridged) /\ created' = created \cup {Plan(l)}
          /\ Goes(l, [loop[l] EXCEPT !.pc = "continue"])
  /\ UNCHANGED <<queue, ledger, proc, provider, faults, External, checkpoint, memory>>

\* Mutation: the key is cleared before it is noted.
SubmittedCleared(run) == [run EXCEPT !.pc = "cycle", !.key = NoKey, !.submitted = @ \cup {NoKey},
                                !.torun = @ \cup {PlanOf[run.key]}]
Submitted(run) == [run EXCEPT !.pc = "cycle", !.key = NoKey, !.submitted = @ \cup {run.key},
                         !.torun = @ \cup {PlanOf[run.key]}]

\* ExecutiveRuntimeContinuation: the workflow is read; its step is queued if it
\* is runnable and has no row yet, whatever that row's status.
Continue(l) ==
  /\ LoopAt(l, "continue")
  /\ Goes(l, IF RunnableStepIds(Plan(l), store[Plan(l)]) = {} THEN Submitted(loop[l])
             ELSE [loop[l] EXCEPT !.pc = "queue"])
  /\ UNCHANGED <<vars, External, created, checkpoint, memory>>

LookUpQueued(l) ==
  /\ LoopAt(l, "queue")
  /\ Goes(l, IF queue[TaskOf(Plan(l))].status = "ABSENT" THEN [loop[l] EXCEPT !.pc = "schedule"]
             ELSE Submitted(loop[l]))
  /\ UNCHANGED <<vars, External, created, checkpoint, memory>>

\* A row that another process has queued meanwhile ends the run.
ScheduleWorkflow(l) ==
  /\ LoopAt(l, "schedule")
  /\ \/ Enqueue(TaskOf(Plan(l))) /\ Goes(l, Submitted(loop[l]))
     \/ /\ queue[TaskOf(Plan(l))].status # "ABSENT"
        /\ UNCHANGED queue /\ Goes(l, NoRun)
  /\ UNCHANGED <<ledger, store, proc, provider, faults, External, created, checkpoint, memory>>
-----------------------------------------------------------------------------
(* The runtime: one persisted cycle per submitted workflow, in turn.  The  *)
(* queue is the scope's: a cycle may claim, and then fail, another         *)
(* workflow's row.                                                         *)

BeginRuntime(l) ==
  /\ LoopAt(l, "cycle") /\ loop[l].todo = {}
  /\ \E w \in loop[l].torun :
       /\ StartCycle(l, w)
       /\ Goes(l, [loop[l] EXCEPT !.pc = "running", !.torun = @ \ {w}])
  /\ UNCHANGED <<External, created, checkpoint, memory>>

\* completed.push: also a step that was executed and could not be verified.
RuntimeCompletes(l) ==
  /\ LoopAt(l, "running") /\ CompleteClaim(l)
  /\ Goes(l, [loop[l] EXCEPT !.completed = @ \cup {proc[l].step}])
  /\ UNCHANGED <<External, created, checkpoint, memory>>

\* Mutation: a step that will be retried counts as ended.
EndsOrRetries(l) == RejectClaim(l) \/ SettleFailure(l) \/ SettleRetry(l)
\* failed, blocked, reconciled and escalated: the row is FAILED.
Ends(l) == RejectClaim(l) \/ SettleFailure(l)

RuntimeEnds(l) ==
  /\ LoopAt(l, "running") /\ Ends(l)
  /\ Goes(l, [loop[l] EXCEPT !.ended = @ \cup {proc[l].step}])
  /\ UNCHANGED <<External, created, checkpoint, memory>>

\* The persisted cycle returns.
RuntimeReturns(l) ==
  /\ LoopAt(l, "running")
  /\ SaveAndFinish(l) \/ (proc[l].step # NoStep /\ ScheduleDone(l))
  /\ Goes(l, [loop[l] EXCEPT !.pc = "cycle"])
  /\ UNCHANGED <<External, created, checkpoint, memory>>

\* Its tables throw, and with it the run.
RuntimeThrows(l) ==
  /\ LoopAt(l, "running")
  /\ ScheduleDuplicate(l) \/ CreateRaceLost(l) \/ RetryRefused(l)
  /\ Goes(l, NoRun)
  /\ UNCHANGED <<External, created, checkpoint, memory>>

\* So does the agent.
AgentThrows(l) ==
  /\ LoopAt(l, "running") /\ ProviderThrows(l)
  /\ Goes(l, NoRun)
  /\ UNCHANGED <<External, created, checkpoint, memory>>

\* Between its start and its end the cycle goes on as in V6Runtime.
RuntimeGoesOn(l) ==
  /\ LoopAt(l, "running")
  /\ \/ RecoverStaleClaims(l)
     \/ \E s \in Steps : LookUpRow(l, s) \/ PickCandidate(l, s)
     \/ ScheduleStep(l) \/ (proc[l].step = NoStep /\ ScheduleDone(l))
     \/ NothingToClaim(l) \/ ClaimNext(l) \/ ClaimLost(l) \/ RunReadyStep(l)
     \/ BeginExecution(l) \/ CreateExecution(l) \/ ResetFailedExecution(l) \/ BoundaryBlocks(l)
     \/ \E result \in Outcomes \ {"throws"} : ProviderAnswers(l, result)
     \/ RecordExecution(l) \/ SettleExecuted(l) \/ SettleRetry(l)
  /\ UNCHANGED <<External, created, checkpoint, memory, loop>>
-----------------------------------------------------------------------------
(* Outcomes and the checkpoint *)

AllRun(l) == LoopAt(l, "cycle") /\ loop[l].todo = {} /\ loop[l].torun = {}

\* recordRuntimeOutcome: the submitted workflows with a step in the runtime's
\* lists, and no record of it yet.
ToRemember(run) ==
  {w \in {PlanOf[k] : k \in run.submitted} :
     memory[w] = "none" /\ StepsOf(w) \cap (run.completed \cup run.ended) # {}}

\* The list is read, and an outcome it lacks is to be written.
NextOutcome(l) ==
  /\ AllRun(l)
  /\ \E w \in ToRemember(loop[l]) : Goes(l, [loop[l] EXCEPT !.pc = "remember", !.torun = {w}])
  /\ UNCHANGED <<vars, External, created, checkpoint, memory>>

\* torun holds the workflow being recorded; a second record of its id throws.
Remember(l) ==
  /\ LoopAt(l, "remember")
  /\ \E w \in loop[l].torun :
       IF memory[w] = "none"
       THEN /\ memory' = [memory EXCEPT ![w] =
                            IF StepsOf(w) \cap loop[l].completed # {} THEN "success" ELSE "failure"]
            /\ Goes(l, [loop[l] EXCEPT !.pc = "cycle", !.torun = {}])
       ELSE UNCHANGED memory /\ Goes(l, NoRun)
  /\ UNCHANGED <<vars, External, created, checkpoint>>

\* Mutation: an intent is done when its workflow is in the runtime's hands.
CompletedKeysSubmitted(run) == run.submitted
\* The intents with a step in this very cycle's runtime.completed.
CompletedKeys(run) == {k \in run.submitted : StepsOf(PlanOf[k]) \cap run.completed # {}}

\* Mutation: a new checkpoint is made of this cycle alone.
HandledThisCycle(run) == CompletedKeys(run)
Handled(run) == run.handled \cup CompletedKeys(run)

\* The upsert writes the copy over whatever is stored; then the run ends when
\* there was nothing to do, when something was completed, or after MaxCycles.
SaveCheckpoint(l) ==
  /\ AllRun(l) /\ ToRemember(loop[l]) = {}
  /\ checkpoint' = Handled(loop[l])
  /\ Goes(l, IF loop[l].submitted = {} \/ CompletedKeys(loop[l]) # {} \/ loop[l].cycle + 1 = MaxCycles
             THEN NoRun
             ELSE [loop[l] EXCEPT !.pc = "observe", !.handled = Handled(loop[l]), !.cycle = @ + 1])
  /\ UNCHANGED <<vars, External, created, memory>>
-----------------------------------------------------------------------------
(* The environment *)

\* A call throws, or the process dies: onError sees it, the timer goes on.
Interrupted(l) ==
  /\ Active(l) /\ faults < MaxFaults
  /\ \/ Crash(l)
     \/ /\ At(l, "idle") /\ faults' = faults + 1
        /\ UNCHANGED <<queue, ledger, store, proc, provider>>
  /\ Goes(l, NoRun)
  /\ UNCHANGED <<External, created, checkpoint, memory>>

\* Work fails, is repaired, objectives move, approvals come and go: an intent
\* more or less, or a first or last approval that is awaited.
ObservedChanges ==
  /\ changes < MaxChanges /\ changes' = changes + 1
  /\ \/ /\ \E k \in Keys : open' \in {open \cup {k}, open \ {k}} \ {open}
        /\ open' \in Observable /\ UNCHANGED waiting
     \/ waiting' = ~waiting /\ UNCHANGED open
  /\ UNCHANGED <<vars, created, checkpoint, memory, loop>>

\* The queue's clock, as in V6Runtime.
Clock(s) ==
  /\ TimePasses(s) \/ ClaimOutlived(s)
  /\ UNCHANGED <<External, created, checkpoint, memory, loop>>
-----------------------------------------------------------------------------
LoopStep(l) ==
  \/ LoadCheckpoint(l) \/ Observe(l) \/ NextIntent(l) \/ LookUpPlan(l) \/ CreateWorkflow(l)
  \/ Continue(l) \/ LookUpQueued(l) \/ ScheduleWorkflow(l)
  \/ BeginRuntime(l) \/ RuntimeCompletes(l) \/ RuntimeEnds(l) \/ RuntimeReturns(l)
  \/ RuntimeThrows(l) \/ RuntimeGoesOn(l)
  \/ NextOutcome(l) \/ Remember(l) \/ SaveCheckpoint(l)

LoopNext ==
  \/ \E l \in Procs : StartRun(l) \/ LoopStep(l) \/ AgentThrows(l) \/ Interrupted(l)
  \/ \E s \in Steps : Clock(s)
  \/ ObservedChanges

LoopSpec == LoopInit /\ [][LoopNext]_loopVars

\* Timers fire, calls return and time passes. Nothing requires an exception of
\* the agent, an interruption or a change of observations.
LoopFairness ==
  /\ \A l \in Procs : WF_loopVars(StartRun(l)) /\ WF_loopVars(LoopStep(l))
  /\ \A s \in Steps : WF_loopVars(Clock(s))
LoopFairSpec == LoopSpec /\ LoopFairness
-----------------------------------------------------------------------------
(* Properties *)

\* Types: tables and runs keep their declared shape.
LoopTypeOK ==
  /\ TypeOK
  /\ open \in Observable /\ waiting \in BOOLEAN
  /\ created \subseteq Workflows /\ checkpoint \subseteq Keys
  /\ memory \in [Workflows -> {"none", "success", "failure"}]
  /\ loop \in [Procs -> Run]

HadEffect(w) == \E s \in StepsOf(w) : provider[s].effects > 0

\* A checkpointed intent is never processed again and a remembered success is
\* what later decisions learn from, so neither is written of a workflow that
\* did nothing - though several runs, with the copies each loaded, execute,
\* fail, remember and overwrite at once, and plans outlive their intents.
\* It may be unverified, and the workflow not COMPLETED (see the README).
WrittenWasDone ==
  /\ \A k \in checkpoint : HadEffect(PlanOf[k])
  /\ \A w \in Workflows : memory[w] = "success" => HadEffect(w)

Over(w) == memory[w] # "none" \/ \E k \in checkpoint : PlanOf[k] = w

\* A workflow whose outcome is remembered, or whose intent is checkpointed, is
\* never dispatched again: not by a retry, by another run or after a restart
\* ("Checkpointed intent prevents duplicate submission",
\* v7.8k-persistent-executive-loop-demo.ts), while its cycle is in time.
RememberedIsOver ==
  [][\A s \in Steps \ SlowSteps :
       Over(WorkflowOf[s]) => provider'[s].calls = provider[s].calls]_loopVars

\* A plan that needs the founder never becomes a workflow, also not through a
\* workflow found in the store, and no cycle that saw work waiting for an
\* approval submits anything, whatever changed since it looked.
NoUnapprovedWork ==
  /\ \A w \in Workflows : RuleOf[w] # "AUTONOMOUS" => w \notin created
  /\ \A l \in Procs : loop[l].paused => loop[l].submitted = {} /\ loop[l].key = NoKey

\* A run that overlapped no other loses no key of the checkpoint, across
\* cycles, interruptions and restarts (a run that did may: see the README).
KeysKept ==
  [][\A l \in Procs : loop'[l] # loop[l] /\ ~loop[l].shared => checkpoint \subseteq checkpoint']_loopVars

\* An autonomous intent that stays is worked in the end, to a verdict that can
\* be seen in the tables, unless an approval or an intent that cannot be
\* planned stays too.
WorkGetsDone ==
  \A k \in {k \in Keys : RuleOf[PlanOf[k]] = "AUTONOMOUS"} :
    <>[](k \in open /\ ~waiting /\ \A j \in open : ~Unplannable(PlanOf[j]))
    => <>(\E s \in StepsOf(PlanOf[k]) : Visible(s))
=============================================================================
