----------------------------- MODULE AgentTasks -----------------------------
(***************************************************************************)
(* The life of one delegated agent task: AgentTaskLifecycleService keeps   *)
(* its record in memory, AgentTaskRecoveryService retries it within a      *)
(* budget, AgentDelegationService hands it to the agent, and               *)
(* AgentTaskReturnService closes it with a result reported elsewhere.      *)
(* Every stretch of code between two awaits is one action.  Tasks share    *)
(* nothing but the map, so one task id is modelled.                        *)
(***************************************************************************)
EXTENDS Naturals, FiniteSets

CONSTANTS
    Recoveries,     \* callers of recover(); each calls again while told "retry"
    Executions,     \* direct calls of execute()
    Returns,        \* calls of returnAndClose()
    Admitted,       \* the callers whose request passes the gates of delegate()
    MaxAttempts,    \* the budget every recovery passes
    MaxFaults       \* bound: messages that cannot be sent

Callers == Recoveries \cup Executions

ASSUME AgentTasksAssumption ==
    /\ Recoveries \cap Executions = {} /\ Admitted \subseteq Callers
    /\ MaxAttempts \in Nat \ {0} /\ MaxFaults \in Nat

VARIABLES
    record,     \* the task's record: status ("none": not in the map) and attempts
    call,       \* where each caller is, the result it waits to apply, what it was told
    returned,   \* the returns already made
    faults,
    seen        \* what an observer at the agent's door notes
vars == <<record, call, returned, faults, seen>>

Status == {"none", "planned", "executing", "completed", "failed", "blocked"}
Decision == {"retry", "blocked", "completed", "failed"}
PC == {"idle", "sending", "working", "returned", "applied", "done"}

NoCall == [pc |-> "idle", result |-> "none", told |-> "none"]

\* A report: the agent succeeded, failed, or failed and named blockers.
Report == {"success", "failure", "blockers"}

TypeOK ==
    /\ record \in [status : Status, attempts : Nat]
    /\ call \in [Callers -> [pc : PC, result : Status, told : Decision \cup {"none"}]]
    /\ returned \subseteq Returns /\ faults \in 0..MaxFaults
    /\ seen \in [retries : Nat, succeeded : BOOLEAN, redone : BOOLEAN, contested : BOOLEAN]

Init ==
    /\ record = [status |-> "none", attempts |-> 0]
    /\ call = [c \in Callers |-> NoCall]
    /\ returned = {} /\ faults = 0
    /\ seen = [retries |-> 0, succeeded |-> FALSE, redone |-> FALSE, contested |-> FALSE]

InFlight(c) == call[c].pc \in {"sending", "working", "returned", "applied"}

\* Mutation: any answer of the agent completes the task.
DelegationStatusTrusting(report) == IF report = "blockers" THEN "failed" ELSE "completed"
\* delegate() looks at `success` alone: blockers make no difference here ...
DelegationStatus(report) == IF report = "success" THEN "completed" ELSE "failed"
\* ... while applyReturnedResult tells a blocked task from a failed one.
ReturnStatus(report) ==
    CASE report = "success" -> "completed"
      [] report = "failure" -> "failed"
      [] report = "blockers" -> "blocked"

\* Mutation: the result of an attempt is recorded as the decision it leads to.
ApplyDecision(status) == [record EXCEPT !.status = IF status = "failed" THEN "retry" ELSE status]
\* applyDelegationResult and applyReturnedResult: the record takes the
\* status it is given, whatever it holds by then.
Apply(status) == [record EXCEPT !.status = status]

\* Mutation: completed work is executed again.
MayExecuteAlways == TRUE
\* execute() returns a completed record as it is.
MayExecute == record.status # "completed"

\* execute() up to its await: the attempt is counted before it is made.
Attempt == [status |-> "executing", attempts |-> record.attempts + 1]

\* Mutation: one attempt more than the budget.
BudgetSpentLate == record.attempts > MaxAttempts
BudgetSpent == record.attempts >= MaxAttempts

\* Mutation: while an attempt is made the caller is told to try again.
RefusalWhileBusy ==
    CASE record.status \in {"completed", "blocked"} -> record.status
      [] record.status = "executing" -> "retry"
      [] record.status \in {"planned", "failed"} /\ BudgetSpent -> "failed"
      [] OTHER -> "none"
\* What recover() answers without an attempt; "none" when it makes one.
Refusal ==
    CASE record.status = "completed" -> "completed"
      [] record.status = "blocked" -> "blocked"
      [] record.status \notin {"none", "completed", "blocked"} /\ BudgetSpent -> "failed"
      [] OTHER -> "none"

\* resultForRecord: the decision after an attempt, from the record as it is now.
Decide ==
    CASE record.status = "completed" -> "completed"
      [] record.status = "blocked" -> "blocked"
      [] OTHER -> IF BudgetSpent THEN "failed" ELSE "retry"

Tell(c, decision) ==
    call' = [call EXCEPT ![c] = [pc |-> IF decision = "retry" /\ c \in Recoveries THEN "idle" ELSE "done",
                                 result |-> "none", told |-> decision]]

-----------------------------------------------------------------------------
\* plan(): the first request for the id makes the record.
Plan ==
    /\ record.status = "none"
    /\ record' = [record EXCEPT !.status = "planned"]
    /\ UNCHANGED <<call, returned, faults, seen>>

\* recover(), answered without an attempt.
RecoverRefuses(c) ==
    /\ c \in Recoveries /\ call[c].pc = "idle" /\ Refusal # "none"
    /\ Tell(c, Refusal)
    /\ UNCHANGED <<record, returned, faults, seen>>

\* execute() of a completed task.
ExecuteReturns(c) ==
    /\ c \in Executions /\ call[c].pc = "idle" /\ ~MayExecute
    /\ Tell(c, "completed")
    /\ UNCHANGED <<record, returned, faults, seen>>

\* execute(), called or reached from recover(), up to the first await of delegate().
BeginAttempt(c) ==
    /\ call[c].pc = "idle" /\ MayExecute
    /\ c \in Recoveries => Refusal = "none"
    /\ record' = Attempt
    /\ call' = [call EXCEPT ![c] = IF c \in Admitted
                                   THEN [@ EXCEPT !.pc = "sending"]
                                   ELSE [@ EXCEPT !.pc = "returned", !.result = "blocked"]]
    /\ seen' = [seen EXCEPT !.retries = IF c \in Recoveries THEN @ + 1 ELSE @,
                            !.contested = @ \/ \E d \in Callers \ {c} : InFlight(d)]
    /\ UNCHANGED <<returned, faults>>

\* The message is out; delegate() calls the agent.
EnterAgent(c) ==
    /\ call[c].pc = "sending"
    /\ call' = [call EXCEPT ![c].pc = "working"]
    /\ seen' = [seen EXCEPT !.redone = @ \/ seen.succeeded]
    /\ UNCHANGED <<record, returned, faults>>

\* sendMessage is outside delegate()'s try: the record stays "executing".
SendThrows(c) ==
    /\ call[c].pc = "sending" /\ faults < MaxFaults
    /\ call' = [call EXCEPT ![c].pc = IF c \in Recoveries THEN "idle" ELSE "done"]
    /\ faults' = faults + 1
    /\ UNCHANGED <<record, returned, seen>>

\* The agent answers or throws; delegate() resolves.
AgentAnswers(c) ==
    /\ call[c].pc = "working"
    /\ \E report \in Report :
         /\ call' = [call EXCEPT ![c].pc = "returned", ![c].result = DelegationStatus(report)]
         /\ seen' = [seen EXCEPT !.succeeded = @ \/ report = "success"]
    /\ UNCHANGED <<record, returned, faults>>

ApplyResult(c) ==
    /\ call[c].pc = "returned"
    /\ record' = Apply(call[c].result)
    /\ call' = [call EXCEPT ![c].pc = "applied"]
    /\ UNCHANGED <<returned, faults, seen>>

\* The caller resumes, after other continuations may have run.
Resume(c) ==
    /\ call[c].pc = "applied"
    /\ Tell(c, Decide)
    /\ UNCHANGED <<record, returned, faults, seen>>

\* returnAndClose(): it throws when the task was never planned.
ReturnAndClose(r) ==
    /\ r \notin returned /\ record.status # "none"
    /\ \E report \in Report :
         /\ record' = Apply(ReturnStatus(report))
         /\ seen' = [seen EXCEPT !.succeeded = @ \/ report = "success",
                                 !.contested = @ \/ record.status # "planned"]
    /\ returned' = returned \cup {r}
    /\ UNCHANGED <<call, faults>>

CallSteps(c) == EnterAgent(c) \/ AgentAnswers(c) \/ ApplyResult(c) \/ Resume(c)
Recover(c) == c \in Recoveries /\ (RecoverRefuses(c) \/ BeginAttempt(c))

Next ==
    \/ Plan
    \/ \E c \in Callers :
         RecoverRefuses(c) \/ ExecuteReturns(c) \/ BeginAttempt(c) \/ EnterAgent(c) \/ SendThrows(c)
           \/ AgentAnswers(c) \/ ApplyResult(c) \/ Resume(c)
    \/ \E r \in Returns : ReturnAndClose(r)

\* Agents answer, continuations run, and a recovery told to retry does so.
Fairness == \A c \in Callers : WF_vars(CallSteps(c)) /\ WF_vars(Recover(c))
Spec == Init /\ [][Next]_vars
FairSpec == Spec /\ Fairness

-----------------------------------------------------------------------------
(* Properties.                                                             *)

\* Whatever overlaps, all the recoveries of a task together make no more
\* attempts than the budget one of them passes (agent-task-recovery, 64).
RecoveryBudget == seen.retries <= MaxAttempts

\* A recovery is told "completed" only of a task some report called a success,
\* though it reads the record after other calls may have written it.
CompletedIsTrue ==
    \A c \in Callers : call[c].told = "completed" => seen.succeeded

\* "Completed work is never re-executed" (the recovery demo) as long as the
\* attempts of a task do not overlap and no second verdict is reported on it;
\* the record takes late results as they come, so otherwise it does not hold.
CompletedNotRedone == ~seen.contested => ~seen.redone

\* Callers that recover while told to retry are told a final decision.
RecoverySettles == \A c \in Recoveries : <>[](call[c].pc = "done")

\* "Blocked tasks are never retried automatically": NOT what the code does for
\* an agent that names blockers through delegate(); see the README.
=============================================================================
