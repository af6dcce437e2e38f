-------------------------- MODULE AgentTasksProofs --------------------------
(***************************************************************************)
(* Theorems about AgentTasks, for any recoveries, executions and returns,  *)
(* any of them admitted, any budget and any bound on faults.               *)
(***************************************************************************)
EXTENDS AgentTasks, TLAPS

CallType == [pc : PC, result : Status, told : Decision \cup {"none"}]
SeenType == [retries : Nat, succeeded : BOOLEAN, redone : BOOLEAN, contested : BOOLEAN]
RecordType == [status : Status, attempts : Nat]

(* A call that has a result to apply has one of the three a delegation     *)
(* ends with; a task in flight is past its planning.                       *)
CallShape(c) ==
  /\ call[c].pc = "returned" => call[c].result \in {"completed", "failed", "blocked"}
  /\ InFlight(c) => record.status \notin {"none", "planned"}

TypeInv == TypeOK /\ \A c \in Callers : CallShape(c)

LEMMA TypeInit == Init => TypeInv
  BY AgentTasksAssumption
  DEF Init, TypeInv, TypeOK, CallShape, InFlight, NoCall, Status, PC, Decision

(* What the operations have in common: one caller's call changes.          *)
LEMMA CallMoves ==
  ASSUME call \in [Callers -> CallType], NEW c \in Callers, NEW x \in CallType,
         call' = [call EXCEPT ![c] = x]
  PROVE  /\ call' \in [Callers -> CallType] /\ call'[c] = x
         /\ \A d \in Callers : d # c => call'[d] = call[d]
  OBVIOUS

LEMMA TellMoves ==
  ASSUME TypeInv, NEW c \in Callers, NEW decision \in Decision, Tell(c, decision)
  PROVE  /\ call' \in [Callers -> CallType]
         /\ call'[c].pc \in {"idle", "done"} /\ call'[c].result = "none"
         /\ call'[c].told = decision
         /\ \A d \in Callers : d # c => call'[d] = call[d]
  <1> DEFINE x == [pc |-> IF decision = "retry" /\ c \in Recoveries THEN "idle" ELSE "done",
                   result |-> "none", told |-> decision]
  <1>1. x \in CallType /\ call' = [call EXCEPT ![c] = x]
    BY DEF Tell, CallType, PC, Status
  <1>2. call \in [Callers -> CallType]
    BY DEF TypeInv, TypeOK, CallType
  <1>3. x.pc \in {"idle", "done"} /\ x.result = "none" /\ x.told = decision
    OBVIOUS
  <1> HIDE DEF x
  <1> QED BY <1>1, <1>2, <1>3, CallMoves

(* What each operation changes, in the terms of the proofs below.          *)
Withdraws(c) ==
  /\ UNCHANGED <<record, returned, seen>> /\ faults' \in 0..MaxFaults
  /\ call[c].pc # "returned" /\ call'[c].pc \in {"idle", "done"}
  /\ call'[c].told = "completed" => call[c].told = "completed" \/ record.status = "completed"

Begins(c) ==
  /\ call[c].pc = "idle" /\ MayExecute /\ (c \in Recoveries => Refusal = "none")
  /\ record' = Attempt /\ UNCHANGED <<returned, faults>>
  /\ \/ call'[c].pc = "sending"
     \/ call'[c].pc = "returned" /\ call'[c].result = "blocked"
  /\ call'[c].told = call[c].told
  /\ seen' \in SeenType
  /\ seen'.retries = IF c \in Recoveries THEN seen.retries + 1 ELSE seen.retries
  /\ seen'.succeeded = seen.succeeded /\ seen'.redone = seen.redone
  /\ seen'.contested <=> seen.contested \/ \E d \in Callers \ {c} : InFlight(d)

Enters(c) ==
  /\ call[c].pc = "sending" /\ call'[c].pc = "working"
  /\ call'[c].told = call[c].told
  /\ UNCHANGED <<record, returned, faults>>
  /\ seen' \in SeenType
  /\ seen'.retries = seen.retries /\ seen'.succeeded = seen.succeeded
  /\ seen'.contested = seen.contested
  /\ seen'.redone <=> seen.redone \/ seen.succeeded

Answers(c) ==
  /\ call[c].pc = "working" /\ call'[c].pc = "returned"
  /\ call'[c].result \in {"completed", "failed"} /\ call'[c].told = call[c].told
  /\ UNCHANGED <<record, returned, faults>>
  /\ seen' \in SeenType
  /\ seen'.retries = seen.retries /\ seen'.redone = seen.redone
  /\ seen'.contested = seen.contested
  /\ seen'.succeeded <=> seen.succeeded \/ call'[c].result = "completed"

Applies(c) ==
  /\ call[c].pc = "returned" /\ call'[c].pc = "applied" /\ call'[c].told = call[c].told
  /\ record' = [record EXCEPT !.status = call[c].result]
  /\ UNCHANGED <<returned, faults, seen>>

Closes ==
  /\ record.status # "none" /\ UNCHANGED <<call, faults>>
  /\ record' \in RecordType /\ record'.attempts = record.attempts
  /\ record'.status \in {"completed", "failed", "blocked"}
  /\ seen' \in SeenType
  /\ seen'.retries = seen.retries /\ seen'.redone = seen.redone
  /\ seen'.succeeded <=> seen.succeeded \/ record'.status = "completed"
  /\ seen'.contested <=> seen.contested \/ record.status # "planned"

Moves(c) == /\ call' \in [Callers -> CallType]
            /\ \A d \in Callers : d # c => call'[d] = call[d]

LEMMA CallSteps1 ==
  ASSUME TypeInv, NEW c \in Callers
  PROVE  RecoverRefuses(c) \/ ExecuteReturns(c) \/ Resume(c) \/ SendThrows(c)
           => Moves(c) /\ Withdraws(c)
  <1>0. /\ call \in [Callers -> CallType] /\ faults \in 0..MaxFaults /\ MaxFaults \in Nat
    BY AgentTasksAssumption DEF TypeInv, TypeOK, CallType
  <1>1. ASSUME NEW decision \in Decision, Tell(c, decision),
               UNCHANGED <<record, returned, faults, seen>>,
               decision = "completed" => record.status = "completed",
               call[c].pc # "returned"
        PROVE  Moves(c) /\ Withdraws(c)
    BY <1>0, <1>1, TellMoves DEF Moves, Withdraws
  <1>2. CASE RecoverRefuses(c)
    <2>1. Refusal \in Decision /\ (Refusal = "completed" => record.status = "completed")
      BY <1>2 DEF RecoverRefuses, Refusal, Decision
    <2> QED BY <1>1, <1>2, <2>1 DEF RecoverRefuses
  <1>3. CASE ExecuteReturns(c)
    <2>1. "completed" \in Decision /\ record.status = "completed"
      BY <1>3 DEF ExecuteReturns, MayExecute, Decision
    <2> QED BY <1>1, <1>3, <2>1 DEF ExecuteReturns
  <1>4. CASE Resume(c)
    <2>1. Decide \in Decision /\ (Decide = "completed" => record.status = "completed")
      BY DEF Decide, Decision
    <2> QED BY <1>1, <1>4, <2>1 DEF Resume
  <1>5. CASE SendThrows(c)
    BY <1>0, <1>5 DEF SendThrows, Moves, Withdraws, CallType, PC
  <1> QED BY <1>2, <1>3, <1>4, <1>5

LEMMA CallSteps2 ==
  ASSUME TypeInv, NEW c \in Callers
  PROVE  /\ BeginAttempt(c) => Moves(c) /\ Begins(c)
         /\ EnterAgent(c) => Moves(c) /\ Enters(c)
         /\ AgentAnswers(c) => Moves(c) /\ Answers(c)
         /\ ApplyResult(c) => Moves(c) /\ Applies(c)
  <1>0. call \in [Callers -> CallType] /\ seen \in SeenType /\ record \in RecordType
    BY DEF TypeInv, TypeOK, CallType, SeenType, RecordType
  <1>1. ASSUME BeginAttempt(c) PROVE Moves(c) /\ Begins(c)
    <2> DEFINE x == IF c \in Admitted THEN [call[c] EXCEPT !.pc = "sending"]
                    ELSE [call[c] EXCEPT !.pc = "returned", !.result = "blocked"]
               b == seen.contested \/ \E d \in Callers \ {c} : InFlight(d)
               n == IF c \in Recoveries THEN seen.retries + 1 ELSE seen.retries
    <2>1. /\ x \in CallType /\ x.told = call[c].told
          /\ x.pc = "sending" \/ (x.pc = "returned" /\ x.result = "blocked")
      BY <1>0 DEF CallType, PC, Status
    <2>2. call' = [call EXCEPT ![c] = x]
      BY <1>0, <1>1 DEF BeginAttempt
    <2>3. seen' = [seen EXCEPT !.retries = n, !.contested = b]
      BY <1>0, <1>1 DEF BeginAttempt, SeenType
    <2>4. b \in BOOLEAN /\ n \in Nat
      BY <1>0 DEF SeenType
    <2> HIDE DEF x, b, n
    <2>5. /\ seen' \in SeenType /\ seen'.retries = n /\ seen'.contested = b
          /\ seen'.succeeded = seen.succeeded /\ seen'.redone = seen.redone
      BY <1>0, <2>3, <2>4 DEF SeenType
    <2>6. Moves(c) /\ call'[c] = x
      BY <1>0, <2>1, <2>2, CallMoves DEF Moves
    <2> QED BY <1>1, <2>1, <2>4, <2>5, <2>6 DEF BeginAttempt, Begins, b, n
  <1>2. EnterAgent(c) => Moves(c) /\ Enters(c)
    BY <1>0 DEF EnterAgent, Moves, Enters, CallType, SeenType, PC
  <1>3. ASSUME AgentAnswers(c) PROVE Moves(c) /\ Answers(c)
    <2>1. PICK report \in Report :
            /\ call' = [call EXCEPT ![c].pc = "returned", ![c].result = DelegationStatus(report)]
            /\ seen' = [seen EXCEPT !.succeeded = @ \/ report = "success"]
      BY <1>3 DEF AgentAnswers
    <2> DEFINE r == DelegationStatus(report)
               x == [call[c] EXCEPT !.pc = "returned", !.result = r]
    <2>2. r \in {"completed", "failed"} /\ (r = "completed" <=> report = "success")
      BY DEF DelegationStatus
    <2>3. /\ x \in CallType /\ x.pc = "returned" /\ x.result = r /\ x.told = call[c].told
      BY <1>0, <2>2 DEF CallType, PC, Status
    <2>4. call' = [call EXCEPT ![c] = x]
      BY <1>0, <2>1 DEF CallType
    <2>5. /\ seen' \in SeenType /\ seen'.retries = seen.retries
          /\ seen'.contested = seen.contested /\ seen'.redone = seen.redone
          /\ seen'.succeeded <=> seen.succeeded \/ report = "success"
      BY <1>0, <2>1 DEF SeenType
    <2> HIDE DEF r, x
    <2>6. Moves(c) /\ call'[c] = x
      BY <1>0, <2>3, <2>4, CallMoves DEF Moves
    <2> QED BY <1>3, <2>2, <2>3, <2>5, <2>6 DEF AgentAnswers, Answers
  <1>4. ApplyResult(c) => Moves(c) /\ Applies(c)
    BY <1>0 DEF ApplyResult, Apply, Moves, Applies, CallType, PC
  <1> QED BY <1>1, <1>2, <1>3, <1>4

LEMMA ReturnCloses ==
  ASSUME TypeInv, NEW r \in Returns, ReturnAndClose(r)
  PROVE  Closes
  <1>0. seen \in SeenType /\ record \in RecordType
    BY DEF TypeInv, TypeOK, SeenType, RecordType
  <1> QED
    BY <1>0 DEF ReturnAndClose, Report, ReturnStatus, Apply, Closes, RecordType, SeenType, Status

Planned == /\ record.status = "none"
           /\ record' = [record EXCEPT !.status = "planned"]
           /\ UNCHANGED <<call, returned, faults, seen>>

Step == \/ Planned \/ Closes
        \/ \E c \in Callers : /\ Moves(c)
                              /\ Withdraws(c) \/ Begins(c) \/ Enters(c) \/ Answers(c) \/ Applies(c)

LEMMA NextStep == TypeInv /\ Next => Step
  <1> SUFFICES ASSUME TypeInv, Next PROVE Step
    OBVIOUS
  <1>1. CASE Plan
    BY <1>1 DEF Plan, Step, Planned
  <1>2. CASE \E r \in Returns : ReturnAndClose(r)
    BY <1>2, ReturnCloses DEF Step
  <1>3. ASSUME NEW c \in Callers,
               \/ RecoverRefuses(c) \/ ExecuteReturns(c) \/ BeginAttempt(c)
               \/ EnterAgent(c) \/ SendThrows(c)
               \/ AgentAnswers(c) \/ ApplyResult(c) \/ Resume(c)
        PROVE  Step
    BY <1>3, CallSteps1, CallSteps2 DEF Step
  <1> QED BY <1>1, <1>2, <1>3 DEF Next

LEMMA TypeStep == TypeInv /\ [Next]_vars => TypeInv'
  <1> SUFFICES ASSUME TypeInv, [Next]_vars PROVE TypeInv'
    OBVIOUS
  <1>0. /\ call \in [Callers -> CallType] /\ seen \in SeenType /\ record \in RecordType
        /\ returned \subseteq Returns /\ faults \in 0..MaxFaults
        /\ \A c \in Callers : CallShape(c)
    BY DEF TypeInv, TypeOK, CallType, SeenType, RecordType
  <1>1. TypeOK'
    <2>1. returned' \subseteq Returns
      BY <1>0 DEF Next, Plan, RecoverRefuses, ExecuteReturns, BeginAttempt, EnterAgent,
                  SendThrows, AgentAnswers, ApplyResult, Resume, ReturnAndClose, vars
    <2>2. CASE UNCHANGED vars
      BY <1>0, <2>2 DEF vars, TypeOK, CallType, SeenType, RecordType
    <2>3. CASE Next
      <3>1. Step
        BY <2>3, NextStep
      <3>2. record' \in RecordType
        BY <1>0, <3>1 DEF Step, Planned, Closes, Withdraws, Begins, Enters, Answers, Applies,
                          Attempt, CallShape, RecordType, Status
      <3>3. call' \in [Callers -> CallType] /\ seen' \in SeenType /\ faults' \in 0..MaxFaults
        BY <1>0, <3>1 DEF Step, Planned, Closes, Moves, Withdraws, Begins, Enters, Answers, Applies
      <3> QED BY <2>1, <3>2, <3>3 DEF TypeOK, CallType, SeenType, RecordType
    <2> QED BY <2>2, <2>3
  <1>2. ASSUME NEW d \in Callers PROVE CallShape(d)'
    <2>1. CASE UNCHANGED vars
      BY <1>0, <2>1 DEF vars, CallShape, InFlight
    <2>2. CASE Planned \/ Closes
      BY <1>0, <2>2 DEF Planned, Closes, CallShape, InFlight
    <2>3. ASSUME NEW c \in Callers, Moves(c),
                 Withdraws(c) \/ Begins(c) \/ Enters(c) \/ Answers(c) \/ Applies(c)
          PROVE  CallShape(d)'
      BY <1>0, <2>3 DEF Moves, Withdraws, Begins, Enters, Answers, Applies, Attempt,
                        CallShape, InFlight, RecordType
    <2> QED BY <2>1, <2>2, <2>3, NextStep DEF Step
  <1> QED BY <1>1, <1>2 DEF TypeInv

(* Every variable keeps its type, for any callers and any budget.          *)
THEOREM TypeCorrect == Spec => []TypeOK
  <1>1. TypeInv => TypeOK
    BY DEF TypeInv
  <1> QED BY <1>1, TypeInit, TypeStep, PTL DEF Spec
-----------------------------------------------------------------------------
(* The budget: an attempt of a recovery is counted in the record, and is   *)
(* only made while the record's count is below the budget.                 *)
BudgetInv ==
  /\ record.status = "none" => record.attempts = 0
  /\ seen.retries <= record.attempts /\ seen.retries <= MaxAttempts

LEMMA BudgetStep == TypeInv /\ BudgetInv /\ [Next]_vars => BudgetInv'
  <1> SUFFICES ASSUME TypeInv, BudgetInv, [Next]_vars PROVE BudgetInv'
    OBVIOUS
  <1>0. /\ record \in RecordType /\ seen \in SeenType /\ MaxAttempts \in Nat \ {0}
        /\ \A c \in Callers : CallShape(c)
    BY AgentTasksAssumption DEF TypeInv, TypeOK, RecordType, SeenType
  <1>1. CASE UNCHANGED vars
    BY <1>1 DEF vars, BudgetInv
  <1>2. CASE Planned \/ Closes
    BY <1>0, <1>2 DEF Planned, Closes, BudgetInv, RecordType
  <1>3. ASSUME NEW c \in Callers, Withdraws(c) \/ Enters(c) \/ Answers(c) \/ Applies(c)
        PROVE  BudgetInv'
    BY <1>0, <1>3 DEF Withdraws, Enters, Answers, Applies, BudgetInv, CallShape, RecordType
  <1>4. ASSUME NEW c \in Callers, Begins(c) PROVE BudgetInv'
    <2>1. /\ record'.status = "executing" /\ record'.attempts = record.attempts + 1
          /\ seen'.retries = seen.retries \/ seen'.retries = seen.retries + 1
      BY <1>0, <1>4 DEF Begins, Attempt, RecordType
    <2>2. seen'.retries = seen.retries + 1 => record.attempts < MaxAttempts
      <3>1. seen'.retries = seen.retries + 1 => c \in Recoveries
        BY <1>0, <1>4 DEF Begins, SeenType
      <3>2. Refusal = "none" => record.status = "none" \/ record.attempts < MaxAttempts
        BY <1>0 DEF Refusal, BudgetSpent, RecordType, Status
      <3> QED BY <1>0, <1>4, <3>1, <3>2 DEF Begins, BudgetInv
    <2> QED BY <1>0, <2>1, <2>2 DEF BudgetInv, RecordType, SeenType
  <1> QED BY <1>1, <1>2, <1>3, <1>4, NextStep DEF Step

(* Whatever overlaps, the recoveries of a task together make no more       *)
(* attempts than the budget one of them passes.                            *)
THEOREM BudgetKept == Spec => []RecoveryBudget
  <1>1. Init => BudgetInv
    BY AgentTasksAssumption DEF Init, BudgetInv
  <1>2. BudgetInv => RecoveryBudget
    BY DEF BudgetInv, RecoveryBudget
  <1> QED BY <1>1, <1>2, TypeInit, TypeStep, BudgetStep, PTL DEF Spec
-----------------------------------------------------------------------------
(* Completion: the record says completed, and a result on its way to it    *)
(* does, only of a task some report called a success.                      *)
TruthInv ==
  /\ record.status = "completed" => seen.succeeded
  /\ \A c \in Callers : call[c].pc = "returned" /\ call[c].result = "completed"
                         => seen.succeeded
  /\ CompletedIsTrue

LEMMA TruthStep == TypeInv /\ TruthInv /\ [Next]_vars => TruthInv'
  <1> SUFFICES ASSUME TypeInv, TruthInv, [Next]_vars PROVE TruthInv'
    OBVIOUS
  <1>0. record \in RecordType
    BY DEF TypeInv, TypeOK, RecordType
  <1> USE DEF TruthInv, CompletedIsTrue
  <1>1. CASE UNCHANGED vars
    BY <1>1 DEF vars
  <1>2. CASE Planned \/ Closes
    BY <1>0, <1>2 DEF Planned, Closes, RecordType
  <1>3. ASSUME NEW c \in Callers, Moves(c), Withdraws(c) PROVE TruthInv'
    BY <1>3 DEF Moves, Withdraws
  <1>4. ASSUME NEW c \in Callers, Moves(c), Begins(c) PROVE TruthInv'
    BY <1>4 DEF Moves, Begins, Attempt
  <1>5. ASSUME NEW c \in Callers, Moves(c), Enters(c) PROVE TruthInv'
    BY <1>5 DEF Moves, Enters
  <1>6. ASSUME NEW c \in Callers, Moves(c), Answers(c) PROVE TruthInv'
    BY <1>6 DEF Moves, Answers
  <1>7. ASSUME NEW c \in Callers, Moves(c), Applies(c) PROVE TruthInv'
    BY <1>0, <1>7 DEF Moves, Applies, RecordType
  <1> QED BY <1>1, <1>2, <1>3, <1>4, <1>5, <1>6, <1>7, NextStep DEF Step

(* A recovery is told "completed" only of a task that was reported a       *)
(* success, though its decision is read from the record long after.        *)
THEOREM DecisionsAreTrue == Spec => []CompletedIsTrue
  <1>1. Init => TruthInv
    BY DEF Init, TruthInv, CompletedIsTrue, NoCall
  <1>2. TruthInv => CompletedIsTrue
    BY DEF TruthInv
  <1> QED BY <1>1, <1>2, TypeInit, TypeStep, TruthStep, PTL DEF Spec
-----------------------------------------------------------------------------
(* No rework: while attempts do not overlap, the one call in flight owns   *)
(* the record, and a success is on its way to it or in it.                 *)
Working(c) == call[c].pc \in {"sending", "working"}
Bringing(c) == call[c].pc = "returned" /\ call[c].result = "completed"

LoneInv == ~seen.contested =>
  /\ ~seen.redone
  /\ \A c, d \in Callers : InFlight(c) /\ InFlight(d) => c = d
  /\ \A c \in Callers : Working(c) \/ call[c].pc = "returned" => record.status = "executing"
  /\ \A c \in Callers : Working(c) => ~seen.succeeded
  /\ seen.succeeded => record.status = "completed" \/ \E c \in Callers : Bringing(c)

LEMMA LoneStep == TypeInv /\ LoneInv /\ [Next]_vars => LoneInv'
  <1> SUFFICES ASSUME TypeInv, LoneInv, [Next]_vars PROVE LoneInv'
    OBVIOUS
  <1>0. /\ record \in RecordType /\ seen \in SeenType
        /\ \A c \in Callers : CallShape(c)
    BY DEF TypeInv, TypeOK, RecordType, SeenType
  <1> USE DEF LoneInv, Working, Bringing, InFlight
  <1>1. CASE UNCHANGED vars
    BY <1>1 DEF vars
  <1>2. CASE Planned
    BY <1>0, <1>2 DEF Planned, CallShape, RecordType
  <1>3. CASE Closes
    BY <1>0, <1>3 DEF Closes, CallShape
  <1>4. ASSUME NEW c \in Callers, Moves(c), Withdraws(c) PROVE LoneInv'
    BY <1>4 DEF Moves, Withdraws
  <1>5. ASSUME NEW c \in Callers, Moves(c), Begins(c) PROVE LoneInv'
    BY <1>5 DEF Moves, Begins, Attempt, MayExecute
  <1>6. ASSUME NEW c \in Callers, Moves(c), Enters(c) PROVE LoneInv'
    BY <1>6 DEF Moves, Enters
  <1>7. ASSUME NEW c \in Callers, Moves(c), Answers(c) PROVE LoneInv'
    BY <1>7 DEF Moves, Answers
  <1>8. ASSUME NEW c \in Callers, Moves(c), Applies(c) PROVE LoneInv'
    BY <1>0, <1>8 DEF Moves, Applies, RecordType
  <1> QED BY <1>1, <1>2, <1>3, <1>4, <1>5, <1>6, <1>7, <1>8, NextStep DEF Step

(* Work that succeeded is not handed to the agent again, as long as the    *)
(* attempts of the task do not overlap and it is reported on once.         *)
THEOREM WorkIsNotRedone == Spec => []CompletedNotRedone
  <1>1. Init => LoneInv
    BY DEF Init, LoneInv, NoCall, InFlight, Working, Bringing
  <1>2. LoneInv => CompletedNotRedone
    BY DEF LoneInv, CompletedNotRedone
  <1> QED BY <1>1, <1>2, TypeInit, TypeStep, LoneStep, PTL DEF Spec
=============================================================================
