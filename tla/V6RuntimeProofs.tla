-------------------------- MODULE V6RuntimeProofs --------------------------
(***************************************************************************)
(* Theorems about V6Runtime, for any number of processes, workflows and    *)
(* steps, any dependency relation and any bound on faults: types; what the *)
(* tables and the copies say is true of the provider; who owns a step, and *)
(* that no effect is repeated; how many calls are made; what the stored    *)
(* workflow keeps; and the refinement of OrderedExecution.                 *)
(***************************************************************************)
EXTENDS V6Runtime, FiniteSetTheorems, TLAPS

-----------------------------------------------------------------------------
(* The operators and the operations of the tables keep the types. *)

LEMMA CompiledType == Compiled \in Workflow
  BY DEF Compiled, Workflow, WorkflowStatus, StepStatus

LEMMA WithStepType ==
  ASSUME NEW flow \in Workflow, NEW s \in Steps, NEW status \in StepStatus
  PROVE  WithStep(flow, s, status) \in Workflow
  BY DEF WithStep, Workflow

LEMMA RunnableType ==
  ASSUME NEW w, NEW flow
  PROVE  RunnableStepIds(w, flow) \in SUBSET Steps
  BY DEF RunnableStepIds, StepsOf

LEMMA QueueType ==
  ASSUME queue \in [Steps -> QueueRow], NEW s \in Steps
  PROVE  /\ Enqueue(s) \/ ClaimRow(s) \/ CompleteRow(s) \/ FailRow(s)
              \/ RetryRow(s) => queue' \in [Steps -> QueueRow]
         /\ queue' = [queue EXCEPT ![s].ripe = TRUE]
              => queue' \in [Steps -> QueueRow]
  <1> USE DEF QueueRow, QueueStatus, SetStatus
  <1>1. Enqueue(s) => queue' \in [Steps -> QueueRow]
    BY DEF Enqueue
  <1>2. ClaimRow(s) => queue' \in [Steps -> QueueRow]
    BY DEF ClaimRow
  <1>3. CompleteRow(s) \/ FailRow(s) => queue' \in [Steps -> QueueRow]
    BY DEF CompleteRow, FailRow
  <1>4. RetryRow(s) => queue' \in [Steps -> QueueRow]
    BY DEF RetryRow
  <1>5. queue' = [queue EXCEPT ![s].ripe = TRUE] => queue' \in [Steps -> QueueRow]
    OBVIOUS
  <1> QED BY <1>1, <1>2, <1>3, <1>4, <1>5

LEMMA RecoverType ==
  ASSUME queue \in [Steps -> QueueRow], RecoverRows
  PROVE  queue' \in [Steps -> QueueRow]
  BY DEF RecoverRows, QueueRow, QueueStatus

LEMMA LedgerType ==
  ASSUME ledger \in [Steps -> LedgerRow], NEW s \in Steps
  PROVE  /\ CreateRow(s) \/ ResetRow(s) => ledger' \in [Steps -> LedgerRow]
         /\ \A result \in AgentResult : CompleteExecution(s, result) =>
                                          ledger' \in [Steps -> LedgerRow]
  <1>1. ASSUME NEW result \in AgentResult, CompleteExecution(s, result)
        PROVE  ledger' \in [Steps -> LedgerRow]
    <2>1. LedgerStatusOf(result) \in LedgerStatus
      BY DEF LedgerStatusOf, LedgerStatus, AgentResult
    <2>2. [status |-> LedgerStatusOf(result), executed |-> Executed(result),
           verified |-> result = "verified"] \in LedgerRow
      BY <2>1 DEF LedgerRow, Executed
    <2> QED BY <1>1, <2>2 DEF CompleteExecution
  <1>2. CreateRow(s) \/ ResetRow(s) => ledger' \in [Steps -> LedgerRow]
    BY DEF CreateRow, ResetRow, LedgerRow, LedgerStatus
  <1> QED BY <1>1, <1>2

LEMMA ProviderType ==
  ASSUME provider \in [Steps -> ProviderRow], NEW s \in Steps,
         NEW acted \in BOOLEAN, NEW verified \in BOOLEAN,
         Called(s, acted, verified)
  PROVE  provider' \in [Steps -> ProviderRow]
  <1> DEFINE e == IF acted THEN provider[s].effects + 1 ELSE provider[s].effects
             v == provider[s].verified \/ verified
             n == provider[s].calls + 1
             r == [provider[s] EXCEPT !.calls = n, !.effects = e, !.verified = v]
  <1>1. e \in Nat /\ n \in Nat
    BY DEF ProviderRow
  <1>2. v \in BOOLEAN
    OBVIOUS
  <1>3. provider' = [provider EXCEPT ![s] = r]
    BY DEF Called
  <1> HIDE DEF e, v, n
  <1>4. r \in ProviderRow
    BY <1>1, <1>2 DEF ProviderRow
  <1> HIDE DEF r
  <1> QED BY <1>3, <1>4

-----------------------------------------------------------------------------
(* Type correctness. CycleShape says which local fields a cycle may use at *)
(* each point; without it a row could be looked up for no step.            *)

CycleShape(c) ==
  /\ c.pc # "idle" => c.wf \in Workflows
  /\ c.pc \in HoldingPC => c.step \in Steps
  /\ c.pc \in {"insert", "claim"} => c.row \in Steps
  /\ c.pc \in {"record", "settle", "complete"} => c.result \in AgentResult
  /\ c.step \in Steps \cup {NoStep}
ShapedCycle == {c \in Cycle : CycleShape(c)}
TypeInv == TypeOK /\ proc \in [Procs -> ShapedCycle]

LEMMA IdleType == IdleCycle \in ShapedCycle
  BY CompiledType DEF IdleCycle, ShapedCycle, CycleShape, Cycle, PC, HoldingPC

LEMMA TypeInit == Init => TypeInv
  BY CompiledType, IdleType, RuntimeAssumption
  DEF Init, TypeInv, TypeOK, QueueInit, LedgerInit, QueueRow, QueueStatus,
      NoRow, LedgerRow, LedgerStatus, NoExecution, ProviderRow, ShapedCycle

(* A step that gives one process a well-shaped cycle keeps proc typed.     *)
LEMMA ProcType ==
  ASSUME proc \in [Procs -> ShapedCycle], NEW p \in Procs,
         NEW c \in ShapedCycle, proc' = [proc EXCEPT ![p] = c]
  PROVE  proc' \in [Procs -> Cycle] /\ proc' \in [Procs -> ShapedCycle]
  BY DEF ShapedCycle

LEMMA TypeStep == TypeInv /\ [Next]_vars => TypeInv'
  <1> SUFFICES ASSUME TypeInv, [Next]_vars PROVE TypeInv'
    OBVIOUS
  <1>0. /\ \A p \in Procs : proc[p] \in ShapedCycle
        /\ queue \in [Steps -> QueueRow] /\ ledger \in [Steps -> LedgerRow]
        /\ provider \in [Steps -> ProviderRow]
        /\ store \in [Workflows -> Workflow] /\ faults \in 0..MaxFaults
    BY DEF TypeInv, TypeOK
  <1> USE DEF At
  <1>1. ASSUME NEW p \in Procs, NEW w \in Workflows, StartCycle(p, w)
        PROVE  TypeInv'
    <2> DEFINE c == [IdleCycle EXCEPT !.pc = "recover", !.wf = w, !.flow = store[w]]
    <2>1. c \in ShapedCycle
      BY <1>0, <1>1 DEF StartCycle, IdleCycle, ShapedCycle, CycleShape,
         Cycle, PC, HoldingPC
    <2>2. proc' = [proc EXCEPT ![p] = c]
      BY <1>0, <1>1 DEF StartCycle, IdleCycle
    <2> HIDE DEF c
    <2> QED BY <1>1, <2>1, <2>2, IdleType, ProcType DEF TypeInv, TypeOK, StartCycle
  <1>2. ASSUME NEW p \in Procs, RecoverStaleClaims(p)
        PROVE  TypeInv'
    <2> DEFINE c == [proc[p] EXCEPT !.pc = "schedule", !.todo = RunnableStepIds(proc[p].wf, proc[p].flow)]
    <2>1. c \in ShapedCycle
      BY <1>0, <1>2, RunnableType DEF RecoverStaleClaims, ShapedCycle, CycleShape,
         Cycle, PC, HoldingPC
    <2>2. proc' = [proc EXCEPT ![p] = c]
      BY <1>0, <1>2 DEF RecoverStaleClaims
    <2> HIDE DEF c
    <2>3. queue' \in [Steps -> QueueRow]
      BY <1>0, <1>2, RecoverType DEF RecoverStaleClaims
    <2> QED BY <1>2, <2>1, <2>2, <2>3, IdleType, ProcType DEF TypeInv, TypeOK, RecoverStaleClaims
  <1>3. ASSUME NEW p \in Procs, NEW s \in Steps, LookUpRow(p, s)
        PROVE  TypeInv'
    <2>1. PICK c \in ShapedCycle : proc' = [proc EXCEPT ![p] = c]
      <3> DEFINE a == [proc[p] EXCEPT !.todo = @ \ {s}]
                 b == [proc[p] EXCEPT !.pc = "insert", !.row = s]
      <3>1. a \in ShapedCycle
        BY <1>0, <1>3 DEF LookUpRow, ShapedCycle, CycleShape,
           Cycle, PC, HoldingPC
      <3>2. b \in ShapedCycle
        BY <1>0, <1>3 DEF LookUpRow, ShapedCycle, CycleShape,
           Cycle, PC, HoldingPC
      <3>3. \/ proc' = [proc EXCEPT ![p] = a]
            \/ proc' = [proc EXCEPT ![p] = b]
        BY <1>0, <1>3 DEF LookUpRow
      <3> HIDE DEF a, b
      <3> QED BY IdleType, <3>1, <3>2, <3>3
    <2> QED BY <1>3, <2>1, IdleType, ProcType DEF TypeInv, TypeOK, LookUpRow
  <1>4. ASSUME NEW p \in Procs, ScheduleStep(p)
        PROVE  TypeInv'
    <2> DEFINE c == [proc[p] EXCEPT !.pc = "schedule", !.row = NoStep, !.todo = @ \ {proc[p].row}]
    <2>1. c \in ShapedCycle
      BY <1>0, <1>4 DEF ScheduleStep, ShapedCycle, CycleShape,
         Cycle, PC, HoldingPC
    <2>2. proc' = [proc EXCEPT ![p] = c]
      BY <1>0, <1>4 DEF ScheduleStep
    <2> HIDE DEF c
    <2>3. queue' \in [Steps -> QueueRow]
      BY <1>0, <1>4, QueueType DEF ScheduleStep, ShapedCycle, CycleShape, HoldingPC
    <2> QED BY <1>4, <2>1, <2>2, <2>3, IdleType, ProcType DEF TypeInv, TypeOK, ScheduleStep
  <1>5. ASSUME NEW p \in Procs, ScheduleDuplicate(p)
        PROVE  TypeInv'
    <2>1. PICK c \in ShapedCycle : proc' = [proc EXCEPT ![p] = c]
      <3> DEFINE a == [proc[p] EXCEPT !.pc = "schedule", !.row = NoStep, !.todo = @ \ {proc[p].row}]
      <3>1. a \in ShapedCycle
        BY <1>0, <1>5 DEF ScheduleDuplicate, EndCycle, ShapedCycle, CycleShape,
           Cycle, PC, HoldingPC
      <3>2. \/ proc' = [proc EXCEPT ![p] = IdleCycle]
            \/ proc' = [proc EXCEPT ![p] = a]
        BY <1>0, <1>5 DEF ScheduleDuplicate, EndCycle
      <3> HIDE DEF a
      <3> QED BY IdleType, <3>1, <3>2
    <2> QED BY <1>5, <2>1, IdleType, ProcType DEF TypeInv, TypeOK, ScheduleDuplicate
  <1>6. ASSUME NEW p \in Procs, ScheduleDone(p)
        PROVE  TypeInv'
    <2>1. PICK c \in ShapedCycle : proc' = [proc EXCEPT ![p] = c]
      <3> DEFINE a == [proc[p] EXCEPT !.pc = "pick"]
      <3>1. a \in ShapedCycle
        BY <1>0, <1>6 DEF ScheduleDone, Goto, EndCycle, ShapedCycle, CycleShape,
           Cycle, PC, HoldingPC
      <3>2. \/ proc' = [proc EXCEPT ![p] = a]
            \/ proc' = [proc EXCEPT ![p] = IdleCycle]
        BY <1>0, <1>6 DEF ScheduleDone, Goto, EndCycle
      <3> HIDE DEF a
      <3> QED BY IdleType, <3>1, <3>2
    <2> QED BY <1>6, <2>1, IdleType, ProcType DEF TypeInv, TypeOK, ScheduleDone
  <1>7. ASSUME NEW p \in Procs, NEW s \in Steps, PickCandidate(p, s)
        PROVE  TypeInv'
    <2> DEFINE c == [proc[p] EXCEPT !.pc = "claim", !.row = s]
    <2>1. c \in ShapedCycle
      BY <1>0, <1>7 DEF PickCandidate, ShapedCycle, CycleShape,
         Cycle, PC, HoldingPC
    <2>2. proc' = [proc EXCEPT ![p] = c]
      BY <1>0, <1>7 DEF PickCandidate
    <2> HIDE DEF c
    <2> QED BY <1>7, <2>1, <2>2, IdleType, ProcType DEF TypeInv, TypeOK, PickCandidate
  <1>8. ASSUME NEW p \in Procs, NothingToClaim(p)
        PROVE  TypeInv'
    <2> DEFINE c == [proc[p] EXCEPT !.pc = "save"]
    <2>1. c \in ShapedCycle
      BY <1>0, <1>8 DEF NothingToClaim, Goto, ShapedCycle, CycleShape,
         Cycle, PC, HoldingPC
    <2>2. proc' = [proc EXCEPT ![p] = c]
      BY <1>0, <1>8 DEF NothingToClaim, Goto
    <2> HIDE DEF c
    <2> QED BY <1>8, <2>1, <2>2, IdleType, ProcType DEF TypeInv, TypeOK, NothingToClaim
  <1>9. ASSUME NEW p \in Procs, ClaimNext(p)
        PROVE  TypeInv'
    <2>1. queue[proc[p].row].attempts + 1 \in Nat
      BY <1>0, <1>9 DEF ClaimNext, ShapedCycle, CycleShape, QueueRow
    <2> DEFINE c == [proc[p] EXCEPT !.pc = "run", !.row = NoStep, !.step = proc[p].row, !.tries = queue[proc[p].row].attempts + 1]
    <2>2. c \in ShapedCycle
      BY <1>0, <1>9, <2>1 DEF ClaimNext, ShapedCycle, CycleShape,
         Cycle, PC, HoldingPC
    <2>3. proc' = [proc EXCEPT ![p] = c]
      BY <1>0, <1>9 DEF ClaimNext
    <2> HIDE DEF c
    <2>4. queue' \in [Steps -> QueueRow]
      BY <1>0, <1>9, QueueType DEF ClaimNext, ShapedCycle, CycleShape, HoldingPC
    <2> QED BY <1>9, <2>2, <2>3, <2>4, IdleType, ProcType DEF TypeInv, TypeOK, ClaimNext
  <1>10. ASSUME NEW p \in Procs, ClaimLost(p)
        PROVE  TypeInv'
    <2> DEFINE c == [proc[p] EXCEPT !.pc = "save", !.row = NoStep]
    <2>1. c \in ShapedCycle
      BY <1>0, <1>10 DEF ClaimLost, ShapedCycle, CycleShape,
         Cycle, PC, HoldingPC
    <2>2. proc' = [proc EXCEPT ![p] = c]
      BY <1>0, <1>10 DEF ClaimLost
    <2> HIDE DEF c
    <2> QED BY <1>10, <2>1, <2>2, IdleType, ProcType DEF TypeInv, TypeOK, ClaimLost
  <1>11. ASSUME NEW p \in Procs, RunReadyStep(p)
        PROVE  TypeInv'
    <2>1. WithStep(proc[p].flow, proc[p].step, "RUNNING") \in Workflow
      BY <1>0, <1>11, WithStepType DEF RunReadyStep, StatusAfter, StepStatus, ShapedCycle, CycleShape,
         Cycle, HoldingPC
    <2> DEFINE c == [proc[p] EXCEPT !.pc = "begin", !.flow = WithStep(@, proc[p].step, "RUNNING")]
    <2>2. c \in ShapedCycle
      BY <1>0, <1>11, <2>1 DEF RunReadyStep, ShapedCycle, CycleShape,
         Cycle, PC, HoldingPC
    <2>3. proc' = [proc EXCEPT ![p] = c]
      BY <1>0, <1>11 DEF RunReadyStep
    <2> HIDE DEF c
    <2> QED BY <1>11, <2>2, <2>3, IdleType, ProcType DEF TypeInv, TypeOK, RunReadyStep
  <1>12. ASSUME NEW p \in Procs, RejectClaim(p)
        PROVE  TypeInv'
    <2> DEFINE c == [proc[p] EXCEPT !.pc = "save"]
    <2>1. c \in ShapedCycle
      BY <1>0, <1>12 DEF RejectClaim, Goto, ShapedCycle, CycleShape,
         Cycle, PC, HoldingPC
    <2>2. proc' = [proc EXCEPT ![p] = c]
      BY <1>0, <1>12 DEF RejectClaim, Goto
    <2> HIDE DEF c
    <2>3. queue' \in [Steps -> QueueRow]
      BY <1>0, <1>12, QueueType DEF RejectClaim, ShapedCycle, CycleShape, HoldingPC
    <2> QED BY <1>12, <2>1, <2>2, <2>3, IdleType, ProcType DEF TypeInv, TypeOK, RejectClaim
  <1>13. ASSUME NEW p \in Procs, BeginExecution(p)
        PROVE  TypeInv'
    <2> DEFINE answer == Begin(proc[p].step)
               known == [proc[p] EXCEPT !.pc = "settle", !.result = Recovered(proc[p].step)]
               blocked == [proc[p] EXCEPT !.pc = "settle", !.result = "blocked"]
               go == [proc[p] EXCEPT !.pc = answer]
    <2>1. answer \in {"create", "recover", "reset", "unresolved"}
      BY DEF Begin
    <2>2. Recovered(proc[p].step) \in AgentResult
      BY DEF Recovered, AgentResult
    <2>3. proc[p] \in ShapedCycle /\ proc[p].pc = "begin"
      BY <1>0, <1>13 DEF BeginExecution
    <2> HIDE DEF answer
    <2>4. known \in ShapedCycle
      BY <2>2, <2>3 DEF ShapedCycle, CycleShape, Cycle, PC, HoldingPC
    <2>5. blocked \in ShapedCycle
      BY <2>3 DEF ShapedCycle, CycleShape, Cycle, PC, HoldingPC, AgentResult
    <2>6. answer \in {"create", "reset"} => go \in ShapedCycle
      BY <2>3 DEF ShapedCycle, CycleShape, Cycle, PC, HoldingPC
    <2>7. \/ proc' = [proc EXCEPT ![p] = known]
          \/ proc' = [proc EXCEPT ![p] = blocked]
          \/ answer \in {"create", "reset"} /\ proc' = [proc EXCEPT ![p] = go]
      BY <1>13, <2>1 DEF BeginExecution, answer
    <2> HIDE DEF known, blocked, go
    <2> QED BY <1>13, <2>4, <2>5, <2>6, <2>7, ProcType DEF TypeInv, TypeOK, BeginExecution
  <1>14. ASSUME NEW p \in Procs, CreateExecution(p)
        PROVE  TypeInv'
    <2> DEFINE c == [proc[p] EXCEPT !.pc = "dispatch"]
    <2>1. c \in ShapedCycle
      BY <1>0, <1>14 DEF CreateExecution, Goto, ShapedCycle, CycleShape,
         Cycle, PC, HoldingPC
    <2>2. proc' = [proc EXCEPT ![p] = c]
      BY <1>0, <1>14 DEF CreateExecution, Goto
    <2> HIDE DEF c
    <2>3. ledger' \in [Steps -> LedgerRow]
      BY <1>0, <1>14, LedgerType DEF CreateExecution, ShapedCycle, CycleShape, HoldingPC
    <2> QED BY <1>14, <2>1, <2>2, <2>3, IdleType, ProcType DEF TypeInv, TypeOK, CreateExecution
  <1>15. ASSUME NEW p \in Procs, CreateRaceLost(p)
        PROVE  TypeInv'
    <2>1. proc' = [proc EXCEPT ![p] = IdleCycle]
      BY <1>0, <1>15 DEF CreateRaceLost, EndCycle
    <2> QED BY <1>15, <2>1, IdleType, ProcType DEF TypeInv, TypeOK, CreateRaceLost
  <1>16. ASSUME NEW p \in Procs, ResetFailedExecution(p)
        PROVE  TypeInv'
    <2> DEFINE c == [proc[p] EXCEPT !.pc = "dispatch"]
    <2>1. c \in ShapedCycle
      BY <1>0, <1>16 DEF ResetFailedExecution, Goto, ShapedCycle, CycleShape,
         Cycle, PC, HoldingPC
    <2>2. proc' = [proc EXCEPT ![p] = c]
      BY <1>0, <1>16 DEF ResetFailedExecution, Goto
    <2> HIDE DEF c
    <2>3. ledger' \in [Steps -> LedgerRow]
      BY <1>0, <1>16, LedgerType DEF ResetFailedExecution, ShapedCycle, CycleShape, HoldingPC
    <2> QED BY <1>16, <2>1, <2>2, <2>3, IdleType, ProcType DEF TypeInv, TypeOK, ResetFailedExecution
  <1>17. ASSUME NEW p \in Procs, BoundaryBlocks(p)
        PROVE  TypeInv'
    <2> DEFINE c == [proc[p] EXCEPT !.pc = "record", !.result = "blocked"]
    <2>1. c \in ShapedCycle
      BY <1>0, <1>17 DEF BoundaryBlocks, AgentResult, ShapedCycle, CycleShape,
         Cycle, PC, HoldingPC
    <2>2. proc' = [proc EXCEPT ![p] = c]
      BY <1>0, <1>17 DEF BoundaryBlocks, AgentResult
    <2> HIDE DEF c
    <2> QED BY <1>17, <2>1, <2>2, IdleType, ProcType DEF TypeInv, TypeOK, BoundaryBlocks
  <1>18. ASSUME NEW p \in Procs, NEW result \in Outcomes \ {"throws"}, ProviderAnswers(p, result)
        PROVE  TypeInv'
    <2>1. Executed(result) \in BOOLEAN /\ (result = "verified") \in BOOLEAN
      BY DEF Executed
    <2> DEFINE c == [proc[p] EXCEPT !.pc = "record", !.result = result]
    <2>2. c \in ShapedCycle
      BY <1>0, <1>18, RuntimeAssumption DEF ProviderAnswers, ShapedCycle, CycleShape,
         Cycle, PC, HoldingPC
    <2>3. proc' = [proc EXCEPT ![p] = c]
      BY <1>0, <1>18 DEF ProviderAnswers
    <2> HIDE DEF c
    <2>4. provider' \in [Steps -> ProviderRow]
      BY <1>0, <1>18, ProviderType, <2>1 DEF ProviderAnswers, ShapedCycle, CycleShape, HoldingPC
    <2> QED BY <1>18, <2>2, <2>3, <2>4, IdleType, ProcType DEF TypeInv, TypeOK, ProviderAnswers
  <1>19. ASSUME NEW p \in Procs, ProviderThrows(p)
        PROVE  TypeInv'
    <2>1. proc' = [proc EXCEPT ![p] = IdleCycle]
      BY <1>0, <1>19 DEF ProviderThrows, EndCycle
    <2>2. provider' \in [Steps -> ProviderRow]
      BY <1>0, <1>19, ProviderType DEF ProviderThrows, ShapedCycle, CycleShape, HoldingPC
    <2>3. faults' \in 0..MaxFaults
      BY <1>0, <1>19, RuntimeAssumption DEF ProviderThrows
    <2> QED BY <1>19, <2>1, <2>2, <2>3, IdleType, ProcType DEF TypeInv, TypeOK, ProviderThrows
  <1>20. ASSUME NEW p \in Procs, RecordExecution(p)
        PROVE  TypeInv'
    <2> DEFINE c == [proc[p] EXCEPT !.pc = "settle"]
    <2>1. c \in ShapedCycle
      BY <1>0, <1>20 DEF RecordExecution, Goto, ShapedCycle, CycleShape,
         Cycle, PC, HoldingPC
    <2>2. proc' = [proc EXCEPT ![p] = c]
      BY <1>0, <1>20 DEF RecordExecution, Goto
    <2> HIDE DEF c
    <2>3. ledger' \in [Steps -> LedgerRow]
      BY <1>0, <1>20, LedgerType DEF RecordExecution, ShapedCycle, CycleShape, HoldingPC
    <2> QED BY <1>20, <2>1, <2>2, <2>3, IdleType, ProcType DEF TypeInv, TypeOK, RecordExecution
  <1>21. ASSUME NEW p \in Procs, SettleExecuted(p)
        PROVE  TypeInv'
    <2> DEFINE done == [Settled(p) EXCEPT !.status = "COMPLETED"]
               flow == IF AllStepsCompleted(proc[p].wf, Settled(p)) THEN done
                       ELSE Settled(p)
               c == [proc[p] EXCEPT !.pc = "complete", !.flow = flow]
    <2>1. Settled(p) \in Workflow
      BY <1>0, <1>21, WithStepType DEF SettleExecuted, Settled, StatusAfter, StepStatus,
         ShapedCycle, CycleShape, Cycle, HoldingPC
    <2>2. flow \in Workflow
      BY <2>1 DEF Workflow, WorkflowStatus
    <2>3. proc[p].wf \in Workflows /\ store' = [store EXCEPT ![proc[p].wf] = flow]
          /\ proc' = [proc EXCEPT ![p] = c] /\ UNCHANGED <<queue, ledger, provider, faults>>
      BY <1>0, <1>21 DEF SettleExecuted, SaveWorkflow, ShapedCycle, CycleShape
    <2> HIDE DEF flow
    <2>4. store' \in [Workflows -> Workflow]
      BY <1>0, <2>2, <2>3
    <2>5. c \in ShapedCycle
      BY <1>0, <1>21, <2>2 DEF SettleExecuted, ShapedCycle, CycleShape, Cycle, PC, HoldingPC
    <2> HIDE DEF c
    <2> QED BY <2>3, <2>4, <2>5, ProcType DEF TypeInv, TypeOK
  <1>22. ASSUME NEW p \in Procs, CompleteClaim(p)
        PROVE  TypeInv'
    <2> DEFINE c == [proc[p] EXCEPT !.pc = "schedule", !.todo = RunnableStepIds(proc[p].wf, proc[p].flow)]
    <2>1. c \in ShapedCycle
      BY <1>0, <1>22, RunnableType DEF CompleteClaim, ShapedCycle, CycleShape,
         Cycle, PC, HoldingPC
    <2>2. proc' = [proc EXCEPT ![p] = c]
      BY <1>0, <1>22 DEF CompleteClaim
    <2> HIDE DEF c
    <2>3. queue' \in [Steps -> QueueRow]
      BY <1>0, <1>22, QueueType DEF CompleteClaim, ShapedCycle, CycleShape, HoldingPC
    <2> QED BY <1>22, <2>1, <2>2, <2>3, IdleType, ProcType DEF TypeInv, TypeOK, CompleteClaim
  <1>23. ASSUME NEW p \in Procs, SettleRetry(p)
        PROVE  TypeInv'
    <2>1. WithStep(proc[p].flow, proc[p].step, "READY") \in Workflow
      BY <1>0, <1>23, WithStepType DEF SettleRetry, StatusAfter, StepStatus, ShapedCycle, CycleShape,
         Cycle, HoldingPC
    <2> DEFINE c == [proc[p] EXCEPT !.pc = "save", !.flow = WithStep(@, proc[p].step, "READY")]
    <2>2. c \in ShapedCycle
      BY <1>0, <1>23, <2>1 DEF SettleRetry, ShapedCycle, CycleShape,
         Cycle, PC, HoldingPC
    <2>3. proc' = [proc EXCEPT ![p] = c]
      BY <1>0, <1>23 DEF SettleRetry
    <2> HIDE DEF c
    <2>4. queue' \in [Steps -> QueueRow]
      BY <1>0, <1>23, QueueType DEF SettleRetry, ShapedCycle, CycleShape, HoldingPC
    <2> QED BY <1>23, <2>2, <2>3, <2>4, IdleType, ProcType DEF TypeInv, TypeOK, SettleRetry
  <1>24. ASSUME NEW p \in Procs, RetryRefused(p)
        PROVE  TypeInv'
    <2>1. proc' = [proc EXCEPT ![p] = IdleCycle]
      BY <1>0, <1>24 DEF RetryRefused, EndCycle
    <2> QED BY <1>24, <2>1, IdleType, ProcType DEF TypeInv, TypeOK, RetryRefused
  <1>25. ASSUME NEW p \in Procs, SettleFailure(p)
        PROVE  TypeInv'
    <2>1. WithStep(proc[p].flow, proc[p].step, StatusAfter(proc[p].result)) \in Workflow
      BY <1>0, <1>25, WithStepType DEF SettleFailure, StatusAfter, StepStatus, ShapedCycle, CycleShape,
         Cycle, HoldingPC
    <2> DEFINE c == [proc[p] EXCEPT !.pc = "save", !.flow = Settled(p)]
    <2>2. c \in ShapedCycle
      BY <1>0, <1>25, <2>1 DEF SettleFailure, Settled, ShapedCycle, CycleShape,
         Cycle, PC, HoldingPC
    <2>3. proc' = [proc EXCEPT ![p] = c]
      BY <1>0, <1>25 DEF SettleFailure, Settled
    <2> HIDE DEF c
    <2>4. queue' \in [Steps -> QueueRow]
      BY <1>0, <1>25, QueueType DEF SettleFailure, ShapedCycle, CycleShape, HoldingPC
    <2> QED BY <1>25, <2>2, <2>3, <2>4, IdleType, ProcType DEF TypeInv, TypeOK, SettleFailure
  <1>26. ASSUME NEW p \in Procs, SaveAndFinish(p)
        PROVE  TypeInv'
    <2>1. proc' = [proc EXCEPT ![p] = IdleCycle]
      BY <1>0, <1>26 DEF SaveAndFinish, EndCycle
    <2>2. store' \in [Workflows -> Workflow]
      BY <1>0, <1>26 DEF SaveAndFinish, SaveWorkflow, ShapedCycle, CycleShape, Cycle
    <2> QED BY <1>26, <2>1, <2>2, IdleType, ProcType DEF TypeInv, TypeOK, SaveAndFinish
  <1>27. ASSUME NEW p \in Procs, Crash(p)
        PROVE  TypeInv'
    <2>1. proc' = [proc EXCEPT ![p] = IdleCycle]
      BY <1>0, <1>27 DEF Crash, EndCycle
    <2>2. faults' \in 0..MaxFaults
      BY <1>0, <1>27, RuntimeAssumption DEF Crash
    <2> QED BY <1>27, <2>1, <2>2, IdleType, ProcType DEF TypeInv, TypeOK, Crash
  <1>28. ASSUME NEW s \in Steps, TimePasses(s)
        PROVE  TypeInv'
    <2>1. queue' \in [Steps -> QueueRow]
      BY <1>0, <1>28, QueueType DEF TimePasses
    <2> QED BY <1>28, <2>1, RuntimeAssumption DEF TypeInv, TypeOK, TimePasses
  <1>29. ASSUME NEW s \in Steps, ClaimOutlived(s)
        PROVE  TypeInv'
    <2>1. queue' \in [Steps -> QueueRow]
      BY <1>0, <1>29, QueueType DEF ClaimOutlived
    <2> QED BY <1>29, <2>1, RuntimeAssumption DEF TypeInv, TypeOK, ClaimOutlived
  <1>30. CASE UNCHANGED vars
    BY <1>30 DEF vars, TypeInv, TypeOK
  <1> QED
    BY <1>1, <1>2, <1>3, <1>4, <1>5, <1>6, <1>7, <1>8, <1>9, <1>10, <1>11, <1>12, <1>13, <1>14, <1>15, <1>16, <1>17, <1>18, <1>19, <1>20, <1>21, <1>22, <1>23, <1>24, <1>25, <1>26, <1>27, <1>28, <1>29, <1>30
    DEF Next, CycleStep

(* Every table and every cycle keeps its declared shape, however many      *)
(* processes interleave.                                                   *)
THEOREM TypeCorrect == Spec => []TypeOK
  <1>1. TypeInv => TypeOK
    BY DEF TypeInv
  <1> QED
    BY <1>1, TypeInit, TypeStep, PTL DEF Spec
-----------------------------------------------------------------------------
(* What the workflow table says is true: DependenciesFirst and StoredTruth *)
(* hold for any provider behaviour, any crashes, and also when claims are  *)
(* outlived.                                                               *)
(*                                                                         *)
(* Neither is inductive. Every copy of a workflow (the stored one, and the *)
(* one each process works on, however old) must be true of the provider;   *)
(* so must a result on its way to a copy, and the ledger it may come from. *)

Verified == {s \in Steps : provider[s].verified}

FlowTruth(w, flow, V) ==
  \A s \in StepsOf(w) :
    flow.steps[s] = "COMPLETED" \/ flow.status = "COMPLETED" => s \in V

ToProvider == {"begin", "create", "reset", "dispatch"}
WithResult == {"record", "settle"}

CycleTruth(c, V) ==
  /\ c.pc # "idle" => FlowTruth(c.wf, c.flow, V)
  /\ c.pc \in ToProvider => DependsOn[c.step] \subseteq V
  /\ c.pc \in WithResult /\ c.result = "verified" => c.step \in V

TruthInv ==
  /\ \A s \in Steps : ledger[s].verified => s \in Verified
  /\ \A w \in Workflows : FlowTruth(w, store[w], Verified)
  /\ \A p \in Procs : CycleTruth(proc[p], Verified)

(* The steps that move a process without touching what TruthInv is about:  *)
(* it goes on with the copy it has, or its cycle ends.                     *)
QuietMove(p) ==
  /\ \A q \in Procs : q # p => proc'[q] = proc[q]
  /\ \/ proc'[p].pc = "idle"
     \/ /\ proc[p].pc # "idle"
        /\ proc'[p].pc \notin ToProvider \cup WithResult \cup {"complete"}
        /\ proc'[p].wf = proc[p].wf /\ proc'[p].flow = proc[p].flow
Quiet(p) == QuietMove(p) /\ UNCHANGED <<store, ledger, provider>>

QuietStep(p) ==
  \/ RecoverStaleClaims(p)
  \/ \E s \in Steps : LookUpRow(p, s) \/ PickCandidate(p, s)
  \/ ScheduleStep(p) \/ ScheduleDuplicate(p) \/ ScheduleDone(p)
  \/ NothingToClaim(p) \/ ClaimNext(p) \/ ClaimLost(p) \/ RejectClaim(p)
  \/ CreateRaceLost(p) \/ CompleteClaim(p) \/ RetryRefused(p) \/ Crash(p)

LEMMA QuietSteps ==
  ASSUME TypeInv, NEW p \in Procs, QuietStep(p)
  PROVE  Quiet(p)
  <1>0. proc \in [Procs -> ShapedCycle]
    BY DEF TypeInv
  <1> USE <1>0 DEF Quiet, QuietMove, ToProvider, WithResult, At, Goto, EndCycle,
                   IdleCycle, ShapedCycle, Cycle
  <1>1. CASE RecoverStaleClaims(p)
    BY <1>1 DEF RecoverStaleClaims
  <1>2. CASE \E s \in Steps : LookUpRow(p, s)
    BY <1>2 DEF LookUpRow
  <1>3. CASE \E s \in Steps : PickCandidate(p, s)
    BY <1>3 DEF PickCandidate
  <1>4. CASE ScheduleStep(p)
    BY <1>4 DEF ScheduleStep
  <1>5. CASE ScheduleDuplicate(p)
    BY <1>5 DEF ScheduleDuplicate
  <1>6. CASE ScheduleDone(p)
    BY <1>6 DEF ScheduleDone
  <1>7. CASE NothingToClaim(p)
    BY <1>7 DEF NothingToClaim
  <1>8. CASE ClaimNext(p)
    BY <1>8 DEF ClaimNext
  <1>9. CASE ClaimLost(p)
    BY <1>9 DEF ClaimLost
  <1>10. CASE RejectClaim(p)
    BY <1>10 DEF RejectClaim
  <1>11. CASE CreateRaceLost(p)
    BY <1>11 DEF CreateRaceLost
  <1>12. CASE CompleteClaim(p)
    BY <1>12 DEF CompleteClaim
  <1>13. CASE RetryRefused(p)
    BY <1>13 DEF RetryRefused
  <1>14. CASE Crash(p)
    BY <1>14 DEF Crash
  <1> QED
    BY <1>1, <1>2, <1>3, <1>4, <1>5, <1>6, <1>7, <1>8, <1>9, <1>10, <1>11,
       <1>12, <1>13, <1>14 DEF QuietStep

(* Verified only grows, and truth survives its growth.                     *)
LEMMA TruthGrows ==
  ASSUME NEW V, NEW W, V \subseteq W
  PROVE  /\ \A w, flow : FlowTruth(w, flow, V) => FlowTruth(w, flow, W)
         /\ \A c : CycleTruth(c, V) => CycleTruth(c, W)
  <1>1. \A w, flow : FlowTruth(w, flow, V) => FlowTruth(w, flow, W)
    BY DEF FlowTruth
  <1> QED BY <1>1 DEF CycleTruth

LEMMA QuietTruth ==
  ASSUME TruthInv, NEW p \in Procs, Quiet(p)
  PROVE  TruthInv'
  <1>1. Verified' = Verified
    BY DEF Quiet, Verified
  <1>2. CycleTruth(proc'[p], Verified)
    BY DEF Quiet, QuietMove, TruthInv, CycleTruth, ToProvider, WithResult
  <1>3. \A q \in Procs : CycleTruth(proc'[q], Verified)
    BY <1>2 DEF Quiet, QuietMove, TruthInv
  <1> QED BY <1>1, <1>3 DEF TruthInv, Quiet

(* One process gets the true cycle c; the other conjuncts are left to the  *)
(* caller.                                                                 *)
LEMMA ProcTruth ==
  ASSUME TypeInv, TruthInv, NEW p \in Procs, NEW c, CycleTruth(c, Verified'),
         proc' = [proc EXCEPT ![p] = c], Verified \subseteq Verified'
  PROVE  \A q \in Procs : CycleTruth(proc'[q], Verified')
  <1>1. ASSUME NEW q \in Procs, q # p PROVE CycleTruth(proc'[q], Verified')
    BY <1>1, TruthGrows DEF TruthInv, TypeInv
  <1>2. proc'[p] = c
    BY DEF TypeInv
  <1> QED BY <1>1, <1>2

LEMMA TruthInit == Init => TruthInv
  BY DEF Init, TruthInv, LedgerInit, NoExecution, FlowTruth, Compiled,
         CycleTruth, IdleCycle, ToProvider, WithResult, StepsOf

(* A settled copy is true: only a verified result completes a step.        *)
LEMMA SettledTruth ==
  ASSUME TypeInv, TruthInv, NEW p \in Procs, At(p, "settle")
  PROVE  /\ FlowTruth(proc[p].wf, Settled(p), Verified)
         /\ Settled(p) \in Workflow
  <1>1. proc[p] \in ShapedCycle /\ proc[p].pc = "settle"
    BY DEF TypeInv, At
  <1>2. /\ proc[p].step \in Steps /\ proc[p].flow \in Workflow
        /\ proc[p].result \in AgentResult
    BY <1>1 DEF ShapedCycle, CycleShape, Cycle, HoldingPC
  <1>3. StatusAfter(proc[p].result) \in StepStatus
        /\ (StatusAfter(proc[p].result) = "COMPLETED" => proc[p].result = "verified")
    BY <1>2 DEF StatusAfter, StepStatus, AgentResult
  <1>4. /\ FlowTruth(proc[p].wf, proc[p].flow, Verified)
        /\ proc[p].result = "verified" => proc[p].step \in Verified
    BY <1>1 DEF TruthInv, CycleTruth, WithResult
  <1>5. /\ Settled(p).status = proc[p].flow.status
        /\ Settled(p).steps = [proc[p].flow.steps EXCEPT
                                 ![proc[p].step] = StatusAfter(proc[p].result)]
    BY <1>2 DEF Settled, WithStep, Workflow
  <1>6. FlowTruth(proc[p].wf, Settled(p), Verified)
    BY <1>2, <1>3, <1>4, <1>5 DEF FlowTruth, StepsOf, Workflow
  <1> QED BY <1>2, <1>3, <1>6, WithStepType DEF Settled

LEMMA TruthStep == TypeInv /\ TypeInv' /\ TruthInv /\ [Next]_vars => TruthInv'
  <1> SUFFICES ASSUME TypeInv, TypeInv', TruthInv, [Next]_vars PROVE TruthInv'
    OBVIOUS
  <1>0. /\ proc \in [Procs -> ShapedCycle]
        /\ \A p \in Procs : proc[p] \in ShapedCycle /\ CycleTruth(proc[p], Verified)
    BY DEF TypeInv, TruthInv
  <1> USE DEF At
  <1>1. ASSUME NEW p \in Procs, QuietStep(p) PROVE TruthInv'
    BY <1>1, QuietSteps, QuietTruth
  <1>2. ASSUME NEW p \in Procs, NEW w \in Workflows, StartCycle(p, w)
        PROVE  TruthInv'
    <2> DEFINE c == [IdleCycle EXCEPT !.pc = "recover", !.wf = w, !.flow = store[w]]
    <2>1. proc' = [proc EXCEPT ![p] = c] /\ UNCHANGED <<ledger, store, provider>>
      BY <1>2 DEF StartCycle
    <2>2. Verified' = Verified
      BY <2>1 DEF Verified
    <2>3. CycleTruth(c, Verified)
      BY DEF CycleTruth, IdleCycle, ToProvider, WithResult, TruthInv
    <2> HIDE DEF c
    <2>4. \A q \in Procs : CycleTruth(proc'[q], Verified')
      BY <2>1, <2>2, <2>3, ProcTruth
    <2> QED BY <2>1, <2>2, <2>4 DEF TruthInv
  <1>3. ASSUME NEW p \in Procs, RunReadyStep(p)
        PROVE  TruthInv'
    <2> DEFINE flow == WithStep(proc[p].flow, proc[p].step, "RUNNING")
               c == [proc[p] EXCEPT !.pc = "begin", !.flow = flow]
    <2>1. proc' = [proc EXCEPT ![p] = c] /\ UNCHANGED <<ledger, store, provider>>
      BY <1>3 DEF RunReadyStep
    <2>2. Verified' = Verified
      BY <2>1 DEF Verified
    <2>3. /\ proc[p].step \in RunnableStepIds(proc[p].wf, proc[p].flow)
          /\ proc[p].pc = "run" /\ proc[p].flow \in Workflow
      BY <1>0, <1>3 DEF RunReadyStep, CanRun, ShapedCycle, Cycle
    <2>4. FlowTruth(proc[p].wf, proc[p].flow, Verified)
      BY <1>0, <2>3 DEF CycleTruth
    <2>5. /\ proc[p].step \in StepsOf(proc[p].wf)
          /\ \A d \in DependsOn[proc[p].step] : proc[p].flow.steps[d] = "COMPLETED"
      BY <2>3 DEF RunnableStepIds, DependenciesSatisfied
    <2>6. DependsOn[proc[p].step] \subseteq StepsOf(proc[p].wf)
      BY <2>5, EngineAssumption DEF StepsOf
    <2>7. DependsOn[proc[p].step] \subseteq Verified
      BY <2>4, <2>5, <2>6 DEF FlowTruth
    <2>8. FlowTruth(proc[p].wf, flow, Verified)
      BY <2>3, <2>4 DEF FlowTruth, WithStep, Workflow, StepsOf
    <2>9. CycleTruth(c, Verified)
      <3> HIDE DEF flow
      <3>1. /\ c.pc = "begin" /\ c.wf = proc[p].wf /\ c.step = proc[p].step
            /\ c.flow = flow
        BY <1>0 DEF ShapedCycle, Cycle
      <3> QED BY <3>1, <2>7, <2>8 DEF CycleTruth, WithResult
    <2> HIDE DEF c
    <2>10. \A q \in Procs : CycleTruth(proc'[q], Verified')
      BY <2>1, <2>2, <2>9, ProcTruth
    <2> QED BY <2>1, <2>2, <2>10 DEF TruthInv
  <1>4. ASSUME NEW p \in Procs, BeginExecution(p)
        PROVE  TruthInv'
    <2>1. /\ \A q \in Procs : q # p => proc'[q] = proc[q]
          /\ UNCHANGED <<ledger, store, provider>>
      BY <1>0, <1>4 DEF BeginExecution
    <2>2. Verified' = Verified
      BY <2>1 DEF Verified
    <2>3. /\ proc'[p].pc # "idle" /\ proc[p].pc = "begin" /\ proc[p].step \in Steps
          /\ proc'[p].wf = proc[p].wf /\ proc'[p].flow = proc[p].flow
          /\ proc'[p].step = proc[p].step
      BY <1>0, <1>4 DEF BeginExecution, Begin, ShapedCycle, CycleShape, HoldingPC, Cycle
    <2>4. proc'[p].pc \in WithResult /\ proc'[p].result = "verified"
            => ledger[proc[p].step].verified
      BY <1>0, <1>4 DEF BeginExecution, Begin, Recovered, ShapedCycle, Cycle, WithResult
    <2>5. CycleTruth(proc'[p], Verified)
      BY <1>0, <2>3, <2>4 DEF CycleTruth, TruthInv, ToProvider
    <2> QED BY <2>1, <2>2, <2>5 DEF TruthInv
  <1>5. ASSUME NEW p \in Procs, CreateExecution(p) \/ ResetFailedExecution(p)
        PROVE  TruthInv'
    <2>1. /\ \A q \in Procs : q # p => proc'[q] = proc[q]
          /\ UNCHANGED <<store, provider>>
          /\ proc'[p].pc = "dispatch" /\ proc[p].pc \in {"create", "reset"}
          /\ proc'[p].wf = proc[p].wf /\ proc'[p].flow = proc[p].flow
          /\ proc'[p].step = proc[p].step
      BY <1>0, <1>5 DEF CreateExecution, ResetFailedExecution, Goto, ShapedCycle, Cycle
    <2>2. Verified' = Verified
      BY <2>1 DEF Verified
    <2>3. \A s \in Steps : ledger'[s].verified = ledger[s].verified
      BY <1>5 DEF CreateExecution, ResetFailedExecution, CreateRow, ResetRow,
                  TypeInv, TypeOK, LedgerRow
    <2>4. CycleTruth(proc'[p], Verified)
      BY <1>0, <2>1 DEF CycleTruth, ToProvider, WithResult
    <2> QED BY <2>1, <2>2, <2>3, <2>4 DEF TruthInv
  <1>6. ASSUME NEW p \in Procs, BoundaryBlocks(p)
        PROVE  TruthInv'
    <2>1. /\ \A q \in Procs : q # p => proc'[q] = proc[q]
          /\ UNCHANGED <<store, provider, ledger>>
          /\ proc'[p].pc = "record" /\ proc[p].pc = "dispatch"
          /\ proc'[p].wf = proc[p].wf /\ proc'[p].flow = proc[p].flow
          /\ proc'[p].result = "blocked"
      BY <1>0, <1>6 DEF BoundaryBlocks, ShapedCycle, Cycle
    <2>2. Verified' = Verified
      BY <2>1 DEF Verified
    <2>3. CycleTruth(proc'[p], Verified)
      BY <1>0, <2>1 DEF CycleTruth, ToProvider, WithResult
    <2> QED BY <2>1, <2>2, <2>3 DEF TruthInv
  <1>7. ASSUME NEW p \in Procs, NEW result \in Outcomes \ {"throws"},
               ProviderAnswers(p, result)
        PROVE  TruthInv'
    <2>1. /\ \A q \in Procs : q # p => proc'[q] = proc[q]
          /\ UNCHANGED <<store, ledger>>
          /\ proc'[p].pc = "record" /\ proc[p].pc = "dispatch"
          /\ proc'[p].wf = proc[p].wf /\ proc'[p].flow = proc[p].flow
          /\ proc'[p].step = proc[p].step /\ proc'[p].result = result
          /\ proc[p].step \in Steps
      BY <1>0, <1>7 DEF ProviderAnswers, ShapedCycle, CycleShape, HoldingPC, Cycle
    <2>2. /\ Verified \subseteq Verified'
          /\ result = "verified" => proc[p].step \in Verified'
      BY <1>7, <2>1 DEF ProviderAnswers, Called, Verified, TypeInv, TypeOK, ProviderRow
    <2>3. CycleTruth(proc'[p], Verified')
      BY <1>0, <2>1, <2>2, TruthGrows DEF CycleTruth, ToProvider, WithResult
    <2>4. \A q \in Procs : CycleTruth(proc'[q], Verified')
      BY <1>0, <2>1, <2>2, <2>3, TruthGrows
    <2> QED BY <2>1, <2>2, <2>4, TruthGrows DEF TruthInv
  <1>8. ASSUME NEW p \in Procs, ProviderThrows(p)
        PROVE  TruthInv'
    <2>1. /\ \A q \in Procs : q # p => proc'[q] = proc[q]
          /\ UNCHANGED <<store, ledger>> /\ proc'[p] = IdleCycle
      BY <1>0, <1>8 DEF ProviderThrows, EndCycle
    <2>2. Verified \subseteq Verified'
      BY <1>0, <1>8 DEF ProviderThrows, Called, Verified, TypeInv, TypeOK, ProviderRow
    <2>3. CycleTruth(proc'[p], Verified')
      BY <2>1 DEF CycleTruth, IdleCycle, ToProvider, WithResult
    <2>4. \A q \in Procs : CycleTruth(proc'[q], Verified')
      BY <1>0, <2>1, <2>2, <2>3, TruthGrows
    <2> QED BY <2>1, <2>2, <2>4, TruthGrows DEF TruthInv
  <1>9. ASSUME NEW p \in Procs, RecordExecution(p)
        PROVE  TruthInv'
    <2>1. /\ \A q \in Procs : q # p => proc'[q] = proc[q]
          /\ UNCHANGED <<store, provider>>
          /\ proc'[p].pc = "settle" /\ proc[p].pc = "record"
          /\ proc'[p].wf = proc[p].wf /\ proc'[p].flow = proc[p].flow
          /\ proc'[p].step = proc[p].step /\ proc'[p].result = proc[p].result
          /\ proc[p].step \in Steps
      BY <1>0, <1>9 DEF RecordExecution, Goto, ShapedCycle, CycleShape, HoldingPC, Cycle
    <2>2. Verified' = Verified
      BY <2>1 DEF Verified
    <2>3. CycleTruth(proc'[p], Verified)
      BY <1>0, <2>1 DEF CycleTruth, ToProvider, WithResult
    <2>4. proc[p].result = "verified" => proc[p].step \in Verified
      BY <1>0, <2>1 DEF CycleTruth, WithResult
    <2>5. \A s \in Steps : ledger'[s].verified => s \in Verified
      BY <1>9, <2>1, <2>4 DEF RecordExecution, CompleteExecution, TruthInv, TypeInv,
                               TypeOK, LedgerRow
    <2> QED BY <2>1, <2>2, <2>3, <2>5 DEF TruthInv
  <1>10. ASSUME NEW p \in Procs, SettleExecuted(p)
         PROVE  TruthInv'
    <2> DEFINE flow == IF AllStepsCompleted(proc[p].wf, Settled(p))
                       THEN [Settled(p) EXCEPT !.status = "COMPLETED"]
                       ELSE Settled(p)
    <2>1. /\ proc[p].pc = "settle" /\ proc[p].wf \in Workflows
          /\ store' = [store EXCEPT ![proc[p].wf] = flow]
          /\ proc' = [proc EXCEPT ![p] = [proc[p] EXCEPT !.pc = "complete", !.flow = flow]]
          /\ UNCHANGED <<ledger, provider>>
      BY <1>0, <1>10 DEF SettleExecuted, SaveWorkflow, ShapedCycle, CycleShape
    <2>2. Verified' = Verified
      BY <2>1 DEF Verified
    <2>3. FlowTruth(proc[p].wf, flow, Verified)
      BY <2>1, SettledTruth DEF FlowTruth, AllStepsCompleted, Workflow
    <2> HIDE DEF flow
    <2>4. CycleTruth(proc'[p], Verified)
      BY <1>0, <2>1, <2>3 DEF CycleTruth, ToProvider, WithResult, ShapedCycle, Cycle
    <2>5. \A w \in Workflows : FlowTruth(w, store'[w], Verified)
      BY <2>1, <2>3 DEF TruthInv, TypeInv, TypeOK
    <2> QED BY <1>0, <2>1, <2>2, <2>4, <2>5 DEF TruthInv
  <1>11. ASSUME NEW p \in Procs, SettleRetry(p)
         PROVE  TruthInv'
    <2>1. /\ proc[p].pc = "settle" /\ proc[p].step \in Steps /\ proc[p].flow \in Workflow
          /\ UNCHANGED <<ledger, provider, store>>
          /\ \A q \in Procs : q # p => proc'[q] = proc[q]
          /\ proc'[p].pc = "save" /\ proc'[p].wf = proc[p].wf
          /\ proc'[p].flow = WithStep(proc[p].flow, proc[p].step, "READY")
      BY <1>0, <1>11 DEF SettleRetry, ShapedCycle, CycleShape, HoldingPC, Cycle
    <2>2. Verified' = Verified
      BY <2>1 DEF Verified
    <2>3. FlowTruth(proc[p].wf, proc'[p].flow, Verified)
      BY <1>0, <2>1 DEF CycleTruth, FlowTruth, WithStep, Workflow, StepsOf
    <2>4. CycleTruth(proc'[p], Verified)
      BY <2>1, <2>3 DEF CycleTruth, ToProvider, WithResult
    <2> QED BY <1>0, <2>1, <2>2, <2>4 DEF TruthInv
  <1>12. ASSUME NEW p \in Procs, SettleFailure(p)
         PROVE  TruthInv'
    <2>1. /\ proc[p].pc = "settle"
          /\ UNCHANGED <<ledger, provider, store>>
          /\ \A q \in Procs : q # p => proc'[q] = proc[q]
          /\ proc'[p].pc = "save" /\ proc'[p].wf = proc[p].wf
          /\ proc'[p].flow = Settled(p)
      BY <1>0, <1>12 DEF SettleFailure, ShapedCycle, Cycle
    <2>2. Verified' = Verified
      BY <2>1 DEF Verified
    <2>3. CycleTruth(proc'[p], Verified)
      BY <2>1, SettledTruth DEF CycleTruth, ToProvider, WithResult
    <2> QED BY <1>0, <2>1, <2>2, <2>3 DEF TruthInv
  <1>13. ASSUME NEW p \in Procs, SaveAndFinish(p)
         PROVE  TruthInv'
    <2>1. /\ proc[p].pc = "save" /\ proc[p].wf \in Workflows
          /\ store' = [store EXCEPT ![proc[p].wf] = proc[p].flow]
          /\ \A q \in Procs : q # p => proc'[q] = proc[q]
          /\ proc'[p] = IdleCycle /\ UNCHANGED <<ledger, provider>>
      BY <1>0, <1>13 DEF SaveAndFinish, SaveWorkflow, EndCycle, ShapedCycle, CycleShape
    <2>2. Verified' = Verified
      BY <2>1 DEF Verified
    <2>3. FlowTruth(proc[p].wf, proc[p].flow, Verified)
      BY <1>0, <2>1 DEF CycleTruth
    <2>4. \A w \in Workflows : FlowTruth(w, store'[w], Verified)
      BY <2>1, <2>3 DEF TruthInv, TypeInv, TypeOK
    <2>5. CycleTruth(proc'[p], Verified)
      BY <2>1 DEF CycleTruth, IdleCycle, ToProvider, WithResult
    <2> QED BY <1>0, <2>1, <2>2, <2>4, <2>5 DEF TruthInv
  <1>14. CASE (\E s \in Steps : TimePasses(s) \/ ClaimOutlived(s)) \/ UNCHANGED vars
    <2>1. UNCHANGED <<ledger, store, provider, proc>>
      BY <1>14 DEF TimePasses, ClaimOutlived, vars
    <2>2. Verified' = Verified
      BY <2>1 DEF Verified
    <2> QED BY <2>1, <2>2 DEF TruthInv
  <1> QED
    BY <1>1, <1>2, <1>3, <1>4, <1>5, <1>6, <1>7, <1>8, <1>9, <1>10, <1>11,
       <1>12, <1>13, <1>14
    DEF Next, CycleStep, QuietStep

LEMMA TruthAlways == Spec => [](TypeInv /\ TruthInv)
  BY TypeInit, TypeStep, TruthInit, TruthStep, PTL DEF Spec

(* A step reaches the provider only after the provider has verified every  *)
(* step it depends on, for any graph of dependencies, any number of        *)
(* processes with stale copies of the workflow, and any crashes.           *)
THEOREM DependenciesComeFirst == Spec => []DependenciesFirst
  <1>1. TypeInv /\ TruthInv => DependenciesFirst
    BY EngineAssumption
    DEF DependenciesFirst, At, TruthInv, CycleTruth, ToProvider, Verified, TypeInv
  <1> QED
    BY <1>1, TruthAlways, PTL

(* Whatever order the whole-workflow saves land in, a stored COMPLETED     *)
(* step was verified, and a stored COMPLETED workflow has only such steps. *)
THEOREM StoreTellsTruth == Spec => []StoredTruth
  <1>1. TypeInv /\ TruthInv => StoredTruth
    BY EngineAssumption DEF StoredTruth, TruthInv, FlowTruth, StepsOf, Verified
  <1> QED
    BY <1>1, TruthAlways, PTL

-----------------------------------------------------------------------------
(* Claims, effects and calls. One process at a time works on a step whose  *)
(* cycle does not outlive the staleness threshold, and after a call that   *)
(* may have had an effect it is never dispatched again, however slow the   *)
(* cycles of the other steps are; the calls made for any step are bounded. *)
(*                                                                         *)
(* The first needs that a held row is CLAIMED and not stale; the second    *)
(* that the ledger remembers every effect, which holds only because the    *)
(* ledger's unguarded writes are made by the one holder of the step. The   *)
(* last counts the calls that may still come, stale holders' included.     *)

Quick == Steps \ SlowSteps

HeldRowsClaimed ==
  \A p \in Procs, s \in Quick :
    Holds(p, s) => queue[s].status = "CLAIMED" /\ ~queue[s].ripe

OwnInv == HeldRowsClaimed /\ ClaimExclusive

LedgerRemembers ==
  \A s \in Quick :
    /\ ledger[s].status \in {"absent", "failed"} => ~ledger[s].executed
    /\ provider[s].effects > 0 => ledger[s].status = "executing" \/ ledger[s].executed

CycleEffect(p) == proc[p].step \in Quick =>
  /\ At(p, "reset") => ledger[proc[p].step].status = "failed"
  /\ At(p, "dispatch") => /\ ledger[proc[p].step].status = "executing"
                          /\ provider[proc[p].step].effects = 0
  /\ At(p, "record") /\ provider[proc[p].step].effects > 0 =>
       Executed(proc[p].result)

EffectInv == LedgerRemembers /\ \A p \in Procs : CycleEffect(p)
-----------------------------------------------------------------------------
(* Ownership *)

(* Process p goes on holding what it held, or lets go; no row changes.     *)
KeepsHold(p) ==
  /\ \A q \in Procs : q # p => proc'[q] = proc[q]
  /\ \/ proc'[p].pc \notin HoldingPC
     \/ proc'[p].step = proc[p].step /\ proc[p].pc \in HoldingPC
  /\ UNCHANGED queue

KeepStep(p) ==
  \/ \E w \in Workflows : StartCycle(p, w)
  \/ \E s \in Steps : LookUpRow(p, s) \/ PickCandidate(p, s)
  \/ ScheduleDuplicate(p) \/ ScheduleDone(p) \/ NothingToClaim(p)
  \/ ClaimLost(p) \/ RunReadyStep(p) \/ BeginExecution(p)
  \/ CreateExecution(p) \/ CreateRaceLost(p) \/ ResetFailedExecution(p)
  \/ BoundaryBlocks(p)
  \/ \E result \in Outcomes \ {"throws"} : ProviderAnswers(p, result)
  \/ ProviderThrows(p) \/ RecordExecution(p) \/ SettleExecuted(p)
  \/ RetryRefused(p) \/ SaveAndFinish(p) \/ Crash(p)

(* Process p lets go of its step; only that step's row changes.            *)
Releases(p) ==
  /\ proc[p].pc \in HoldingPC /\ proc[p].step \in Steps
  /\ \A q \in Procs : q # p => proc'[q] = proc[q]
  /\ proc'[p].pc \notin HoldingPC
  /\ \A s \in Steps : s # proc[p].step => queue'[s] = queue[s]

ReleaseStep(p) ==
  RejectClaim(p) \/ CompleteClaim(p) \/ SettleRetry(p) \/ SettleFailure(p)

LEMMA KeepSteps ==
  ASSUME TypeInv, NEW p \in Procs, KeepStep(p)
  PROVE  KeepsHold(p)
  <1>0. proc \in [Procs -> ShapedCycle]
    BY DEF TypeInv
  <1> USE <1>0 DEF KeepsHold, HoldingPC, At, Goto, EndCycle, IdleCycle, ShapedCycle, Cycle
  <1>1. CASE \E w \in Workflows : StartCycle(p, w)
    BY <1>1 DEF StartCycle
  <1>2. CASE \E s \in Steps : LookUpRow(p, s)
    BY <1>2 DEF LookUpRow
  <1>3. CASE \E s \in Steps : PickCandidate(p, s)
    BY <1>3 DEF PickCandidate
  <1>4. CASE ScheduleDuplicate(p)
    BY <1>4 DEF ScheduleDuplicate
  <1>5. CASE ScheduleDone(p)
    BY <1>5 DEF ScheduleDone
  <1>6. CASE NothingToClaim(p)
    BY <1>6 DEF NothingToClaim
  <1>7. CASE ClaimLost(p)
    BY <1>7 DEF ClaimLost
  <1>8. CASE RunReadyStep(p)
    BY <1>8 DEF RunReadyStep
  <1>9. CASE BeginExecution(p)
    BY <1>9 DEF BeginExecution
  <1>10. CASE CreateExecution(p)
    BY <1>10 DEF CreateExecution
  <1>11. CASE CreateRaceLost(p)
    BY <1>11 DEF CreateRaceLost
  <1>12. CASE ResetFailedExecution(p)
    BY <1>12 DEF ResetFailedExecution
  <1>13. CASE BoundaryBlocks(p)
    BY <1>13 DEF BoundaryBlocks
  <1>14. CASE \E result \in Outcomes \ {"throws"} : ProviderAnswers(p, result)
    BY <1>14 DEF ProviderAnswers
  <1>15. CASE ProviderThrows(p)
    BY <1>15 DEF ProviderThrows
  <1>16. CASE RecordExecution(p)
    BY <1>16 DEF RecordExecution
  <1>17. CASE SettleExecuted(p)
    BY <1>17 DEF SettleExecuted
  <1>18. CASE RetryRefused(p)
    BY <1>18 DEF RetryRefused
  <1>19. CASE SaveAndFinish(p)
    BY <1>19 DEF SaveAndFinish
  <1>20. CASE Crash(p)
    BY <1>20 DEF Crash
  <1> QED
    BY <1>1, <1>2, <1>3, <1>4, <1>5, <1>6, <1>7, <1>8, <1>9, <1>10, <1>11,
       <1>12, <1>13, <1>14, <1>15, <1>16, <1>17, <1>18, <1>19, <1>20 DEF KeepStep

LEMMA ReleaseSteps ==
  ASSUME TypeInv, NEW p \in Procs, ReleaseStep(p)
  PROVE  Releases(p)
  <1>0. proc \in [Procs -> ShapedCycle] /\ queue \in [Steps -> QueueRow]
    BY DEF TypeInv, TypeOK
  <1> USE <1>0 DEF Releases, HoldingPC, At, Goto, ShapedCycle, CycleShape, Cycle, SetStatus
  <1>1. CASE RejectClaim(p)
    BY <1>1 DEF RejectClaim, FailRow
  <1>2. CASE CompleteClaim(p)
    BY <1>2 DEF CompleteClaim, CompleteRow
  <1>3. CASE SettleRetry(p)
    BY <1>3 DEF SettleRetry, RetryRow
  <1>4. CASE SettleFailure(p)
    BY <1>4 DEF SettleFailure, FailRow
  <1> QED BY <1>1, <1>2, <1>3, <1>4 DEF ReleaseStep

LEMMA OwnInit == Init => OwnInv
  BY DEF Init, OwnInv, HeldRowsClaimed, ClaimExclusive, Holds, IdleCycle, HoldingPC

LEMMA OwnStep == TypeInv /\ OwnInv /\ [Next]_vars => OwnInv'
  <1> SUFFICES ASSUME TypeInv, OwnInv, [Next]_vars PROVE OwnInv'
    OBVIOUS
  <1>0. proc \in [Procs -> ShapedCycle] /\ queue \in [Steps -> QueueRow]
    BY DEF TypeInv, TypeOK
  <1>1. ASSUME NEW p \in Procs, KeepStep(p) PROVE OwnInv'
    <2>1. KeepsHold(p)
      BY <1>1, KeepSteps
    <2>2. \A q \in Procs, s \in Steps : Holds(q, s)' => Holds(q, s)
      BY <2>1 DEF KeepsHold, Holds
    <2> QED BY <2>1, <2>2 DEF OwnInv, HeldRowsClaimed, ClaimExclusive, Quick, KeepsHold
  <1>2. ASSUME NEW p \in Procs, ReleaseStep(p) PROVE OwnInv'
    <2>1. Releases(p)
      BY <1>2, ReleaseSteps
    <2>2. Holds(p, proc[p].step)
      BY <2>1 DEF Releases, Holds
    <2>3. \A q \in Procs, s \in Quick :
            Holds(q, s)' => Holds(q, s) /\ s # proc[p].step
      BY <2>1, <2>2 DEF Releases, Holds, OwnInv, ClaimExclusive, Quick
    <2> QED BY <2>1, <2>3 DEF OwnInv, HeldRowsClaimed, ClaimExclusive, Quick, Releases
  <1>3. ASSUME NEW p \in Procs, RecoverStaleClaims(p) PROVE OwnInv'
    <2>1. \A q \in Procs, s \in Steps : Holds(q, s)' => Holds(q, s)
      BY <1>0, <1>3 DEF RecoverStaleClaims, Holds, HoldingPC, ShapedCycle, Cycle
    <2>2. \A s \in Steps : ~queue[s].ripe => queue'[s] = queue[s]
      BY <1>3 DEF RecoverStaleClaims, RecoverRows, StaleClaims
    <2> QED BY <2>1, <2>2 DEF OwnInv, HeldRowsClaimed, ClaimExclusive, Quick
  <1>4. ASSUME NEW p \in Procs, ScheduleStep(p) PROVE OwnInv'
    <2>1. \A q \in Procs, s \in Steps : Holds(q, s)' => Holds(q, s)
      BY <1>0, <1>4 DEF ScheduleStep, Holds, HoldingPC, ShapedCycle, Cycle
    <2>2. \A s \in Steps : queue[s].status # "ABSENT" => queue'[s] = queue[s]
      BY <1>0, <1>4 DEF ScheduleStep, Enqueue
    <2> QED BY <2>1, <2>2 DEF OwnInv, HeldRowsClaimed, ClaimExclusive, Quick
  <1>5. ASSUME NEW p \in Procs, ClaimNext(p) PROVE OwnInv'
    <2> DEFINE r == proc[p].row
    <2>1. /\ r \in Steps /\ queue[r].status = "QUEUED"
          /\ \A q \in Procs : q # p => proc'[q] = proc[q]
          /\ proc'[p].step = r
      BY <1>0, <1>5 DEF ClaimNext, At, ClaimRow, Claimable, ShapedCycle, CycleShape, Cycle
    <2>2. /\ \A s \in Steps : s # r => queue'[s] = queue[s]
          /\ queue'[r].status = "CLAIMED" /\ ~queue'[r].ripe
      BY <1>0, <1>5, <2>1 DEF ClaimNext, ClaimRow, QueueRow
    <2>3. r \in Quick => \A q \in Procs : ~Holds(q, r)
      BY <2>1 DEF OwnInv, HeldRowsClaimed
    <2> HIDE DEF r
    <2>4. \A q \in Procs, s \in Quick :
            Holds(q, s)' => (q = p /\ s = r) \/ (q # p /\ s # r /\ Holds(q, s))
      BY <2>1, <2>3 DEF Holds
    <2> QED BY <2>2, <2>4 DEF OwnInv, HeldRowsClaimed, ClaimExclusive, Quick
  <1>6. ASSUME NEW s \in Steps, TimePasses(s) \/ ClaimOutlived(s) PROVE OwnInv'
    <2>1. \A q \in Procs, r \in Steps : Holds(q, r)' <=> Holds(q, r)
      BY <1>6 DEF TimePasses, ClaimOutlived, Holds
    <2>2. \A r \in Steps : r # s => queue'[r] = queue[r]
      BY <1>0, <1>6 DEF TimePasses, ClaimOutlived
    <2>3. s \in Quick => \A q \in Procs : ~Holds(q, s)
      BY <1>6 DEF TimePasses, ClaimOutlived, Held, Quick, OwnInv, HeldRowsClaimed
    <2> QED BY <2>1, <2>2, <2>3 DEF OwnInv, HeldRowsClaimed, ClaimExclusive, Quick
  <1>7. CASE UNCHANGED vars
    BY <1>7 DEF vars, OwnInv, HeldRowsClaimed, ClaimExclusive, Quick, Holds
  <1> QED
    BY <1>1, <1>2, <1>3, <1>4, <1>5, <1>6, <1>7
    DEF Next, CycleStep, KeepStep, ReleaseStep

(* Two processes never work on the same step, if its cycle does not        *)
(* outlive the staleness threshold, whatever crashes and recoveries happen *)
(* and however slow the cycles of other steps are.                         *)
THEOREM ClaimsAreExclusive == Spec => []ClaimExclusive
  <1>1. OwnInv => ClaimExclusive
    BY DEF OwnInv
  <1> QED
    BY <1>1, TypeInit, TypeStep, OwnInit, OwnStep, PTL DEF Spec
-----------------------------------------------------------------------------
(* Effects *)

(* Process p moves on, away from the points CycleEffect speaks of, and     *)
(* neither the ledger nor the provider changes.                            *)
EffectFree(p) ==
  /\ \A q \in Procs : q # p => proc'[q] = proc[q]
  /\ proc'[p].pc \notin {"reset", "dispatch", "record"}
  /\ UNCHANGED <<ledger, provider>>

FreeStep(p) ==
  \/ \E w \in Workflows : StartCycle(p, w)
  \/ RecoverStaleClaims(p)
  \/ \E s \in Steps : LookUpRow(p, s) \/ PickCandidate(p, s)
  \/ ScheduleStep(p) \/ ScheduleDuplicate(p) \/ ScheduleDone(p)
  \/ NothingToClaim(p) \/ ClaimNext(p) \/ ClaimLost(p) \/ RunReadyStep(p)
  \/ CreateRaceLost(p) \/ RetryRefused(p) \/ SettleExecuted(p)
  \/ ReleaseStep(p) \/ SaveAndFinish(p) \/ Crash(p)

LEMMA FreeSteps ==
  ASSUME TypeInv, NEW p \in Procs, FreeStep(p)
  PROVE  EffectFree(p)
  <1>0. proc \in [Procs -> ShapedCycle]
    BY DEF TypeInv
  <1> USE <1>0 DEF EffectFree, At, Goto, EndCycle, IdleCycle, ShapedCycle, Cycle
  <1>1. CASE \E w \in Workflows : StartCycle(p, w)
    BY <1>1 DEF StartCycle
  <1>2. CASE RecoverStaleClaims(p)
    BY <1>2 DEF RecoverStaleClaims
  <1>3. CASE \E s \in Steps : LookUpRow(p, s)
    BY <1>3 DEF LookUpRow
  <1>4. CASE \E s \in Steps : PickCandidate(p, s)
    BY <1>4 DEF PickCandidate
  <1>5. CASE ScheduleStep(p)
    BY <1>5 DEF ScheduleStep
  <1>6. CASE ScheduleDuplicate(p)
    BY <1>6 DEF ScheduleDuplicate
  <1>7. CASE ScheduleDone(p)
    BY <1>7 DEF ScheduleDone
  <1>8. CASE NothingToClaim(p)
    BY <1>8 DEF NothingToClaim
  <1>9. CASE ClaimNext(p)
    BY <1>9 DEF ClaimNext
  <1>10. CASE ClaimLost(p)
    BY <1>10 DEF ClaimLost
  <1>11. CASE RunReadyStep(p)
    BY <1>11 DEF RunReadyStep
  <1>12. CASE CreateRaceLost(p)
    BY <1>12 DEF CreateRaceLost
  <1>13. CASE RetryRefused(p)
    BY <1>13 DEF RetryRefused
  <1>14. CASE SettleExecuted(p)
    BY <1>14 DEF SettleExecuted
  <1>15. CASE RejectClaim(p)
    BY <1>15 DEF RejectClaim
  <1>16. CASE CompleteClaim(p)
    BY <1>16 DEF CompleteClaim
  <1>17. CASE SettleRetry(p)
    BY <1>17 DEF SettleRetry
  <1>18. CASE SettleFailure(p)
    BY <1>18 DEF SettleFailure
  <1>19. CASE SaveAndFinish(p)
    BY <1>19 DEF SaveAndFinish
  <1>20. CASE Crash(p)
    BY <1>20 DEF Crash
  <1> QED
    BY <1>1, <1>2, <1>3, <1>4, <1>5, <1>6, <1>7, <1>8, <1>9, <1>10, <1>11, <1>12,
       <1>13, <1>14, <1>15, <1>16, <1>17, <1>18, <1>19, <1>20 DEF FreeStep, ReleaseStep

LEMMA EffectInit == Init => EffectInv
  BY DEF Init, EffectInv, LedgerRemembers, CycleEffect, LedgerInit, NoExecution,
         IdleCycle, At, Quick

(* What the holder p of a step does to that step's rows leaves what        *)
(* CycleEffect says of every other process alone.                          *)
LEMMA OthersUnaffected ==
  ASSUME TypeInv, OwnInv, EffectInv, NEW p \in Procs,
         proc[p].pc \in HoldingPC, proc[p].step \in Steps,
         \A q \in Procs : q # p => proc'[q] = proc[q],
         \A s \in Steps : s # proc[p].step =>
            ledger'[s] = ledger[s] /\ provider'[s] = provider[s]
  PROVE  \A q \in Procs : q # p => CycleEffect(q)'
  <1> SUFFICES ASSUME NEW q \in Procs, q # p PROVE CycleEffect(q)'
    OBVIOUS
  <1>2. proc[q].pc \in HoldingPC /\ proc[q].step \in Quick =>
          proc[q].step # proc[p].step
    BY DEF OwnInv, ClaimExclusive, Holds, Quick
  <1> QED
    BY <1>2 DEF EffectInv, CycleEffect, At, HoldingPC, Quick

LEMMA EffectStep ==
  TypeInv /\ OwnInv /\ EffectInv /\ [Next]_vars => EffectInv'
  <1> SUFFICES ASSUME TypeInv, OwnInv, EffectInv, [Next]_vars PROVE EffectInv'
    OBVIOUS
  <1>0. /\ proc \in [Procs -> ShapedCycle]
        /\ ledger \in [Steps -> LedgerRow] /\ provider \in [Steps -> ProviderRow]
    BY DEF TypeInv, TypeOK
  <1>1. ASSUME NEW p \in Procs, FreeStep(p) PROVE EffectInv'
    BY <1>1, FreeSteps DEF EffectFree, EffectInv, LedgerRemembers, CycleEffect, At
  <1>2. ASSUME NEW p \in Procs, BeginExecution(p) PROVE EffectInv'
    <2>1. /\ \A q \in Procs : q # p => proc'[q] = proc[q]
          /\ UNCHANGED <<ledger, provider>>
          /\ proc'[p].step = proc[p].step
          /\ proc'[p].pc \notin {"dispatch", "record"}
          /\ proc'[p].pc = "reset" => ledger[proc[p].step].status = "failed"
      BY <1>0, <1>2 DEF BeginExecution, Begin, ShapedCycle, Cycle
    <2> QED BY <2>1 DEF EffectInv, LedgerRemembers, CycleEffect, At
  <1>3. ASSUME NEW p \in Procs, CreateExecution(p) \/ ResetFailedExecution(p)
        PROVE  EffectInv'
    <2> DEFINE s == proc[p].step
    <2>1. /\ proc[p].pc \in {"create", "reset"} /\ s \in Steps
          /\ \A q \in Procs : q # p => proc'[q] = proc[q]
          /\ proc'[p].step = s /\ proc'[p].pc = "dispatch" /\ UNCHANGED provider
      BY <1>0, <1>3 DEF CreateExecution, ResetFailedExecution, Goto, At, ShapedCycle,
                        CycleShape, HoldingPC, Cycle
    <2>2. /\ s \in Quick => ledger[s].status \in {"absent", "failed"}
          /\ ledger'[s].status = "executing" /\ ledger'[s].executed = ledger[s].executed
          /\ \A t \in Steps : t # s => ledger'[t] = ledger[t]
      BY <1>0, <1>3, <2>1 DEF CreateExecution, ResetFailedExecution, CreateRow, ResetRow,
                        At, EffectInv, CycleEffect, LedgerRow
    <2>3. s \in Quick => provider[s].effects = 0
      BY <1>0, <2>1, <2>2 DEF EffectInv, LedgerRemembers, ProviderRow
    <2> HIDE DEF s
    <2>4. LedgerRemembers'
      BY <2>1, <2>2 DEF EffectInv, LedgerRemembers, Quick
    <2>5. CycleEffect(p)'
      BY <2>1, <2>2, <2>3 DEF CycleEffect, At
    <2>6. \A q \in Procs : q # p => CycleEffect(q)'
      BY <2>1, <2>2, OthersUnaffected DEF s, HoldingPC
    <2> QED BY <2>4, <2>5, <2>6 DEF EffectInv
  <1>4. ASSUME NEW p \in Procs, BoundaryBlocks(p) PROVE EffectInv'
    <2>1. /\ proc[p].pc = "dispatch" /\ UNCHANGED <<ledger, provider>>
          /\ \A q \in Procs : q # p => proc'[q] = proc[q]
          /\ proc'[p].step = proc[p].step /\ proc'[p].pc = "record"
      BY <1>0, <1>4 DEF BoundaryBlocks, At, ShapedCycle, Cycle
    <2>2. CycleEffect(p)'
      BY <2>1 DEF EffectInv, CycleEffect, At
    <2> QED BY <2>1, <2>2 DEF EffectInv, LedgerRemembers, CycleEffect, At
  <1>5. ASSUME NEW p \in Procs, NEW result \in Outcomes \ {"throws"},
               ProviderAnswers(p, result)
        PROVE  EffectInv'
    <2> DEFINE s == proc[p].step
    <2>1. /\ proc[p].pc = "dispatch" /\ s \in Steps /\ UNCHANGED ledger
          /\ \A q \in Procs : q # p => proc'[q] = proc[q]
          /\ proc'[p].step = s /\ proc'[p].pc = "record" /\ proc'[p].result = result
      BY <1>0, <1>5 DEF ProviderAnswers, At, ShapedCycle, CycleShape, HoldingPC, Cycle
    <2>2. s \in Quick => ledger[s].status = "executing" /\ provider[s].effects = 0
      BY <2>1 DEF EffectInv, CycleEffect, At
    <2>3. /\ \A t \in Steps : t # s => provider'[t] = provider[t]
          /\ s \in Quick /\ provider'[s].effects > 0 => Executed(result)
      BY <1>0, <1>5, <2>1, <2>2 DEF ProviderAnswers, Called, ProviderRow
    <2> HIDE DEF s
    <2>4. LedgerRemembers'
      BY <2>1, <2>2, <2>3 DEF EffectInv, LedgerRemembers, Quick
    <2>5. CycleEffect(p)'
      BY <2>1, <2>3 DEF CycleEffect, At
    <2>6. \A q \in Procs : q # p => CycleEffect(q)'
      BY <2>1, <2>3, OthersUnaffected DEF s, HoldingPC
    <2> QED BY <2>4, <2>5, <2>6 DEF EffectInv
  <1>6. ASSUME NEW p \in Procs, ProviderThrows(p) PROVE EffectInv'
    <2> DEFINE s == proc[p].step
    <2>1. /\ proc[p].pc = "dispatch" /\ s \in Steps /\ UNCHANGED ledger
          /\ \A q \in Procs : q # p => proc'[q] = proc[q]
          /\ proc'[p].pc = "idle"
      BY <1>0, <1>6 DEF ProviderThrows, EndCycle, IdleCycle, At, ShapedCycle, CycleShape,
                        HoldingPC, Cycle
    <2>2. s \in Quick => ledger[s].status = "executing"
      BY <2>1 DEF EffectInv, CycleEffect, At
    <2>3. \A t \in Steps : t # s => provider'[t] = provider[t]
      BY <1>0, <1>6, <2>1 DEF ProviderThrows, Called
    <2> HIDE DEF s
    <2>4. LedgerRemembers'
      BY <2>1, <2>2, <2>3 DEF EffectInv, LedgerRemembers, Quick
    <2>5. CycleEffect(p)'
      BY <2>1 DEF CycleEffect, At
    <2>6. \A q \in Procs : q # p => CycleEffect(q)'
      BY <2>1, <2>3, OthersUnaffected DEF s, HoldingPC
    <2> QED BY <2>4, <2>5, <2>6 DEF EffectInv
  <1>7. ASSUME NEW p \in Procs, RecordExecution(p) PROVE EffectInv'
    <2> DEFINE s == proc[p].step
    <2>1. /\ proc[p].pc = "record" /\ s \in Steps /\ UNCHANGED provider
          /\ proc[p].result \in AgentResult
          /\ \A q \in Procs : q # p => proc'[q] = proc[q]
          /\ proc'[p].pc = "settle"
      BY <1>0, <1>7 DEF RecordExecution, Goto, At, ShapedCycle, CycleShape, HoldingPC, Cycle
    <2>2. /\ \A t \in Steps : t # s => ledger'[t] = ledger[t]
          /\ ledger'[s].status = LedgerStatusOf(proc[p].result)
          /\ ledger'[s].executed = Executed(proc[p].result)
      BY <1>0, <1>7, <2>1 DEF RecordExecution, CompleteExecution
    <2>3. LedgerStatusOf(proc[p].result) \in {"absent", "failed"} => ~Executed(proc[p].result)
      BY <2>1 DEF LedgerStatusOf, Executed, AgentResult
    <2>4. s \in Quick /\ provider[s].effects > 0 => Executed(proc[p].result)
      BY <2>1 DEF EffectInv, CycleEffect, At
    <2> HIDE DEF s
    <2>5. LedgerRemembers'
      BY <2>1, <2>2, <2>3, <2>4 DEF EffectInv, LedgerRemembers, Quick
    <2>6. CycleEffect(p)'
      BY <2>1 DEF CycleEffect, At
    <2>7. \A q \in Procs : q # p => CycleEffect(q)'
      BY <2>1, <2>2, OthersUnaffected DEF s, HoldingPC
    <2> QED BY <2>5, <2>6, <2>7 DEF EffectInv
  <1>8. CASE (\E s \in Steps : TimePasses(s) \/ ClaimOutlived(s)) \/ UNCHANGED vars
    <2>1. UNCHANGED <<ledger, provider, proc>>
      BY <1>8 DEF TimePasses, ClaimOutlived, vars
    <2> QED BY <2>1 DEF EffectInv, LedgerRemembers, CycleEffect, At
  <1> QED
    BY <1>1, <1>2, <1>3, <1>4, <1>5, <1>6, <1>7, <1>8
    DEF Next, CycleStep, FreeStep, ReleaseStep

(* A step whose call may have had an external effect is never dispatched   *)
(* again, if its cycle does not outlive the staleness threshold, whatever  *)
(* crashes and exceptions lie between the call and its record.             *)
THEOREM EffectsAreNotRepeated == Spec => NoDispatchAfterEffect
  <1>1. TypeInv /\ EffectInv /\ [Next]_vars =>
          [\A s \in Steps \ SlowSteps : ~Redispatched(s)]_vars
    <2> SUFFICES ASSUME TypeInv, EffectInv, Next, NEW s \in Quick, provider[s].effects > 0
                 PROVE  provider'[s].calls = provider[s].calls
      BY DEF Redispatched, Quick
    <2>1. /\ provider \in [Steps -> ProviderRow]
          /\ \A p \in Procs : proc[p] \in ShapedCycle
      BY DEF TypeInv, TypeOK
    <2>2. ASSUME NEW p \in Procs, At(p, "dispatch")
          PROVE  proc[p].step # s
      BY <2>2 DEF EffectInv, CycleEffect, At
    <2>3. ASSUME NEW p \in Procs, NEW result, ProviderAnswers(p, result)
          PROVE  provider'[s] = provider[s]
      BY <2>1, <2>2, <2>3 DEF ProviderAnswers, Called, Quick
    <2>4. ASSUME NEW p \in Procs, ProviderThrows(p)
          PROVE  provider'[s] = provider[s]
      BY <2>1, <2>2, <2>4 DEF ProviderThrows, Called, Quick
    <2>5. ASSUME NEW p \in Procs, FreeStep(p)
          PROVE  UNCHANGED provider
      BY <2>5, FreeSteps DEF EffectFree
    <2>6. ASSUME NEW p \in Procs,
                 \/ BeginExecution(p) \/ CreateExecution(p) \/ ResetFailedExecution(p)
                 \/ BoundaryBlocks(p) \/ RecordExecution(p)
          PROVE  UNCHANGED provider
      BY <2>6 DEF BeginExecution, CreateExecution, ResetFailedExecution, BoundaryBlocks,
                  RecordExecution
    <2>7. ASSUME NEW r \in Steps, TimePasses(r) \/ ClaimOutlived(r)
          PROVE  UNCHANGED provider
      BY <2>7 DEF TimePasses, ClaimOutlived
    <2> QED
      BY <2>3, <2>4, <2>5, <2>6, <2>7 DEF Next, CycleStep, FreeStep, ReleaseStep
  <1> QED
    BY <1>1, TypeInit, TypeStep, OwnInit, OwnStep, EffectInit, EffectStep, PTL
    DEF Spec, NoDispatchAfterEffect
-----------------------------------------------------------------------------
(* Calls *)

Bit(b) == IF b THEN 1 ELSE 0

BeforeCall == {"run", "begin", "create", "reset", "dispatch"}

(* What the calls still to come are made of: processes that hold the step  *)
(* and have not called yet, processes that may still give it back for      *)
(* another attempt, attempts never started, and a row that is, or without  *)
(* another fault may become, free to be claimed.                           *)
Upcoming(s) ==
  {p \in Procs : proc[p].step = s /\
                 proc[p].pc \in BeforeCall}
Retriers(s) == {p \in Procs : Holds(p, s) /\ proc[p].tries < MaxAttempts}
Untried(s) == IF queue[s].attempts + 1 < MaxAttempts
              THEN MaxAttempts - 1 - queue[s].attempts ELSE 0
Unclaimed(s) ==
  \/ queue[s].status \in {"ABSENT", "QUEUED"}
  \/ queue[s].status = "CLAIMED" /\ (queue[s].ripe \/ ~Held(s))

Due(s) == Cardinality(Upcoming(s)) + Cardinality(Retriers(s))
          + Untried(s) + Bit(Unclaimed(s))

Budget(s) ==
  /\ IsFiniteSet(Upcoming(s)) /\ IsFiniteSet(Retriers(s))
  /\ queue[s].status = "ABSENT" => queue[s].attempts = 0
  /\ provider[s].calls + Due(s) <= MaxAttempts + faults

BudgetInv == \A s \in Steps : Budget(s)

(* One process' part of it.                                                *)
Weight(p, s) == Bit(p \in Upcoming(s)) + Bit(p \in Retriers(s))
Charge(p, s) == provider[s].calls + Weight(p, s) + Untried(s) + Bit(Unclaimed(s))

LEMMA SetMoves ==
  ASSUME NEW S, NEW T, NEW p, IsFiniteSet(S), T \ {p} = S \ {p}
  PROVE  /\ IsFiniteSet(T)
         /\ Cardinality(S) \in Nat /\ Cardinality(T) \in Nat
         /\ Cardinality(T) + Bit(p \in S) = Cardinality(S) + Bit(p \in T)
  <1>0. Cardinality(S) \in Nat
    BY FS_CardinalityType
  <1>1. CASE p \in S /\ p \notin T
    <2>1. T = S \ {p}
      BY <1>1
    <2>2. IsFiniteSet(T) /\ Cardinality(T) = Cardinality(S) - 1
      BY <1>1, <2>1, FS_RemoveElement
    <2>3. Cardinality(T) \in Nat
      BY <2>2, FS_CardinalityType
    <2> QED BY <1>0, <1>1, <2>2, <2>3 DEF Bit
  <1>2. CASE p \in T /\ p \notin S
    <2>1. T = S \cup {p}
      BY <1>2
    <2> QED BY <1>0, <1>2, <2>1, FS_AddElement, FS_CardinalityType DEF Bit
  <1>3. CASE p \in S <=> p \in T
    <2>1. T = S
      BY <1>3
    <2> QED BY <1>0, <1>3, <2>1 DEF Bit
  <1> QED BY <1>1, <1>2, <1>3

LEMMA BudgetInit == Init => BudgetInv
  <1> SUFFICES ASSUME Init, NEW s \in Steps PROVE Budget(s)
    BY DEF BudgetInv
  <1>1. Upcoming(s) = {} /\ Retriers(s) = {}
    BY DEF Init, IdleCycle, BeforeCall, Upcoming, Retriers, Holds, HoldingPC
  <1>2. queue[s] = NoRow /\ provider[s].calls = 0 /\ faults = 0
    BY DEF Init, QueueInit
  <1>3. Untried(s) = MaxAttempts - 1 /\ Bit(Unclaimed(s)) = 1
    BY <1>2, EngineAssumption DEF Untried, NoRow, Unclaimed, Bit
  <1> QED BY <1>1, <1>2, <1>3, FS_EmptySet, EngineAssumption DEF Budget, Due, NoRow

(* The bound is kept if one process moves and its charge grows by no more  *)
(* than the faults do.                                                     *)
LEMMA Charged ==
  ASSUME TypeInv, TypeInv', NEW s \in Steps, Budget(s), NEW p \in Procs,
         \A q \in Procs : q # p => proc'[q] = proc[q],
         queue'[s].status = "ABSENT" => queue'[s].attempts = 0,
         Charge(p, s)' + faults <= Charge(p, s) + faults'
  PROVE  Budget(s)'
  <1>1. /\ Upcoming(s)' \ {p} = Upcoming(s) \ {p}
        /\ Retriers(s)' \ {p} = Retriers(s) \ {p}
    BY DEF Upcoming, Retriers, Holds
  <1> DEFINE u == Upcoming(s)  uu == Upcoming(s)'  r == Retriers(s)  rr == Retriers(s)'
  <1>2. /\ IsFiniteSet(uu) /\ Cardinality(u) \in Nat /\ Cardinality(uu) \in Nat
        /\ Cardinality(uu) + Bit(p \in u) = Cardinality(u) + Bit(p \in uu)
    BY <1>1, SetMoves DEF Budget
  <1>3. /\ IsFiniteSet(rr) /\ Cardinality(r) \in Nat /\ Cardinality(rr) \in Nat
        /\ Cardinality(rr) + Bit(p \in r) = Cardinality(r) + Bit(p \in rr)
    BY <1>1, SetMoves DEF Budget
  <1>4. Untried(s) \in Nat /\ Untried(s)' \in Nat
    BY EngineAssumption DEF Untried, QueueRow, TypeInv, TypeOK
  <1>5. /\ provider[s].calls \in Nat /\ provider'[s].calls \in Nat
        /\ faults \in Nat /\ faults' \in Nat /\ MaxAttempts \in Nat
    BY EngineAssumption, RuntimeAssumption DEF TypeInv, TypeOK, ProviderRow
  <1>6. \A b : Bit(b) \in {0, 1}
    BY DEF Bit
  <1>7. /\ Charge(p, s) = provider[s].calls + Bit(p \in u) + Bit(p \in r)
                          + Untried(s) + Bit(Unclaimed(s))
        /\ Charge(p, s)' = provider'[s].calls + Bit(p \in uu) + Bit(p \in rr)
                           + Untried(s)' + Bit(Unclaimed(s)')
    BY <1>4, <1>5, <1>6 DEF Charge, Weight
  <1>8. /\ provider[s].calls + Cardinality(u) + Cardinality(r) + Untried(s)
             + Bit(Unclaimed(s)) <= MaxAttempts + faults
        /\ Due(s)' = Cardinality(uu) + Cardinality(rr) + Untried(s)' + Bit(Unclaimed(s)')
    BY <1>2, <1>3, <1>4, <1>5, <1>6 DEF Budget, Due
  <1> HIDE DEF u, uu, r, rr
  <1>9. provider'[s].calls + Due(s)' <= MaxAttempts + faults'
    BY <1>2, <1>3, <1>4, <1>5, <1>6, <1>7, <1>8
  <1> QED BY <1>2, <1>3, <1>9 DEF Budget, uu, rr

(* Steps of a process that change no row and no count, and that make it    *)
(* neither hold a step nor let go of one.                                  *)
UnmovedStep(p) ==
  \/ \E w \in Workflows : StartCycle(p, w)
  \/ \E s \in Steps : LookUpRow(p, s) \/ PickCandidate(p, s)
  \/ ScheduleDuplicate(p) \/ ScheduleDone(p) \/ NothingToClaim(p)
  \/ ClaimLost(p) \/ RunReadyStep(p) \/ BeginExecution(p)
  \/ CreateExecution(p) \/ ResetFailedExecution(p) \/ BoundaryBlocks(p)
  \/ RecordExecution(p) \/ SettleExecuted(p) \/ SaveAndFinish(p)

Unmoved(p) ==
  /\ UNCHANGED <<queue, provider, faults>>
  /\ \A q \in Procs : q # p => proc'[q] = proc[q]
  /\ \/ proc[p].pc \notin HoldingPC /\ proc'[p].pc \notin HoldingPC
     \/ /\ proc[p].pc \in HoldingPC /\ proc'[p].pc \in HoldingPC
        /\ proc'[p].step = proc[p].step /\ proc'[p].tries = proc[p].tries
        /\ proc'[p].pc \in BeforeCall => proc[p].pc \in BeforeCall

LEMMA UnmovedSteps ==
  ASSUME TypeInv, NEW p \in Procs, UnmovedStep(p)
  PROVE  Unmoved(p)
  <1>0. proc \in [Procs -> ShapedCycle]
    BY DEF TypeInv
  <1> USE <1>0 DEF Unmoved, BeforeCall, HoldingPC, At, Goto, EndCycle, IdleCycle, ShapedCycle, Cycle
  <1>1. CASE \E w \in Workflows : StartCycle(p, w)
    BY <1>1 DEF StartCycle
  <1>2. CASE \E s \in Steps : LookUpRow(p, s)
    BY <1>2 DEF LookUpRow
  <1>3. CASE \E s \in Steps : PickCandidate(p, s)
    BY <1>3 DEF PickCandidate
  <1>4. CASE ScheduleDuplicate(p)
    BY <1>4 DEF ScheduleDuplicate
  <1>5. CASE ScheduleDone(p)
    BY <1>5 DEF ScheduleDone
  <1>6. CASE NothingToClaim(p)
    BY <1>6 DEF NothingToClaim
  <1>7. CASE ClaimLost(p)
    BY <1>7 DEF ClaimLost
  <1>8. CASE RunReadyStep(p)
    BY <1>8 DEF RunReadyStep
  <1>9. CASE BeginExecution(p)
    BY <1>9 DEF BeginExecution, Begin
  <1>10. CASE CreateExecution(p)
    BY <1>10 DEF CreateExecution
  <1>11. CASE ResetFailedExecution(p)
    BY <1>11 DEF ResetFailedExecution
  <1>12. CASE BoundaryBlocks(p)
    BY <1>12 DEF BoundaryBlocks
  <1>13. CASE RecordExecution(p)
    BY <1>13 DEF RecordExecution
  <1>14. CASE SettleExecuted(p)
    BY <1>14 DEF SettleExecuted
  <1>15. CASE SaveAndFinish(p)
    BY <1>15 DEF SaveAndFinish
  <1> QED
    BY <1>1, <1>2, <1>3, <1>4, <1>5, <1>6, <1>7, <1>8, <1>9, <1>10, <1>11, <1>12,
       <1>13, <1>14, <1>15 DEF UnmovedStep

(* Where a process neither holds a step nor comes to hold it, its charge   *)
(* changes with the row and the count alone.                               *)
LEMMA Elsewhere ==
  ASSUME NEW p \in Procs, NEW s \in Steps,
         \A q \in Procs : q # p => proc'[q] = proc[q],
         ~Holds(p, s), ~Holds(p, s)'
  PROVE  /\ Weight(p, s) = 0 /\ Weight(p, s)' = 0
         /\ Held(s)' <=> Held(s)
  BY DEF Weight, Bit, Upcoming, Retriers, Holds, Held, HoldingPC, BeforeCall

LEMMA SameCharge ==
  ASSUME NEW p \in Procs, NEW s \in Steps,
         Weight(p, s)' = Weight(p, s), Held(s)' <=> Held(s),
         queue'[s] = queue[s], provider'[s].calls = provider[s].calls
  PROVE  Charge(p, s)' = Charge(p, s)
  <1>1. Unclaimed(s)' <=> Unclaimed(s)
    BY DEF Unclaimed
  <1>2. Bit(Unclaimed(s)') = Bit(Unclaimed(s))
    BY <1>1 DEF Bit
  <1>3. Untried(s)' = Untried(s)
    BY DEF Untried
  <1> QED BY <1>2, <1>3 DEF Charge

(* The process that holds the step lets go of it.                          *)
LEMMA Leaving ==
  ASSUME TypeInv, TypeInv', NEW p \in Procs, NEW s \in Steps,
         Holds(p, s), ~Holds(p, s)', queue'[s].attempts = queue[s].attempts
  PROVE  /\ Charge(p, s)' = provider'[s].calls + Untried(s) + Bit(Unclaimed(s)')
         /\ Charge(p, s) = provider[s].calls + Untried(s) + Bit(Unclaimed(s))
                             + Bit(proc[p].pc \in BeforeCall)
                             + Bit(proc[p].tries < MaxAttempts)
         /\ provider[s].calls \in Nat /\ provider'[s].calls \in Nat
         /\ Untried(s) \in Nat /\ faults \in Nat /\ faults' \in Nat
  <1>1. /\ Untried(s) \in Nat /\ Untried(s)' = Untried(s)
        /\ provider[s].calls \in Nat /\ provider'[s].calls \in Nat
        /\ faults \in Nat /\ faults' \in Nat
    BY EngineAssumption, RuntimeAssumption
    DEF Untried, QueueRow, TypeInv, TypeOK, ProviderRow
  <1>2. \A b : Bit(b) \in {0, 1}
    BY DEF Bit
  <1>3. (p \in Upcoming(s) <=> proc[p].pc \in BeforeCall)
        /\ (p \in Retriers(s) <=> proc[p].tries < MaxAttempts)
    BY DEF Upcoming, Retriers, Holds
  <1>4. p \notin Upcoming(s)' /\ p \notin Retriers(s)'
    BY DEF Upcoming, Retriers, Holds, BeforeCall, HoldingPC
  <1>5. /\ Weight(p, s) = Bit(proc[p].pc \in BeforeCall) + Bit(proc[p].tries < MaxAttempts)
        /\ Weight(p, s)' = 0
    BY <1>3, <1>4 DEF Weight, Bit
  <1> QED BY <1>1, <1>2, <1>5 DEF Charge

(* What an action does to the rows and counts of the step its process      *)
(* lets go of.                                                             *)
LetsGo(p) ==
  /\ proc[p].pc \in HoldingPC /\ proc[p].step \in Steps
  /\ \A q \in Procs : q # p => proc'[q] = proc[q]
  /\ proc'[p].pc \notin HoldingPC
  /\ queue'[proc[p].step].attempts = queue[proc[p].step].attempts
  /\ queue'[proc[p].step].status = "ABSENT" => queue[proc[p].step].status = "ABSENT"
  /\ \A s \in Steps : s # proc[p].step =>
       queue'[s] = queue[s] /\ provider'[s] = provider[s]

Settles(p) ==
  /\ UNCHANGED <<provider, faults>>
  /\ queue'[proc[p].step].status \in {"COMPLETED", "FAILED"}
GivesBack(p) == UNCHANGED <<provider, faults>> /\ proc[p].tries < MaxAttempts
Refused(p) ==
  /\ UNCHANGED <<provider, faults, queue>>
  /\ queue[proc[p].step].status # "CLAIMED"
Overtaken(p) ==
  UNCHANGED <<provider, faults, queue>> /\ proc[p].pc \in BeforeCall
Dies(p) == UNCHANGED <<provider, queue>> /\ faults' = faults + 1
Throws(p) ==
  /\ UNCHANGED queue /\ faults' = faults + 1 /\ proc[p].pc \in BeforeCall
  /\ provider'[proc[p].step].calls = provider[proc[p].step].calls + 1

LEMMA LeavingSteps ==
  ASSUME TypeInv, NEW p \in Procs
  PROVE  /\ RejectClaim(p) \/ CompleteClaim(p) \/ SettleFailure(p) => LetsGo(p) /\ Settles(p)
         /\ SettleRetry(p) => LetsGo(p) /\ GivesBack(p)
         /\ RetryRefused(p) => LetsGo(p) /\ Refused(p)
         /\ CreateRaceLost(p) => LetsGo(p) /\ Overtaken(p)
         /\ Crash(p) /\ proc[p].pc \in HoldingPC => LetsGo(p) /\ Dies(p)
         /\ ProviderThrows(p) => LetsGo(p) /\ Throws(p)
  <1>0. /\ proc \in [Procs -> ShapedCycle] /\ queue \in [Steps -> QueueRow]
        /\ provider \in [Steps -> ProviderRow]
    BY DEF TypeInv, TypeOK
  <1> USE <1>0 DEF LetsGo, HoldingPC, BeforeCall, At, Goto, EndCycle, IdleCycle, ShapedCycle,
                   CycleShape, Cycle, SetStatus, QueueRow
  <1>1. RejectClaim(p) => LetsGo(p) /\ Settles(p)
    BY DEF RejectClaim, FailRow, Settles
  <1>2. CompleteClaim(p) => LetsGo(p) /\ Settles(p)
    BY DEF CompleteClaim, CompleteRow, Settles
  <1>3. SettleFailure(p) => LetsGo(p) /\ Settles(p)
    BY DEF SettleFailure, FailRow, Settles
  <1>4. SettleRetry(p) => LetsGo(p) /\ GivesBack(p)
    <2>1. ASSUME SettleRetry(p) PROVE proc[p].tries < MaxAttempts
      BY <2>1, EngineAssumption DEF SettleRetry, Classification, ClassifyFailure
    <2> QED BY <2>1 DEF SettleRetry, RetryRow, GivesBack
  <1>5. RetryRefused(p) => LetsGo(p) /\ Refused(p)
    BY DEF RetryRefused, Retryable, Refused
  <1>6. CreateRaceLost(p) => LetsGo(p) /\ Overtaken(p)
    BY DEF CreateRaceLost, Overtaken
  <1>7. Crash(p) /\ proc[p].pc \in HoldingPC => LetsGo(p) /\ Dies(p)
    BY DEF Crash, Dies
  <1>8. ProviderThrows(p) => LetsGo(p) /\ Throws(p)
    BY DEF ProviderThrows, Called, Throws, ProviderRow
  <1> QED BY <1>1, <1>2, <1>3, <1>4, <1>5, <1>6, <1>7, <1>8

LEMMA AddBoth ==
  ASSUME NEW n \in Nat, NEW nn \in Nat, NEW u \in Nat, NEW a \in Nat, NEW aa \in Nat,
         NEW b \in Nat, NEW r \in Nat, NEW f \in Nat, NEW ff \in Nat,
         nn + aa + f <= n + a + b + r + ff
  PROVE  nn + u + aa + f <= n + u + a + b + r + ff
  OBVIOUS

LEMMA AddBelow ==
  ASSUME NEW n \in Nat, NEW c \in Nat, NEW m \in Nat, NEW f \in Nat, NEW ff \in Nat,
         NEW a \in {0, 1}, NEW aa \in {0, 1}, aa + f <= a + ff, n + (c + a) <= m + f
  PROVE  n + (c + aa) <= m + ff
  OBVIOUS

LEMMA LeavingKeepsBudget ==
  ASSUME TypeInv, TypeInv', BudgetInv, NEW p \in Procs, LetsGo(p),
         \/ Settles(p) \/ GivesBack(p) \/ Refused(p) \/ Overtaken(p)
         \/ Dies(p) \/ Throws(p)
  PROVE  BudgetInv'
  <1> SUFFICES ASSUME NEW s \in Steps PROVE Budget(s)'
    BY DEF BudgetInv
  <1>1. Budget(s)
    BY DEF BudgetInv
  <1>2. faults \in Nat /\ faults' \in Nat /\ faults <= faults'
    BY RuntimeAssumption DEF TypeInv, TypeOK, Settles, GivesBack, Refused, Overtaken, Dies, Throws
  <1>3. CASE s # proc[p].step
    <2>1. /\ ~Holds(p, s) /\ ~Holds(p, s)'
          /\ queue'[s] = queue[s] /\ provider'[s] = provider[s]
      BY <1>3 DEF LetsGo, Holds
    <2>2. Charge(p, s)' = Charge(p, s)
      BY <2>1, Elsewhere, SameCharge DEF LetsGo
    <2>3. Charge(p, s) \in Nat
      BY EngineAssumption DEF Charge, Weight, Bit, Untried, TypeInv, TypeOK, QueueRow, ProviderRow
    <2> QED BY <1>1, <1>2, <2>1, <2>2, <2>3, Charged DEF LetsGo, Budget
  <1>4. CASE s = proc[p].step
    <2>1. Holds(p, s) /\ ~Holds(p, s)' /\ queue'[s].attempts = queue[s].attempts
      BY <1>4 DEF LetsGo, Holds
    <2>2. \A b : Bit(b) \in {0, 1} /\ (b => Bit(b) = 1) /\ (~b => Bit(b) = 0)
      BY DEF Bit
    <2> DEFINE u == Untried(s)  n == provider[s].calls  nn == provider'[s].calls
               a == Bit(Unclaimed(s))  aa == Bit(Unclaimed(s)')
               b == Bit(proc[p].pc \in BeforeCall)
               r == Bit(proc[p].tries < MaxAttempts)
               c == Charge(p, s)  cc == Charge(p, s)'
    <2>3. /\ cc = nn + u + aa /\ c = n + u + a + b + r
          /\ n \in Nat /\ nn \in Nat /\ u \in Nat
          /\ a \in {0, 1} /\ aa \in {0, 1} /\ b \in {0, 1} /\ r \in {0, 1}
      BY <2>1, <2>2, Leaving
    <2>4. nn + aa + faults <= n + a + b + r + faults'
      <3>1. CASE Settles(p)
        <4>1. aa = 0
          BY <1>4, <2>2, <3>1 DEF Settles, Unclaimed
        <4> QED BY <1>2, <2>3, <3>1, <4>1 DEF Settles
      <3>2. CASE GivesBack(p)
        <4>1. r = 1
          BY <2>2, <3>2 DEF GivesBack
        <4> QED BY <1>2, <2>3, <3>2, <4>1 DEF GivesBack
      <3>3. CASE Refused(p)
        <4>1. Unclaimed(s)' <=> Unclaimed(s)
          BY <1>4, <3>3 DEF Refused, Unclaimed
        <4>2. aa = a
          BY <2>2, <4>1
        <4> QED BY <1>2, <2>3, <3>3, <4>2 DEF Refused
      <3>4. CASE Overtaken(p)
        <4>1. b = 1
          BY <2>2, <3>4 DEF Overtaken
        <4> QED BY <1>2, <2>3, <3>4, <4>1 DEF Overtaken
      <3>5. CASE Dies(p)
        BY <1>2, <2>3, <3>5 DEF Dies
      <3>6. CASE Throws(p)
        <4>1. b = 1
          BY <2>2, <3>6 DEF Throws
        <4> QED BY <1>2, <1>4, <2>3, <3>6, <4>1 DEF Throws
      <3> QED BY <3>1, <3>2, <3>3, <3>4, <3>5, <3>6
    <2> HIDE DEF u, n, nn, a, aa, b, r, c, cc
    <2>5. cc + faults <= c + faults'
      <3>1. /\ n \in Nat /\ nn \in Nat /\ u \in Nat /\ a \in Nat /\ aa \in Nat
            /\ b \in Nat /\ r \in Nat
        BY <2>3
      <3>2. c = n + u + a + b + r /\ cc = nn + u + aa
        BY <2>3
      <3>3. nn + u + aa + faults <= n + u + a + b + r + faults'
        BY <1>2, <2>4, <3>1, AddBoth
      <3> QED BY <3>2, <3>3
    <2> QED BY <1>1, <1>4, <2>1, <2>5, Charged DEF LetsGo, Budget, c, cc
  <1> QED BY <1>3, <1>4

LEMMA ChargeType ==
  ASSUME TypeInv, TypeInv', NEW p \in Procs, NEW s \in Steps
  PROVE  /\ Charge(p, s) \in Nat /\ Charge(p, s)' \in Nat
         /\ Untried(s) \in Nat /\ Untried(s)' \in Nat
         /\ provider[s].calls \in Nat /\ provider'[s].calls \in Nat
         /\ faults \in Nat /\ faults' \in Nat
         /\ \A b : Bit(b) \in {0, 1} /\ (b => Bit(b) = 1) /\ (~b => Bit(b) = 0)
  <1>1. /\ Untried(s) \in Nat /\ Untried(s)' \in Nat
        /\ provider[s].calls \in Nat /\ provider'[s].calls \in Nat
        /\ faults \in Nat /\ faults' \in Nat
    BY EngineAssumption, RuntimeAssumption
    DEF Untried, QueueRow, TypeInv, TypeOK, ProviderRow
  <1>2. \A b : Bit(b) \in {0, 1} /\ (b => Bit(b) = 1) /\ (~b => Bit(b) = 0)
    BY DEF Bit
  <1>3. Charge(p, s) \in Nat
    BY <1>1, <1>2 DEF Charge, Weight
  <1>4. Charge(p, s)' \in Nat
    BY <1>1, <1>2 DEF Charge, Weight
  <1> QED BY <1>1, <1>2, <1>3, <1>4

LEMMA BudgetStep == TypeInv /\ BudgetInv /\ [Next]_vars => BudgetInv'
  <1> SUFFICES ASSUME TypeInv, BudgetInv, [Next]_vars PROVE BudgetInv'
    OBVIOUS
  <1>a. TypeInv'
    BY TypeStep
  <1>0. /\ proc \in [Procs -> ShapedCycle] /\ queue \in [Steps -> QueueRow]
        /\ \A s \in Steps : Budget(s)
    BY DEF TypeInv, TypeOK, BudgetInv
  <1>1. ASSUME NEW p \in Procs, UnmovedStep(p), NEW s \in Steps PROVE Budget(s)'
    <2>1. Unmoved(p)
      BY <1>1, UnmovedSteps
    <2>2. /\ Holds(p, s)' <=> Holds(p, s)
          /\ p \in Upcoming(s)' => p \in Upcoming(s)
          /\ p \in Retriers(s)' <=> p \in Retriers(s)
      BY <2>1 DEF Unmoved, Holds, Upcoming, Retriers, BeforeCall, HoldingPC
    <2>3. Unclaimed(s)' <=> Unclaimed(s)
      BY <2>1, <2>2 DEF Unmoved, Unclaimed, Held, Holds
    <2>4. /\ Bit(Unclaimed(s)') = Bit(Unclaimed(s)) /\ Untried(s)' = Untried(s)
          /\ Bit(p \in Retriers(s)') = Bit(p \in Retriers(s))
          /\ Bit(p \in Upcoming(s)') <= Bit(p \in Upcoming(s))
      BY <2>1, <2>2, <2>3 DEF Unmoved, Untried, Bit
    <2>5. Charge(p, s)' <= Charge(p, s) /\ faults' = faults
      BY <1>a, <2>1, <2>4, ChargeType DEF Unmoved, Charge, Weight
    <2>6. Charge(p, s)' + faults <= Charge(p, s) + faults'
      BY <1>a, <2>5, ChargeType
    <2> QED BY <1>a, <1>0, <2>1, <2>6, Charged DEF Unmoved, Budget
  <1>2. ASSUME NEW p \in Procs, RecoverStaleClaims(p), NEW s \in Steps PROVE Budget(s)'
    <2>1. /\ \A q \in Procs : q # p => proc'[q] = proc[q]
          /\ proc[p].pc = "recover" /\ proc'[p].pc = "schedule"
          /\ UNCHANGED <<provider, faults>>
      BY <1>0, <1>2 DEF RecoverStaleClaims, At, ShapedCycle, Cycle
    <2>2. /\ queue'[s].attempts = queue[s].attempts
          /\ \/ queue'[s] = queue[s]
             \/ /\ queue[s].status = "CLAIMED" /\ queue[s].ripe
                /\ queue'[s].status = "QUEUED"
      BY <1>0, <1>2 DEF RecoverStaleClaims, RecoverRows, StaleClaims, QueueRow
    <2>3. /\ Weight(p, s) = 0 /\ Weight(p, s)' = 0 /\ (Held(s)' <=> Held(s))
      BY <2>1, Elsewhere DEF Holds, HoldingPC
    <2>4. Unclaimed(s)' <=> Unclaimed(s)
      BY <2>2, <2>3 DEF Unclaimed
    <2>5. Bit(Unclaimed(s)') = Bit(Unclaimed(s)) /\ Untried(s)' = Untried(s)
      BY <2>2, <2>4 DEF Bit, Untried
    <2>6. Charge(p, s)' + faults <= Charge(p, s) + faults'
      BY <1>a, <2>1, <2>3, <2>5, ChargeType DEF Charge
    <2> QED BY <1>a, <1>0, <2>1, <2>2, <2>6, Charged DEF Budget
  <1>3. ASSUME NEW p \in Procs, ScheduleStep(p), NEW s \in Steps PROVE Budget(s)'
    <2>1. /\ \A q \in Procs : q # p => proc'[q] = proc[q]
          /\ proc[p].pc = "insert" /\ proc'[p].pc = "schedule"
          /\ UNCHANGED <<provider, faults>>
      BY <1>0, <1>3 DEF ScheduleStep, At, ShapedCycle, Cycle
    <2>2. \/ queue'[s] = queue[s]
          \/ /\ queue[s].status = "ABSENT" /\ queue'[s].status = "QUEUED"
             /\ queue'[s].attempts = 0
      BY <1>0, <1>3 DEF ScheduleStep, Enqueue
    <2>3. /\ Weight(p, s) = 0 /\ Weight(p, s)' = 0 /\ (Held(s)' <=> Held(s))
      BY <2>1, Elsewhere DEF Holds, HoldingPC
    <2>4. Unclaimed(s)' <=> Unclaimed(s)
      BY <2>2, <2>3 DEF Unclaimed
    <2>5. queue'[s].attempts = queue[s].attempts
      BY <1>0, <2>2 DEF Budget
    <2>6. Bit(Unclaimed(s)') = Bit(Unclaimed(s)) /\ Untried(s)' = Untried(s)
      BY <2>4, <2>5 DEF Bit, Untried
    <2>7. Charge(p, s)' + faults <= Charge(p, s) + faults'
      BY <1>a, <2>1, <2>3, <2>6, ChargeType DEF Charge
    <2> QED BY <1>a, <1>0, <2>1, <2>2, <2>7, Charged DEF Budget
  <1>4. ASSUME NEW p \in Procs, ClaimNext(p), NEW s \in Steps PROVE Budget(s)'
    <2>1. /\ \A q \in Procs : q # p => proc'[q] = proc[q]
          /\ proc[p].pc = "claim" /\ proc'[p].pc = "run" /\ proc'[p].step = proc[p].row
          /\ UNCHANGED <<provider, faults>>
          /\ s # proc[p].row => queue'[s] = queue[s]
          /\ s = proc[p].row => /\ queue[s].status = "QUEUED" /\ queue'[s].status = "CLAIMED"
                                /\ ~queue'[s].ripe
                                /\ queue'[s].attempts = queue[s].attempts + 1
                                /\ proc'[p].tries = queue[s].attempts + 1
      BY <1>0, <1>4 DEF ClaimNext, ClaimRow, Claimable, At, ShapedCycle, Cycle, QueueRow
    <2>2. CASE s # proc[p].row
      <3>1. ~Holds(p, s) /\ ~Holds(p, s)'
        BY <2>1, <2>2 DEF Holds, HoldingPC
      <3>2. Charge(p, s)' = Charge(p, s)
        BY <2>1, <2>2, <3>1, Elsewhere, SameCharge
      <3>3. Charge(p, s)' + faults <= Charge(p, s) + faults'
        BY <1>a, <2>1, <3>2, ChargeType
      <3> QED BY <1>a, <1>0, <2>1, <2>2, <3>3, Charged DEF Budget
    <2>3. CASE s = proc[p].row
      <3>1. Weight(p, s) = 0 /\ Bit(Unclaimed(s)) = 1
        BY <2>1, <2>3 DEF Weight, Upcoming, Retriers, Holds, HoldingPC, BeforeCall, Bit, Unclaimed
      <3>2. Holds(p, s)' /\ (p \in Retriers(s)' <=> queue[s].attempts + 1 < MaxAttempts)
        BY <2>1, <2>3 DEF Holds, HoldingPC, Retriers
      <3>3. Bit(Unclaimed(s)') = 0
        BY <2>1, <2>3, <3>2 DEF Unclaimed, Held, Bit
      <3>4. Weight(p, s)' = 1 + Bit(queue[s].attempts + 1 < MaxAttempts)
        BY <2>1, <2>3, <3>2 DEF Weight, Upcoming, BeforeCall, Bit
      <3>5. Untried(s)' + Bit(queue[s].attempts + 1 < MaxAttempts) = Untried(s)
        <4>1. queue[s].attempts \in Nat /\ MaxAttempts \in Nat
              /\ queue'[s].attempts = queue[s].attempts + 1
          BY <1>0, <2>1, <2>3, EngineAssumption DEF QueueRow
        <4>2. CASE queue[s].attempts + 1 < MaxAttempts
          BY <4>1, <4>2 DEF Untried, Bit
        <4>3. CASE ~(queue[s].attempts + 1 < MaxAttempts)
          BY <4>1, <4>3 DEF Untried, Bit
        <4> QED BY <4>2, <4>3
      <3>6. /\ Charge(p, s)' = provider[s].calls + 1
                 + Bit(queue[s].attempts + 1 < MaxAttempts) + Untried(s)'
            /\ Charge(p, s) = provider[s].calls + Untried(s) + 1
        BY <1>a, <2>1, <3>1, <3>3, <3>4, ChargeType DEF Charge
      <3>7. Charge(p, s)' = Charge(p, s)
        BY <1>a, <3>5, <3>6, ChargeType
      <3>8. Charge(p, s)' + faults <= Charge(p, s) + faults'
        BY <1>a, <2>1, <3>7, ChargeType
      <3> QED BY <1>a, <1>0, <2>1, <2>3, <3>8, Charged
    <2> QED BY <2>2, <2>3
  <1>5. ASSUME NEW p \in Procs, NEW result \in Outcomes \ {"throws"},
               ProviderAnswers(p, result), NEW s \in Steps
        PROVE  Budget(s)'
    <2>1. /\ \A q \in Procs : q # p => proc'[q] = proc[q]
          /\ proc[p].pc = "dispatch" /\ proc'[p].pc = "record"
          /\ proc'[p].step = proc[p].step /\ proc'[p].tries = proc[p].tries
          /\ UNCHANGED <<queue, faults>>
          /\ provider'[s].calls = IF s = proc[p].step THEN provider[s].calls + 1
                                  ELSE provider[s].calls
      BY <1>0, <1>5 DEF ProviderAnswers, Called, At, ShapedCycle, Cycle, TypeInv, TypeOK,
                        ProviderRow
    <2>2. /\ Holds(p, s)' <=> Holds(p, s)
          /\ p \in Retriers(s)' <=> p \in Retriers(s)
          /\ p \in Upcoming(s) <=> s = proc[p].step
          /\ p \notin Upcoming(s)'
      BY <2>1 DEF Holds, HoldingPC, Retriers, Upcoming, BeforeCall
    <2>3. Unclaimed(s)' <=> Unclaimed(s)
      BY <2>1, <2>2 DEF Unclaimed, Held, Holds
    <2>4. /\ Bit(Unclaimed(s)') = Bit(Unclaimed(s)) /\ Untried(s)' = Untried(s)
          /\ Bit(p \in Retriers(s)') = Bit(p \in Retriers(s))
          /\ Bit(p \in Upcoming(s)') = 0
          /\ Bit(p \in Upcoming(s)) = IF s = proc[p].step THEN 1 ELSE 0
      BY <2>1, <2>2, <2>3 DEF Untried, Bit
    <2>5. Charge(p, s)' = Charge(p, s)
      BY <1>a, <2>1, <2>4, ChargeType DEF Charge, Weight
    <2>6. Charge(p, s)' + faults <= Charge(p, s) + faults'
      BY <1>a, <2>1, <2>5, ChargeType
    <2> QED BY <1>a, <1>0, <2>1, <2>6, Charged DEF Budget
  <1>6. ASSUME NEW p \in Procs,
               \/ RejectClaim(p) \/ CompleteClaim(p) \/ SettleFailure(p) \/ SettleRetry(p)
               \/ RetryRefused(p) \/ CreateRaceLost(p) \/ ProviderThrows(p)
               \/ Crash(p) /\ proc[p].pc \in HoldingPC
        PROVE  BudgetInv'
    BY <1>a, <1>6, LeavingSteps, LeavingKeepsBudget
  <1>7. ASSUME NEW p \in Procs, Crash(p), proc[p].pc \notin HoldingPC, NEW s \in Steps
        PROVE  Budget(s)'
    <2>1. /\ \A q \in Procs : q # p => proc'[q] = proc[q]
          /\ proc'[p].pc \notin HoldingPC
          /\ UNCHANGED <<queue, provider>> /\ faults' = faults + 1
      BY <1>0, <1>7 DEF Crash, EndCycle, IdleCycle, HoldingPC
    <2>2. Charge(p, s)' = Charge(p, s)
      BY <1>7, <2>1, Elsewhere, SameCharge DEF Holds
    <2>3. Charge(p, s)' + faults <= Charge(p, s) + faults'
      BY <1>a, <2>1, <2>2, ChargeType
    <2> QED BY <1>a, <1>0, <2>1, <2>3, Charged DEF Budget
  <1>8. ASSUME NEW r \in Steps, TimePasses(r) \/ ClaimOutlived(r), NEW s \in Steps
        PROVE  Budget(s)'
    <2>1. /\ UNCHANGED <<proc, provider>>
          /\ queue'[s].status = queue[s].status /\ queue'[s].attempts = queue[s].attempts
          /\ queue'[s].ripe # queue[s].ripe => s = r
      BY <1>0, <1>8 DEF TimePasses, ClaimOutlived, QueueRow
    <2>2. /\ Upcoming(s)' = Upcoming(s) /\ Retriers(s)' = Retriers(s)
          /\ Untried(s)' = Untried(s) /\ (Held(s)' <=> Held(s))
      BY <2>1 DEF Upcoming, Retriers, Holds, Untried, Held
    <2> DEFINE a == Bit(Unclaimed(s))  aa == Bit(Unclaimed(s)')
               c == Cardinality(Upcoming(s)) + Cardinality(Retriers(s)) + Untried(s)
    <2>a. faults \in Nat /\ faults' \in Nat /\ a \in {0, 1} /\ aa \in {0, 1}
      BY <1>a, RuntimeAssumption DEF Bit, TypeInv, TypeOK
    <2>3. aa + faults <= a + faults'
      <3>1. CASE Unclaimed(s)' => Unclaimed(s)
        <4>1. aa <= a
          BY <3>1 DEF Bit
        <4>2. faults' = faults \/ faults' = faults + 1
          BY <1>8 DEF TimePasses, ClaimOutlived
        <4> QED BY <2>a, <4>1, <4>2
      <3>2. CASE Unclaimed(s)' /\ ~Unclaimed(s)
        <4>1. faults' = faults + 1
          BY <1>8, <2>1, <2>2, <3>2 DEF Unclaimed, TimePasses, ClaimOutlived
        <4> QED BY <2>a, <4>1
      <3> QED BY <3>1, <3>2
    <2>b. Untried(s) \in Nat
      BY <1>0, EngineAssumption DEF Untried, QueueRow
    <2>c. Cardinality(Upcoming(s)) \in Nat /\ Cardinality(Retriers(s)) \in Nat
      BY <1>0, FS_CardinalityType DEF Budget
    <2>4. c \in Nat /\ provider[s].calls \in Nat /\ MaxAttempts \in Nat
      BY <2>b, <2>c, EngineAssumption DEF TypeInv, TypeOK, ProviderRow
    <2>5. /\ provider[s].calls + (c + a) <= MaxAttempts + faults
          /\ Due(s)' = c + aa
      BY <1>0, <2>2 DEF Budget, Due
    <2> HIDE DEF c, a, aa
    <2>6. provider[s].calls + Due(s)' <= MaxAttempts + faults'
      BY <2>a, <2>3, <2>4, <2>5, AddBelow
    <2> QED BY <1>0, <2>1, <2>2, <2>6 DEF Budget
  <1>9. ASSUME UNCHANGED vars, NEW s \in Steps PROVE Budget(s)'
    BY <1>0, <1>9
    DEF vars, Budget, Due, Upcoming, Retriers, Holds, Untried, Unclaimed, Held
  <1> QED
    BY <1>1, <1>2, <1>3, <1>4, <1>5, <1>6, <1>7, <1>8, <1>9
    DEF Next, CycleStep, UnmovedStep, BudgetInv

(* However often a step is recovered, given back by a stale holder or      *)
(* retried, the provider is called at most MaxAttempts times for it, and   *)
(* once more for every fault.                                              *)
THEOREM CallsAreBounded == Spec => []CallsBounded
  <1>1. TypeInv /\ BudgetInv => CallsBounded
    <2> SUFFICES ASSUME TypeInv, BudgetInv, NEW s \in Steps
                 PROVE  provider[s].calls <= MaxAttempts + faults
      BY DEF CallsBounded
    <2>1. Budget(s)
      BY DEF BudgetInv
    <2>2. Cardinality(Upcoming(s)) \in Nat /\ Cardinality(Retriers(s)) \in Nat
          /\ Untried(s) \in Nat /\ Bit(Unclaimed(s)) \in Nat
      BY <2>1, FS_CardinalityType, EngineAssumption
      DEF Budget, Untried, Bit, QueueRow, TypeInv, TypeOK
    <2> QED
      BY <2>1, <2>2, EngineAssumption, RuntimeAssumption
      DEF Budget, Due, TypeInv, TypeOK, ProviderRow
  <1> QED
    BY <1>1, TypeInit, TypeStep, BudgetInit, BudgetStep, PTL DEF Spec
-----------------------------------------------------------------------------
(* What the stored workflow keeps. A save writes the whole workflow as its *)
(* process knows it, so an older copy may undo a step another process has  *)
(* stored as COMPLETED. While the cycles of a workflow follow one another, *)
(* as one executive runs them, none does: the copy of the cycle in flight  *)
(* has every stored COMPLETED step, and the step it executes is RUNNING in *)
(* it, so that settling it undoes nothing.                                 *)

CyclesApart ==
  \A p, q \in Procs : ~At(p, "idle") /\ proc[p].wf = proc[q].wf => p = q

Executing == ToProvider \cup WithResult

Kept(w, flow) ==
  \A s \in Steps : store[w].steps[s] = "COMPLETED" => flow.steps[s] = "COMPLETED"

CycleKeeps(p) == ~At(p, "idle") =>
  /\ Kept(proc[p].wf, proc[p].flow)
  /\ proc[p].pc \in Executing => proc[p].flow.steps[proc[p].step] = "RUNNING"

CopyInv == \A p \in Procs : CycleKeeps(p)

(* The step in execution goes on, with the same copy of the workflow.      *)
GoesOn(p) ==
  /\ \A q \in Procs : q # p => proc'[q] = proc[q]
  /\ proc[p].pc \in Executing /\ proc'[p].pc \in Executing
  /\ proc'[p].wf = proc[p].wf /\ proc'[p].flow = proc[p].flow
  /\ proc'[p].step = proc[p].step
  /\ UNCHANGED store

GoOnStep(p) ==
  \/ BeginExecution(p) \/ CreateExecution(p) \/ ResetFailedExecution(p)
  \/ BoundaryBlocks(p)
  \/ \E result \in Outcomes \ {"throws"} : ProviderAnswers(p, result)
  \/ RecordExecution(p)

LEMMA GoOnSteps ==
  ASSUME TypeInv, NEW p \in Procs, GoOnStep(p)
  PROVE  GoesOn(p)
  <1>0. proc \in [Procs -> ShapedCycle]
    BY DEF TypeInv
  <1> USE <1>0 DEF GoesOn, Executing, ToProvider, WithResult, At, Goto,
                   ShapedCycle, Cycle
  <1>1. CASE BeginExecution(p)
    BY <1>1 DEF BeginExecution, Begin
  <1>2. CASE CreateExecution(p)
    BY <1>2 DEF CreateExecution
  <1>3. CASE ResetFailedExecution(p)
    BY <1>3 DEF ResetFailedExecution
  <1>4. CASE BoundaryBlocks(p)
    BY <1>4 DEF BoundaryBlocks
  <1>5. ASSUME NEW result \in Outcomes \ {"throws"}, ProviderAnswers(p, result)
        PROVE  GoesOn(p)
    BY <1>5 DEF ProviderAnswers
  <1>6. CASE RecordExecution(p)
    BY <1>6 DEF RecordExecution
  <1> QED BY <1>1, <1>2, <1>3, <1>4, <1>5, <1>6 DEF GoOnStep

(* A cycle settles its step in its copy; SettleExecuted stores the copy.   *)
Rewrites(p, flow) ==
  /\ \A q \in Procs : q # p => proc'[q] = proc[q]
  /\ At(p, "settle") /\ proc[p].step \in Steps /\ proc[p].wf \in Workflows
  /\ proc'[p].pc \in {"complete", "save"}
  /\ proc'[p].wf = proc[p].wf /\ proc'[p].flow = flow
  /\ flow \in Workflow
  /\ \A s \in Steps : s # proc[p].step => flow.steps[s] = proc[p].flow.steps[s]
  /\ store' \in {store, [store EXCEPT ![proc[p].wf] = flow]}

LEMMA RewriteSteps ==
  ASSUME TypeInv, NEW p \in Procs,
         SettleExecuted(p) \/ SettleRetry(p) \/ SettleFailure(p)
  PROVE  \E flow : Rewrites(p, flow)
  <1>1. /\ proc \in [Procs -> ShapedCycle] /\ At(p, "settle")
        /\ proc[p].step \in Steps /\ proc[p].wf \in Workflows
        /\ proc[p].flow \in Workflow /\ proc[p].result \in AgentResult
    BY DEF TypeInv, ShapedCycle, CycleShape, Cycle, HoldingPC, At,
           SettleExecuted, SettleRetry, SettleFailure
  <1>2. ASSUME NEW status \in StepStatus
        PROVE  LET flow == WithStep(proc[p].flow, proc[p].step, status)
               IN  /\ flow \in Workflow
                   /\ \A s \in Steps : s # proc[p].step
                        => flow.steps[s] = proc[p].flow.steps[s]
    BY <1>1, WithStepType DEF WithStep, Workflow
  <1>3. StatusAfter(proc[p].result) \in StepStatus
    BY <1>1 DEF StatusAfter, StepStatus
  <1>4. CASE SettleExecuted(p)
    <2> DEFINE flow == IF AllStepsCompleted(proc[p].wf, Settled(p))
                       THEN [Settled(p) EXCEPT !.status = "COMPLETED"]
                       ELSE Settled(p)
    <2>1. /\ Settled(p) \in Workflow
          /\ \A s \in Steps : s # proc[p].step
               => Settled(p).steps[s] = proc[p].flow.steps[s]
      BY <1>2, <1>3 DEF Settled
    <2>2. /\ flow \in Workflow /\ flow.steps = Settled(p).steps
      BY <2>1 DEF Workflow, WorkflowStatus
    <2>3. /\ store' = [store EXCEPT ![proc[p].wf] = flow]
          /\ proc' = [proc EXCEPT ![p] = [proc[p] EXCEPT !.pc = "complete", !.flow = flow]]
      BY <1>1, <1>4 DEF SettleExecuted, SaveWorkflow
    <2> HIDE DEF flow
    <2>4. Rewrites(p, flow)
      BY <1>1, <2>1, <2>2, <2>3 DEF Rewrites, ShapedCycle, Cycle
    <2> QED BY <2>4
  <1>5. CASE SettleRetry(p)
    <2> DEFINE flow == WithStep(proc[p].flow, proc[p].step, "READY")
    <2>1. /\ flow \in Workflow
          /\ \A s \in Steps : s # proc[p].step => flow.steps[s] = proc[p].flow.steps[s]
      BY <1>2 DEF StepStatus
    <2>2. /\ store' = store
          /\ proc' = [proc EXCEPT ![p] = [proc[p] EXCEPT !.pc = "save", !.flow = flow]]
      BY <1>1, <1>5 DEF SettleRetry
    <2> HIDE DEF flow
    <2>3. Rewrites(p, flow)
      BY <1>1, <2>1, <2>2 DEF Rewrites, ShapedCycle, Cycle
    <2> QED BY <2>3
  <1>6. CASE SettleFailure(p)
    <2>1. /\ Settled(p) \in Workflow
          /\ \A s \in Steps : s # proc[p].step
               => Settled(p).steps[s] = proc[p].flow.steps[s]
      BY <1>2, <1>3 DEF Settled
    <2>2. /\ store' = store
          /\ proc' = [proc EXCEPT ![p] = [proc[p] EXCEPT !.pc = "save", !.flow = Settled(p)]]
      BY <1>1, <1>6 DEF SettleFailure
    <2>3. Rewrites(p, Settled(p))
      BY <1>1, <2>1, <2>2 DEF Rewrites, ShapedCycle, Cycle
    <2> QED BY <2>3
  <1> QED BY <1>4, <1>5, <1>6

KeepsCompleted ==
  \A w \in Workflows, s \in Steps :
    store[w].steps[s] = "COMPLETED" => store'[w].steps[s] = "COMPLETED"

LEMMA CopyInit == Init => CopyInv
  BY DEF Init, CopyInv, CycleKeeps, At, IdleCycle

(* Only the cycle of the saved workflow could hold an older copy of it,    *)
(* and it holds what it has just saved.                                    *)
LEMMA CopyStep ==
  TypeInv /\ TypeInv' /\ CyclesApart /\ CopyInv /\ [Next]_vars
    => CopyInv' /\ KeepsCompleted
  <1> SUFFICES ASSUME TypeInv, TypeInv', CyclesApart, CopyInv, [Next]_vars
               PROVE  CopyInv' /\ KeepsCompleted
    OBVIOUS
  <1>0. /\ proc \in [Procs -> ShapedCycle] /\ proc' \in [Procs -> ShapedCycle]
        /\ store \in [Workflows -> Workflow]
        /\ \A p \in Procs : CycleKeeps(p)
    BY DEF TypeInv, TypeOK, CopyInv
  <1>1. ASSUME NEW p \in Procs, \A q \in Procs : q # p => proc'[q] = proc[q],
               UNCHANGED store, CycleKeeps(p)'
        PROVE  CopyInv' /\ KeepsCompleted
    BY <1>0, <1>1 DEF CopyInv, CycleKeeps, Kept, At, KeepsCompleted
  <1>2. ASSUME NEW p \in Procs, QuietStep(p) PROVE CopyInv' /\ KeepsCompleted
    <2>1. Quiet(p)
      BY <1>2, QuietSteps
    <2>2. CycleKeeps(p)'
      BY <1>0, <2>1 DEF Quiet, QuietMove, CycleKeeps, Kept, At, Executing
    <2> QED BY <1>1, <2>1, <2>2 DEF Quiet, QuietMove
  <1>3. ASSUME NEW p \in Procs, GoOnStep(p) PROVE CopyInv' /\ KeepsCompleted
    <2>1. GoesOn(p)
      BY <1>3, GoOnSteps
    <2>2. CycleKeeps(p)'
      BY <1>0, <2>1 DEF GoesOn, CycleKeeps, Kept, At, Executing, ToProvider, WithResult
    <2> QED BY <1>1, <2>1, <2>2 DEF GoesOn
  <1>4. ASSUME NEW p \in Procs, NEW w \in Workflows, StartCycle(p, w)
        PROVE  CopyInv' /\ KeepsCompleted
    <2>1. /\ \A q \in Procs : q # p => proc'[q] = proc[q]
          /\ UNCHANGED store
          /\ proc'[p].pc = "recover" /\ proc'[p].wf = w /\ proc'[p].flow = store[w]
      BY <1>0, <1>4 DEF StartCycle, IdleCycle
    <2>2. CycleKeeps(p)'
      BY <2>1 DEF CycleKeeps, Kept, Executing, ToProvider, WithResult
    <2> QED BY <1>1, <2>1, <2>2
  <1>5. ASSUME NEW p \in Procs, ProviderThrows(p) PROVE CopyInv' /\ KeepsCompleted
    <2>1. /\ \A q \in Procs : q # p => proc'[q] = proc[q]
          /\ UNCHANGED store /\ proc'[p].pc = "idle"
      BY <1>0, <1>5 DEF ProviderThrows, EndCycle, IdleCycle
    <2>2. CycleKeeps(p)'
      BY <2>1 DEF CycleKeeps, At
    <2> QED BY <1>1, <2>1, <2>2
  <1>6. ASSUME NEW p \in Procs, RunReadyStep(p) PROVE CopyInv' /\ KeepsCompleted
    <2>1. /\ \A q \in Procs : q # p => proc'[q] = proc[q]
          /\ UNCHANGED store
          /\ proc[p].pc = "run" /\ proc'[p].pc = "begin" /\ proc[p].step \in Steps
          /\ proc'[p].wf = proc[p].wf /\ proc'[p].step = proc[p].step
          /\ proc'[p].flow = WithStep(proc[p].flow, proc[p].step, "RUNNING")
          /\ proc[p].flow \in Workflow
          /\ proc[p].flow.steps[proc[p].step] # "COMPLETED"
      BY <1>0, <1>6 DEF RunReadyStep, CanRun, RunnableStepIds, At, ShapedCycle,
                        CycleShape, Cycle, HoldingPC
    <2>2. /\ proc'[p].flow.steps[proc[p].step] = "RUNNING"
          /\ \A s \in Steps : s # proc[p].step
               => proc'[p].flow.steps[s] = proc[p].flow.steps[s]
      BY <2>1 DEF WithStep, Workflow
    <2>3. Kept(proc[p].wf, proc[p].flow)
      BY <1>0, <2>1 DEF CycleKeeps, At
    <2>4. CycleKeeps(p)'
      BY <2>1, <2>2, <2>3 DEF CycleKeeps, Kept, Executing, ToProvider, WithResult, At
    <2> QED BY <1>1, <2>1, <2>4
  <1>7. ASSUME NEW p \in Procs, NEW flow, Rewrites(p, flow)
        PROVE  CopyInv' /\ KeepsCompleted
    <2>1. /\ Kept(proc[p].wf, proc[p].flow)
          /\ proc[p].flow.steps[proc[p].step] = "RUNNING"
      BY <1>0, <1>7 DEF Rewrites, CycleKeeps, At, Executing, WithResult
    <2>2. Kept(proc[p].wf, flow)
      BY <1>7, <2>1 DEF Rewrites, Kept
    <2>3. \/ store' = store
          \/ /\ store'[proc[p].wf] = flow
             /\ \A w \in Workflows : w # proc[p].wf => store'[w] = store[w]
      BY <1>0, <1>7 DEF Rewrites
    <2>4. KeepsCompleted
      BY <2>2, <2>3 DEF KeepsCompleted, Kept
    <2>5. CycleKeeps(p)'
      BY <1>7, <2>2, <2>3 DEF Rewrites, CycleKeeps, Kept, Executing, ToProvider, WithResult
    <2>6. ASSUME NEW q \in Procs, q # p PROVE CycleKeeps(q)'
      <3>1. proc'[q] = proc[q] /\ CycleKeeps(q)
        BY <1>0, <1>7, <2>6 DEF Rewrites
      <3>2. SUFFICES ASSUME ~At(q, "idle") PROVE CycleKeeps(q)'
        BY <3>1 DEF CycleKeeps, At
      <3>3. proc[q].wf # proc[p].wf /\ proc[q].wf \in Workflows
        BY <1>0, <2>6, <3>2 DEF CyclesApart, At, ShapedCycle, CycleShape
      <3>4. store'[proc[q].wf] = store[proc[q].wf]
        BY <2>3, <3>3
      <3> QED BY <3>1, <3>4 DEF CycleKeeps, Kept, At
    <2> QED BY <2>4, <2>5, <2>6 DEF CopyInv
  <1>8. ASSUME NEW p \in Procs, SaveAndFinish(p) PROVE CopyInv' /\ KeepsCompleted
    <2>1. /\ proc[p].pc = "save" /\ proc[p].wf \in Workflows
          /\ store'[proc[p].wf] = proc[p].flow
          /\ \A w \in Workflows : w # proc[p].wf => store'[w] = store[w]
          /\ \A q \in Procs : q # p => proc'[q] = proc[q]
          /\ proc'[p].pc = "idle"
      BY <1>0, <1>8 DEF SaveAndFinish, SaveWorkflow, EndCycle, IdleCycle, At,
                        ShapedCycle, CycleShape
    <2>2. KeepsCompleted
      BY <1>0, <2>1 DEF KeepsCompleted, CycleKeeps, Kept, At
    <2>3. ASSUME NEW q \in Procs, q # p, ~At(q, "idle") PROVE CycleKeeps(q)'
      <3>1. proc[q].wf # proc[p].wf /\ proc[q].wf \in Workflows
        BY <1>0, <2>3 DEF CyclesApart, At, ShapedCycle, CycleShape
      <3> QED BY <1>0, <2>1, <2>3, <3>1 DEF CycleKeeps, Kept, At
    <2> QED BY <2>1, <2>2, <2>3 DEF CopyInv, CycleKeeps, At
  <1>9. CASE (\E s \in Steps : TimePasses(s) \/ ClaimOutlived(s)) \/ UNCHANGED vars
    <2>1. UNCHANGED <<store, proc>>
      BY <1>9 DEF TimePasses, ClaimOutlived, vars
    <2> QED BY <2>1 DEF CopyInv, CycleKeeps, Kept, At, KeepsCompleted
  <1> QED
    BY <1>2, <1>3, <1>4, <1>5, <1>6, <1>7, <1>8, <1>9, RewriteSteps
    DEF Next, CycleStep, QuietStep, GoOnStep

(* A step once stored as COMPLETED stays COMPLETED, whatever the provider  *)
(* does and wherever processes die, while the cycles of one workflow do    *)
(* not overlap. Claims may go stale and other workflows may be run at the  *)
(* same time.                                                              *)
THEOREM CompletedForGood == Spec /\ []CyclesApart => CompletedStaysCompleted
  <1>1. KeepsCompleted =>
          \A w \in Workflows, s \in Steps :
            store[w].steps[s] = "COMPLETED" => store'[w].steps[s] = "COMPLETED"
    BY DEF KeepsCompleted
  <1> QED
    BY <1>1, TypeInit, TypeStep, CopyInit, CopyStep, PTL
    DEF Spec, CompletedStaysCompleted

(* One process runs its cycles one after another: with it alone nothing    *)
(* more has to be assumed.                                                 *)
THEOREM CompletedForGoodAlone ==
  ASSUME \A p, q \in Procs : p = q
  PROVE  Spec => CompletedStaysCompleted
  <1>1. CyclesApart
    BY DEF CyclesApart
  <1> QED
    BY <1>1, CompletedForGood, PTL
-----------------------------------------------------------------------------
(* The refinement of OrderedExecution. A call of the provider is a call, a *)
(* save of a workflow is a save of what its copy says, and everything else *)
(* is a stutter. TruthInv gives the guards about dependencies and stored   *)
(* truth, EffectInv the one about earlier effects.                         *)

StutterStep(p) ==
  \/ \E w \in Workflows : StartCycle(p, w)
  \/ QuietStep(p) \/ RunReadyStep(p) \/ BeginExecution(p) \/ CreateExecution(p)
  \/ ResetFailedExecution(p) \/ BoundaryBlocks(p) \/ RecordExecution(p)
  \/ SettleRetry(p) \/ SettleFailure(p)

LEMMA StutterSteps ==
  ASSUME TypeInv, NEW p \in Procs, StutterStep(p)
  PROVE  UNCHANGED <<store, provider>>
  <1>1. CASE QuietStep(p)
    BY <1>1, QuietSteps DEF Quiet
  <1>2. CASE ~QuietStep(p)
    BY <1>2 DEF StutterStep, StartCycle, RunReadyStep, BeginExecution,
                CreateExecution, ResetFailedExecution, BoundaryBlocks,
                RecordExecution, SettleRetry, SettleFailure
  <1> QED BY <1>1, <1>2

LEMMA Stuttering ==
  ASSUME UNCHANGED <<store, provider>>
  PROVE  UNCHANGED Ordered!vars
  BY DEF Ordered!vars

(* A call made at "dispatch" is a call the promise allows.                 *)
LEMMA CallRefines ==
  ASSUME TypeInv, TruthInv, EffectInv, NEW p \in Procs, At(p, "dispatch"),
         NEW acted \in BOOLEAN, NEW confirmed \in BOOLEAN, confirmed => acted,
         Called(proc[p].step, acted, confirmed), UNCHANGED store
  PROVE  Ordered!Next
  <1> DEFINE s == proc[p].step
  <1>1. /\ s \in Steps /\ provider \in [Steps -> ProviderRow]
        /\ DependsOn[s] \subseteq Verified
        /\ s \in Steps \ SlowSteps => provider[s].effects = 0
    BY DEF TypeInv, TypeOK, ShapedCycle, CycleShape, HoldingPC, At, TruthInv,
           CycleTruth, ToProvider, EffectInv, CycleEffect, Quick
  <1>2. /\ \A t \in Steps : t # s => provider'[t] = provider[t]
        /\ provider'[s].calls = provider[s].calls + 1
        /\ provider'[s].effects = IF acted THEN provider[s].effects + 1 ELSE provider[s].effects
        /\ provider'[s].verified <=> provider[s].verified \/ confirmed
    BY <1>1 DEF Called, ProviderRow
  <1> HIDE DEF s
  <1>3. [t \in Steps |-> provider'[t].calls]
          = [[t \in Steps |-> provider[t].calls] EXCEPT ![s] = @ + 1]
    BY <1>1, <1>2
  <1>4. [t \in Steps |-> provider'[t].effects]
          = IF acted THEN [[t \in Steps |-> provider[t].effects] EXCEPT ![s] = @ + 1]
            ELSE [t \in Steps |-> provider[t].effects]
    BY <1>1, <1>2
  <1>5. {t \in Steps : provider'[t].verified}
          = IF confirmed THEN {t \in Steps : provider[t].verified} \cup {s}
            ELSE {t \in Steps : provider[t].verified}
    BY <1>1, <1>2
  <1>6. Ordered!Call(s, acted, confirmed)
    BY <1>1, <1>3, <1>4, <1>5 DEF Ordered!Call, Verified
  <1> QED BY <1>1, <1>6 DEF Ordered!Next

(* Saving a true copy is a save the promise allows.                        *)
LEMMA SaveRefines ==
  ASSUME TypeInv, NEW w \in Workflows, NEW flow \in Workflow,
         FlowTruth(w, flow, Verified), SaveWorkflow(w, flow), UNCHANGED provider
  PROVE  Ordered!Next
  <1> DEFINE done == {s \in StepsOf(w) : flow.steps[s] = "COMPLETED"}
             all  == flow.status = "COMPLETED"
  <1>1. /\ store'[w] = flow
        /\ \A v \in Workflows : v # w => store'[v] = store[v]
    BY DEF SaveWorkflow, TypeInv, TypeOK
  <1>2. Ordered!StepsOf(w) = StepsOf(w)
    BY DEF Ordered!StepsOf, StepsOf
  <1>3. done \subseteq StepsOf(w) \cap Verified /\ (all => StepsOf(w) \subseteq Verified)
    BY DEF FlowTruth
  <1>4. {s \in Steps : store'[WorkflowOf[s]].steps[s] = "COMPLETED"}
          = ({s \in Steps : store[WorkflowOf[s]].steps[s] = "COMPLETED"} \ StepsOf(w)) \cup done
    <2>1. ASSUME NEW s \in StepsOf(w)
          PROVE  store'[WorkflowOf[s]].steps[s] = "COMPLETED" <=> s \in done
      BY <1>1 DEF StepsOf
    <2>2. ASSUME NEW s \in Steps \ StepsOf(w)
          PROVE  store'[WorkflowOf[s]] = store[WorkflowOf[s]]
      BY <1>1, EngineAssumption DEF StepsOf
    <2> QED BY <2>1, <2>2 DEF StepsOf
  <1>5. {v \in Workflows : store'[v].status = "COMPLETED"}
          = IF all THEN {v \in Workflows : store[v].status = "COMPLETED"} \cup {w}
            ELSE {v \in Workflows : store[v].status = "COMPLETED"} \ {w}
    BY <1>1
  <1>6. /\ [t \in Steps |-> provider'[t].calls] = [t \in Steps |-> provider[t].calls]
        /\ [t \in Steps |-> provider'[t].effects] = [t \in Steps |-> provider[t].effects]
        /\ {t \in Steps : provider'[t].verified} = {t \in Steps : provider[t].verified}
    OBVIOUS
  <1>7. done \in SUBSET Steps /\ all \in BOOLEAN
    BY DEF StepsOf
  <1> HIDE DEF done, all
  <1>8. Ordered!Save(w, done, all)
    BY <1>2, <1>3, <1>4, <1>5, <1>6 DEF Ordered!Save, Verified
  <1> QED BY <1>7, <1>8 DEF Ordered!Next

LEMMA InitRefines == Init => Ordered!Init
  BY EngineAssumption DEF Init, Ordered!Init, Compiled

LEMMA StepRefines ==
  TypeInv /\ TruthInv /\ EffectInv /\ [Next]_vars => [Ordered!Next]_(Ordered!vars)
  <1> SUFFICES ASSUME TypeInv, TruthInv, EffectInv, [Next]_vars
               PROVE  Ordered!Next \/ UNCHANGED Ordered!vars
    OBVIOUS
  <1>0. \A p \in Procs : proc[p] \in ShapedCycle /\ CycleTruth(proc[p], Verified)
    BY DEF TypeInv, TruthInv
  <1>1. ASSUME NEW p \in Procs, StutterStep(p) PROVE UNCHANGED Ordered!vars
    BY <1>1, StutterSteps, Stuttering
  <1>2. ASSUME NEW p \in Procs, NEW result \in Outcomes \ {"throws"},
               ProviderAnswers(p, result)
        PROVE  Ordered!Next
    <2>1. /\ At(p, "dispatch") /\ UNCHANGED store
          /\ Called(proc[p].step, Executed(result), result = "verified")
          /\ Executed(result) \in BOOLEAN /\ (result = "verified") \in BOOLEAN
          /\ result = "verified" => Executed(result)
      BY <1>2 DEF ProviderAnswers, Executed
    <2> QED BY <2>1, CallRefines
  <1>3. ASSUME NEW p \in Procs, ProviderThrows(p) PROVE Ordered!Next
    <2>1. /\ At(p, "dispatch") /\ UNCHANGED store
          /\ Called(proc[p].step, TRUE, FALSE)
      BY <1>3 DEF ProviderThrows
    <2> QED BY <2>1, CallRefines
  <1>4. ASSUME NEW p \in Procs, SettleExecuted(p) PROVE Ordered!Next
    <2> DEFINE flow == IF AllStepsCompleted(proc[p].wf, Settled(p))
                       THEN [Settled(p) EXCEPT !.status = "COMPLETED"]
                       ELSE Settled(p)
    <2>1. /\ At(p, "settle") /\ proc[p].wf \in Workflows
          /\ SaveWorkflow(proc[p].wf, flow) /\ UNCHANGED provider
      BY <1>0, <1>4 DEF SettleExecuted, At, ShapedCycle, CycleShape
    <2>2. flow \in Workflow /\ FlowTruth(proc[p].wf, flow, Verified)
      BY <2>1, SettledTruth DEF FlowTruth, AllStepsCompleted, Workflow, WorkflowStatus
    <2> HIDE DEF flow
    <2> QED BY <2>1, <2>2, SaveRefines
  <1>5. ASSUME NEW p \in Procs, SaveAndFinish(p) PROVE Ordered!Next
    <2>1. /\ proc[p].wf \in Workflows /\ proc[p].flow \in Workflow
          /\ SaveWorkflow(proc[p].wf, proc[p].flow) /\ UNCHANGED provider
          /\ FlowTruth(proc[p].wf, proc[p].flow, Verified)
      BY <1>0, <1>5 DEF SaveAndFinish, At, ShapedCycle, CycleShape, Cycle, CycleTruth
    <2> QED BY <2>1, SaveRefines
  <1>6. CASE (\E s \in Steps : TimePasses(s) \/ ClaimOutlived(s)) \/ UNCHANGED vars
    <2>1. UNCHANGED <<store, provider>>
      BY <1>6 DEF TimePasses, ClaimOutlived, vars
    <2> QED BY <2>1, Stuttering
  <1> QED
    BY <1>1, <1>2, <1>3, <1>4, <1>5, <1>6
    DEF Next, CycleStep, StutterStep, QuietStep

(* The runtime implements OrderedExecution: whatever processes, stale      *)
(* copies and crashes do, calls respect the dependencies, no step whose    *)
(* cycle is in time is called after an effect, and what is stored as       *)
(* completed was verified.                                                 *)
THEOREM Refinement == Spec => RunsInOrder
  <1>1. Init => Ordered!Init
    BY InitRefines
  <1>2. TypeInv /\ TruthInv /\ EffectInv /\ [Next]_vars => [Ordered!Next]_(Ordered!vars)
    BY StepRefines
  <1> QED
    BY <1>1, <1>2, TypeInit, TypeStep, TruthInit, TruthStep, OwnInit, OwnStep,
       EffectInit, EffectStep, PTL
    DEF Spec, RunsInOrder, Ordered!Spec
-----------------------------------------------------------------------------
(* The promise itself, for the runtime. A call is the only step that       *)
(* changes the provider; it is made by a process at "dispatch".            *)

LEMMA ProviderSteps ==
  ASSUME TypeInv, [Next]_vars
  PROVE  \/ UNCHANGED provider
         \/ \E p \in Procs, acted, confirmed \in BOOLEAN :
              /\ At(p, "dispatch")
              /\ confirmed => acted
              /\ Called(proc[p].step, acted, confirmed)
  <1>1. ASSUME NEW p \in Procs, StutterStep(p) PROVE UNCHANGED provider
    BY <1>1, StutterSteps
  <1>2. ASSUME NEW p \in Procs, SettleExecuted(p) \/ SaveAndFinish(p)
        PROVE  UNCHANGED provider
    BY <1>2 DEF SettleExecuted, SaveAndFinish
  <1>3. ASSUME NEW p \in Procs, NEW result \in Outcomes \ {"throws"},
               ProviderAnswers(p, result)
        PROVE  /\ At(p, "dispatch")
               /\ Called(proc[p].step, Executed(result), result = "verified")
               /\ Executed(result) \in BOOLEAN /\ (result = "verified") \in BOOLEAN
               /\ result = "verified" => Executed(result)
    BY <1>3 DEF ProviderAnswers, Executed
  <1>4. ASSUME NEW p \in Procs, ProviderThrows(p)
        PROVE  At(p, "dispatch") /\ Called(proc[p].step, TRUE, FALSE)
    BY <1>4 DEF ProviderThrows
  <1>5. CASE (\E s \in Steps : TimePasses(s) \/ ClaimOutlived(s)) \/ UNCHANGED vars
    BY <1>5 DEF TimePasses, ClaimOutlived, vars
  <1> QED
    BY <1>1, <1>2, <1>3, <1>4, <1>5
    DEF Next, CycleStep, StutterStep, QuietStep

CallInv == \A s \in Steps :
  /\ provider[s].calls > 0 => DependsOn[s] \subseteq Verified
  /\ provider[s].verified => provider[s].effects > 0 /\ provider[s].calls > 0
  /\ s \notin SlowSteps => provider[s].effects <= 1

LEMMA CallInit == Init => CallInv
  BY DEF Init, CallInv

LEMMA CallStep ==
  TypeInv /\ TypeInv' /\ TruthInv /\ EffectInv /\ CallInv /\ [Next]_vars => CallInv'
  <1> SUFFICES ASSUME TypeInv, TypeInv', TruthInv, EffectInv, CallInv, [Next]_vars
               PROVE  CallInv'
    OBVIOUS
  <1>1. CASE UNCHANGED provider
    BY <1>1 DEF CallInv, Verified
  <1>2. ASSUME NEW p \in Procs, NEW acted \in BOOLEAN, NEW confirmed \in BOOLEAN,
               At(p, "dispatch"), confirmed => acted,
               Called(proc[p].step, acted, confirmed)
        PROVE  CallInv'
    <2> DEFINE s == proc[p].step
    <2>1. /\ s \in Steps /\ provider \in [Steps -> ProviderRow]
          /\ DependsOn[s] \subseteq Verified
          /\ s \in Steps \ SlowSteps => provider[s].effects = 0
      BY <1>2 DEF TypeInv, TypeOK, ShapedCycle, CycleShape, HoldingPC, At, TruthInv,
                  CycleTruth, ToProvider, EffectInv, CycleEffect, Quick
    <2>2. /\ \A t \in Steps : t # s => provider'[t] = provider[t]
          /\ provider'[s].calls = provider[s].calls + 1
          /\ provider'[s].effects = IF acted THEN provider[s].effects + 1
                                    ELSE provider[s].effects
          /\ provider'[s].verified <=> provider[s].verified \/ confirmed
      BY <1>2, <2>1 DEF Called, ProviderRow
    <2> HIDE DEF s
    <2>3. Verified \subseteq Verified'
      BY <2>1, <2>2 DEF Verified
    <2>4. ASSUME NEW t \in Steps, t # s
          PROVE  /\ provider'[t].calls > 0 => DependsOn[t] \subseteq Verified'
                 /\ provider'[t].verified => provider'[t].effects > 0 /\ provider'[t].calls > 0
                 /\ t \notin SlowSteps => provider'[t].effects <= 1
      BY <2>2, <2>3, <2>4 DEF CallInv
    <2>5. provider[s].effects \in Nat /\ provider[s].calls \in Nat
      BY <2>1 DEF ProviderRow
    <2>6. /\ provider'[s].verified => provider'[s].effects > 0 /\ provider'[s].calls > 0
          /\ s \notin SlowSteps => provider'[s].effects <= 1
      BY <1>2, <2>1, <2>2, <2>5 DEF CallInv
    <2> QED BY <2>1, <2>3, <2>4, <2>6 DEF CallInv
  <1> QED BY <1>1, <1>2, ProviderSteps

(* A step has been called only after an effect of every step it depends    *)
(* on, one whose cycle is in time has had one effect at most, and a stored *)
(* or finished workflow is true of the provider, at every moment.          *)
THEOREM PromiseKept == Spec => []Ordered!Promise
  <1>1. TypeInv /\ TruthInv /\ CallInv => Ordered!Promise
    <2> SUFFICES ASSUME TypeInv, TruthInv, CallInv PROVE Ordered!Promise
      OBVIOUS
    <2>1. ASSUME NEW s \in Steps, provider[s].calls > 0, NEW d \in DependsOn[s]
          PROVE  d \in Steps /\ provider[d].verified /\ provider[d].effects > 0
      BY <2>1, EngineAssumption DEF CallInv, Verified
    <2>2. \A s \in Steps \ SlowSteps : provider[s].effects <= 1
      BY DEF CallInv
    <2>3. ASSUME NEW s \in Steps, store[WorkflowOf[s]].steps[s] = "COMPLETED"
          PROVE  provider[s].verified
      BY <2>3, EngineAssumption DEF TruthInv, FlowTruth, StepsOf, Verified
    <2>4. ASSUME NEW w \in Workflows, store[w].status = "COMPLETED",
                 NEW s \in Steps, WorkflowOf[s] = w
          PROVE  provider[s].verified
      BY <2>4 DEF TruthInv, FlowTruth, StepsOf, Verified
    <2> QED
      BY <2>1, <2>2, <2>3, <2>4 DEF Ordered!Promise, Ordered!StepsOf
  <1> QED
    BY <1>1, TypeInit, TypeStep, TruthInit, TruthStep, OwnInit, OwnStep,
       EffectInit, EffectStep, CallInit, CallStep, PTL
    DEF Spec

(* Steps that wait for each other wait for ever: the compiler accepts a    *)
(* cycle of dependencies, and none of its steps, nor of those behind it,   *)
(* ever reaches the provider.                                              *)
THEOREM CyclesWait ==
  ASSUME NEW S \in SUBSET Steps, \A s \in S : DependsOn[s] \cap S # {}
  PROVE  Spec => [](\A s \in S : provider[s].calls = 0)
  <1> DEFINE Waiting == \A s \in S : provider[s].calls = 0
  <1>1. Init => Waiting
    BY DEF Init
  <1>2. TypeInv /\ TruthInv /\ CallInv /\ Waiting /\ [Next]_vars => Waiting'
    <2> SUFFICES ASSUME TypeInv, TruthInv, CallInv, Waiting, [Next]_vars, NEW s \in S
                 PROVE  provider'[s].calls = 0
      OBVIOUS
    <2>1. CASE UNCHANGED provider
      BY <2>1
    <2>2. ASSUME NEW p \in Procs, NEW acted \in BOOLEAN, NEW confirmed \in BOOLEAN,
                 At(p, "dispatch"), Called(proc[p].step, acted, confirmed)
          PROVE  provider'[s].calls = 0
      <3>1. proc[p].step \in Steps /\ DependsOn[proc[p].step] \subseteq Verified
        BY <2>2 DEF TypeInv, ShapedCycle, CycleShape, HoldingPC, At, TruthInv,
                    CycleTruth, ToProvider
      <3>2. proc[p].step # s
        BY <3>1 DEF CallInv, Verified
      <3> QED BY <2>2, <3>1, <3>2 DEF Called, TypeInv, TypeOK
    <2> QED BY <2>1, <2>2, ProviderSteps
  <1> QED
    BY <1>1, <1>2, TypeInit, TypeStep, TruthInit, TruthStep, OwnInit, OwnStep,
       EffectInit, EffectStep, CallInit, CallStep, PTL
    DEF Spec
-----------------------------------------------------------------------------
(* What the queue and the ledger say is true (RecordedTruth). A result on  *)
(* its way from the provider to a record must be true, too.                *)

Claims(c) == c.pc = "complete" \/ (c.pc \in WithResult /\ Executed(c.result))

ActedInv ==
  /\ \A s \in Steps :
       queue[s].status = "COMPLETED" \/ ledger[s].executed => provider[s].effects > 0
  /\ \A p \in Procs : Claims(proc[p]) => provider[proc[p].step].effects > 0

LEMMA ActedInit == Init => ActedInv
  BY DEF Init, ActedInv, QueueInit, NoRow, LedgerInit, NoExecution, Claims,
         IdleCycle, WithResult

(* Only CompleteClaim makes a row COMPLETED.                               *)
LEMMA RowsCompleted ==
  ASSUME TypeInv, [Next]_vars, NEW s \in Steps,
         queue'[s].status = "COMPLETED", queue[s].status # "COMPLETED"
  PROVE  \E p \in Procs : CompleteClaim(p) /\ proc[p].step = s
  <1> USE DEF TypeInv, TypeOK, QueueRow
  <1>2. ASSUME NEW p \in Procs,
               \/ RecoverStaleClaims(p) \/ ScheduleStep(p) \/ ClaimNext(p)
               \/ RejectClaim(p) \/ SettleRetry(p) \/ SettleFailure(p)
        PROVE  FALSE
    <2>1. CASE RecoverStaleClaims(p)
      BY <2>1 DEF RecoverStaleClaims, RecoverRows
    <2>2. CASE ScheduleStep(p)
      BY <2>2 DEF ScheduleStep, Enqueue
    <2>3. CASE ClaimNext(p)
      BY <2>3 DEF ClaimNext, ClaimRow
    <2>4. CASE RejectClaim(p) \/ SettleFailure(p)
      <3>1. SetStatus(proc[p].step, "FAILED")
        BY <2>4 DEF RejectClaim, FailRow, SettleFailure
      <3> QED BY <3>1 DEF SetStatus
    <2>5. CASE SettleRetry(p)
      BY <2>5 DEF SettleRetry, RetryRow, SetStatus
    <2> QED BY <1>2, <2>1, <2>2, <2>3, <2>4, <2>5
  <1>3. ASSUME NEW p \in Procs, CompleteClaim(p) PROVE proc[p].step = s
    BY <1>3 DEF CompleteClaim, CompleteRow, SetStatus
  <1>4. ASSUME NEW r \in Steps, TimePasses(r) \/ ClaimOutlived(r) PROVE FALSE
    BY <1>4 DEF TimePasses, ClaimOutlived
  <1>5. ~UNCHANGED vars
    BY DEF vars
  <1>6. ASSUME NEW p \in Procs,
               \/ \E w \in Workflows : StartCycle(p, w)
               \/ \E r \in Steps : LookUpRow(p, r) \/ PickCandidate(p, r)
               \/ ScheduleDuplicate(p) \/ ScheduleDone(p) \/ NothingToClaim(p) \/ ClaimLost(p)
               \/ RunReadyStep(p) \/ BeginExecution(p) \/ CreateExecution(p)
               \/ CreateRaceLost(p) \/ ResetFailedExecution(p) \/ BoundaryBlocks(p)
               \/ \E result \in Outcomes \ {"throws"} : ProviderAnswers(p, result)
               \/ ProviderThrows(p) \/ RecordExecution(p) \/ SettleExecuted(p)
               \/ RetryRefused(p) \/ SaveAndFinish(p) \/ Crash(p)
        PROVE  FALSE
    BY <1>6 DEF StartCycle, LookUpRow, PickCandidate, ScheduleDuplicate, ScheduleDone,
                NothingToClaim, ClaimLost, RunReadyStep, BeginExecution, CreateExecution,
                CreateRaceLost, ResetFailedExecution, BoundaryBlocks, ProviderAnswers,
                ProviderThrows, RecordExecution, SettleExecuted, RetryRefused, SaveAndFinish,
                Crash
  <1> QED BY <1>2, <1>3, <1>4, <1>5, <1>6 DEF Next, CycleStep

(* Only RecordExecution makes a row of the ledger executed.                *)
LEMMA LedgerExecuted ==
  ASSUME TypeInv, [Next]_vars, NEW s \in Steps, ledger'[s].executed, ~ledger[s].executed
  PROVE  \E p \in Procs :
           RecordExecution(p) /\ proc[p].step = s /\ Executed(proc[p].result)
  <1> USE DEF TypeInv, TypeOK, LedgerRow
  <1>1. ASSUME NEW p \in Procs, QuietStep(p) PROVE FALSE
    BY <1>1, QuietSteps DEF Quiet
  <1>2. ASSUME NEW p \in Procs,
               \/ \E w \in Workflows : StartCycle(p, w)
               \/ RunReadyStep(p) \/ BeginExecution(p) \/ BoundaryBlocks(p)
               \/ \E result \in Outcomes \ {"throws"} : ProviderAnswers(p, result)
               \/ ProviderThrows(p) \/ SettleExecuted(p) \/ SettleRetry(p)
               \/ SettleFailure(p) \/ SaveAndFinish(p)
        PROVE  FALSE
    BY <1>2 DEF StartCycle, RunReadyStep, BeginExecution, BoundaryBlocks, ProviderAnswers,
                ProviderThrows, SettleExecuted, SettleRetry, SettleFailure, SaveAndFinish
  <1>3. ASSUME NEW p \in Procs, CreateExecution(p) \/ ResetFailedExecution(p) PROVE FALSE
    BY <1>3 DEF CreateExecution, CreateRow, ResetFailedExecution, ResetRow
  <1>4. ASSUME NEW p \in Procs, RecordExecution(p)
        PROVE  proc[p].step = s /\ Executed(proc[p].result)
    BY <1>4 DEF RecordExecution, CompleteExecution
  <1>5. ~((\E r \in Steps : TimePasses(r) \/ ClaimOutlived(r)) \/ UNCHANGED vars)
    BY DEF TimePasses, ClaimOutlived, vars
  <1> QED BY <1>1, <1>2, <1>3, <1>4, <1>5 DEF Next, CycleStep, QuietStep

(* A step of a process leaves the others alone.                            *)
LEMMA OnlyMoves ==
  ASSUME TypeInv, NEW q \in Procs, NEW p \in Procs, p # q,
         \/ \E w \in Workflows : StartCycle(q, w)
         \/ CycleStep(q) \/ ProviderThrows(q) \/ Crash(q)
  PROVE  proc'[p] = proc[p]
  <1>0. proc \in [Procs -> ShapedCycle]
    BY DEF TypeInv
  <1>1. CASE QuietStep(q)
    BY <1>1, QuietSteps DEF Quiet, QuietMove
  <1>2. CASE ~QuietStep(q)
    BY <1>0, <1>2 DEF QuietStep, CycleStep, StartCycle, RunReadyStep, BeginExecution,
       CreateExecution, ResetFailedExecution, BoundaryBlocks, ProviderAnswers, ProviderThrows,
       RecordExecution, SettleExecuted, SettleRetry, SettleFailure, SaveAndFinish, Goto, EndCycle
  <1> QED BY <1>1, <1>2

(* Where a process comes to claim that its step was executed: from such a  *)
(* claim, from the provider, or from the ledger.                           *)
LEMMA ClaimsMade ==
  ASSUME TypeInv, [Next]_vars, NEW p \in Procs, Claims(proc'[p])
  PROVE  /\ proc'[p].step \in Steps
         /\ \/ Claims(proc[p]) /\ proc'[p].step = proc[p].step
            \/ ledger[proc'[p].step].executed
            \/ provider'[proc'[p].step].effects > 0
  <1>0. proc \in [Procs -> ShapedCycle] /\ provider \in [Steps -> ProviderRow]
        /\ ledger \in [Steps -> LedgerRow]
    BY DEF TypeInv, TypeOK
  <1> USE DEF Claims
  <1>1. CASE proc'[p] = proc[p]
    BY <1>0, <1>1 DEF ShapedCycle, CycleShape, HoldingPC, WithResult
  <1>2. CASE QuietStep(p)
    BY <1>2, QuietSteps DEF Quiet, QuietMove, WithResult
  <1>3. CASE \/ \E w \in Workflows : StartCycle(p, w)
             \/ RunReadyStep(p) \/ CreateExecution(p) \/ ResetFailedExecution(p)
             \/ BoundaryBlocks(p) \/ ProviderThrows(p) \/ SettleRetry(p) \/ SettleFailure(p)
             \/ SaveAndFinish(p)
    <2>1. CASE \/ \E w \in Workflows : StartCycle(p, w)
               \/ ProviderThrows(p) \/ SaveAndFinish(p)
      <3>1. CASE \E w \in Workflows : StartCycle(p, w)
        BY <1>0, <3>1 DEF StartCycle, IdleCycle, WithResult
      <3>2. CASE ProviderThrows(p) \/ SaveAndFinish(p)
        <4>1. EndCycle(p)
          BY <3>2 DEF ProviderThrows, SaveAndFinish
        <4> QED BY <1>0, <4>1 DEF EndCycle, IdleCycle, WithResult
      <3> QED BY <2>1, <3>1, <3>2
    <2>2. CASE RunReadyStep(p) \/ CreateExecution(p) \/ ResetFailedExecution(p)
      BY <1>0, <2>2 DEF RunReadyStep, CreateExecution, ResetFailedExecution, Goto,
                        ShapedCycle, Cycle, WithResult
    <2>3. CASE BoundaryBlocks(p)
      BY <1>0, <2>3 DEF BoundaryBlocks, ShapedCycle, Cycle, WithResult, Executed
    <2>4. CASE SettleRetry(p) \/ SettleFailure(p)
      BY <1>0, <2>4 DEF SettleRetry, SettleFailure, ShapedCycle, Cycle, WithResult
    <2> QED BY <1>3, <2>1, <2>2, <2>3, <2>4
  <1>4. CASE BeginExecution(p)
    <2>1. proc[p].pc = "begin" /\ proc[p].step \in Steps /\ proc'[p].step = proc[p].step
      BY <1>0, <1>4 DEF BeginExecution, At, ShapedCycle, CycleShape, HoldingPC, Cycle
    <2>2. Begin(proc[p].step) = "recover"
      BY <1>0, <1>4, <2>1 DEF BeginExecution, Begin, ShapedCycle, Cycle, WithResult, Executed
    <2> QED BY <2>1, <2>2 DEF Begin
  <1>5. ASSUME NEW result \in Outcomes \ {"throws"}, ProviderAnswers(p, result)
        PROVE  proc'[p].step \in Steps /\ provider'[proc'[p].step].effects > 0
    <2>1. /\ proc[p].pc = "dispatch" /\ proc[p].step \in Steps /\ proc'[p].step = proc[p].step
          /\ proc'[p].result = result /\ proc'[p].pc = "record"
      BY <1>0, <1>5 DEF ProviderAnswers, At, ShapedCycle, CycleShape, HoldingPC, Cycle
    <2>2. Executed(result)
      BY <2>1
    <2>3. provider'[proc[p].step].effects = provider[proc[p].step].effects + 1
      BY <1>0, <1>5, <2>1, <2>2 DEF ProviderAnswers, Called, ProviderRow
    <2> QED BY <1>0, <2>1, <2>3 DEF ProviderRow
  <1>6. CASE RecordExecution(p) \/ SettleExecuted(p)
    BY <1>0, <1>6 DEF RecordExecution, SettleExecuted, At, Goto, ShapedCycle, CycleShape,
                      HoldingPC, Cycle, WithResult, Executed
  <1>7. CASE proc'[p] # proc[p]
    <2>1. ASSUME NEW q \in Procs, q # p,
                 \/ \E w \in Workflows : StartCycle(q, w)
                 \/ CycleStep(q) \/ ProviderThrows(q) \/ Crash(q)
          PROVE  FALSE
      BY <1>0, <1>7, <2>1, OnlyMoves
    <2>2. ~((\E s \in Steps : TimePasses(s) \/ ClaimOutlived(s)) \/ UNCHANGED vars)
      BY <1>7 DEF TimePasses, ClaimOutlived, vars
    <2>3. \/ \E w \in Workflows : StartCycle(p, w)
          \/ CycleStep(p) \/ ProviderThrows(p) \/ Crash(p)
      BY <2>1, <2>2 DEF Next
    <2> QED BY <1>2, <1>3, <1>4, <1>5, <1>6, <2>3 DEF CycleStep, QuietStep
  <1> QED BY <1>1, <1>7

LEMMA ActedStep == TypeInv /\ TypeInv' /\ ActedInv /\ [Next]_vars => ActedInv'
  <1> SUFFICES ASSUME TypeInv, TypeInv', ActedInv, [Next]_vars PROVE ActedInv'
    OBVIOUS
  <1>1. ASSUME NEW s \in Steps, provider[s].effects > 0
        PROVE  provider'[s].effects > 0
    <2>1. CASE UNCHANGED provider
      BY <1>1, <2>1
    <2>2. ASSUME NEW t, NEW acted \in BOOLEAN, NEW confirmed \in BOOLEAN,
                 Called(t, acted, confirmed)
          PROVE  provider'[s].effects > 0
      BY <1>1, <2>2 DEF Called, TypeInv, TypeOK, ProviderRow
    <2> QED BY <2>1, <2>2, ProviderSteps
  <1>2. ASSUME NEW p \in Procs, Claims(proc'[p])
        PROVE  provider'[proc'[p].step].effects > 0
    BY <1>1, <1>2, ClaimsMade DEF ActedInv
  <1>3. ASSUME NEW s \in Steps, queue'[s].status = "COMPLETED"
        PROVE  provider'[s].effects > 0
    <2>1. CASE queue[s].status = "COMPLETED"
      BY <1>1, <2>1 DEF ActedInv
    <2>2. CASE queue[s].status # "COMPLETED"
      <3>1. PICK p \in Procs : CompleteClaim(p) /\ proc[p].step = s
        BY <1>3, <2>2, RowsCompleted
      <3>2. Claims(proc[p])
        BY <3>1 DEF CompleteClaim, At, Claims
      <3> QED BY <1>1, <3>1, <3>2 DEF ActedInv
    <2> QED BY <2>1, <2>2
  <1>4. ASSUME NEW s \in Steps, ledger'[s].executed
        PROVE  provider'[s].effects > 0
    <2>1. CASE ledger[s].executed
      BY <1>1, <2>1 DEF ActedInv
    <2>2. CASE ~ledger[s].executed
      <3>1. PICK p \in Procs : RecordExecution(p) /\ proc[p].step = s /\ Executed(proc[p].result)
        BY <1>4, <2>2, LedgerExecuted
      <3>2. Claims(proc[p])
        BY <3>1 DEF RecordExecution, At, Claims, WithResult
      <3> QED BY <1>1, <3>1, <3>2 DEF ActedInv
    <2> QED BY <2>1, <2>2
  <1> QED BY <1>2, <1>3, <1>4 DEF ActedInv

(* A row that is COMPLETED, or recorded as executed, had an effect, and    *)
(* one recorded as verified was verified, also where several holders of a  *)
(* step overwrite each other's records.                                    *)
THEOREM RecordsTellTruth == Spec => []RecordedTruth
  <1>1. TypeInv /\ TruthInv /\ ActedInv => RecordedTruth
    BY DEF RecordedTruth, ActedInv, TruthInv, Verified
  <1> QED
    BY <1>1, TypeInit, TypeStep, TruthInit, TruthStep, ActedInit, ActedStep, PTL DEF Spec
=============================================================================
