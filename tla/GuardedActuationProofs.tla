----------------------- MODULE GuardedActuationProofs -----------------------
(***************************************************************************)
(* Theorems about GuardedActuation, for any number of dispatches and of    *)
(* server processes.                                                       *)
(***************************************************************************)
EXTENDS GuardedActuation, TLAPS

-----------------------------------------------------------------------------
(* Types *)

LEMMA RowTypes == Absent \in Row /\ InFlight \in Row /\ Absent # InFlight
  BY DEF Absent, InFlight, Row

LEMMA RowAfterType ==
  ASSUME row \in Row, NEW answer \in Answer
  PROVE  RowAfter(answer) \in Row
  BY DEF Absent, Row, RowAfter, Answer, Executed

LEMMA ReplayType ==
  ASSUME NEW found PROVE ReplayOutcome(found) \in {"VERIFIED", "EXECUTED", "UNKNOWN"}
  BY DEF ReplayOutcome

(* What holds of an answer once it is being recorded. *)
Answering == \A d \in Dispatches :
  dispatch[d].pc \in {"recording", "recorded", "unrecorded"} =>
    dispatch[d].answer \in Answer

LEMMA OutcomeTypes ==
  ASSUME TypeOK, Answering, NEW d \in Dispatches,
         dispatch[d].pc \in {"recorded", "unrecorded"}
  PROVE  /\ OwnOutcome(d) \in Outcome
         /\ WaiterOutcome(d) \in Outcome
  BY DEF Answering, OwnOutcome, WaiterOutcome, Reported, Outcome, Answer, At

(* One dispatch moves on. *)
LEMMA MoveTypes ==
  ASSUME TypeOK, Answering, NEW d \in Dispatches, NEW new \in Dispatch,
         dispatch' = [dispatch EXCEPT ![d] = new],
         new.pc \in {"recording", "recorded", "unrecorded"} =>
           new.answer \in Answer
  PROVE  dispatch' \in [Dispatches -> Dispatch] /\ Answering'
  BY DEF TypeOK, Answering

LEMMA InitTypes == Init => TypeOK /\ Answering
  BY ActuationAssumption, RowTypes
  DEF Init, TypeOK, Answering, Dispatch, NewDispatch, PC, Provider

LEMMA StepTypes ==
  ASSUME TypeOK, Answering, [Next]_vars
  PROVE  TypeOK' /\ Answering'
<1> USE DEF TypeOK, Answering, At, Goto, Return, Answered
<1>1. ASSUME NEW d \in Dispatches,
             BlockedByGovernance(d) \/ JoinLocal(d) \/ IssueCreate(d)
      PROVE  TypeOK' /\ Answering'
  <2>1. Promise(d) \in Dispatches \cup {NoDispatch}
    BY ActuationAssumption DEF Promise
  <2>2. CASE BlockedByGovernance(d)
    <3> DEFINE new == [dispatch[d] EXCEPT !.pc = "returned", !.outcome = "BLOCKED"]
    <3>1. new \in Dispatch /\ new.pc = "returned"
      BY DEF Dispatch, PC, Outcome
    <3>2. dispatch' = [dispatch EXCEPT ![d] = new]
      BY <2>2 DEF BlockedByGovernance
    <3> QED BY <2>2, <3>1, <3>2, MoveTypes DEF BlockedByGovernance
  <2>3. CASE JoinLocal(d)
    <3> DEFINE new == [dispatch[d] EXCEPT !.pc = "waiting", !.on = Promise(d)]
    <3>1. new \in Dispatch /\ new.pc = "waiting"
      BY <2>1 DEF Dispatch, PC
    <3>2. dispatch' = [dispatch EXCEPT ![d] = new]
      BY <2>3 DEF JoinLocal
    <3> QED BY <2>3, <3>1, <3>2, MoveTypes DEF JoinLocal
  <2>4. CASE IssueCreate(d)
    BY <2>4 DEF IssueCreate, Dispatch, PC
  <2> QED BY <1>1, <2>2, <2>3, <2>4
<1>2. ASSUME NEW d \in Dispatches, CreateRow(d) \/ CreateFails(d)
      PROVE  TypeOK' /\ Answering'
  <2>1. row' \in Row
    BY <1>2, RowTypes DEF CreateRow, CreateFails
  <2> QED BY <1>2, <2>1 DEF CreateRow, CreateFails, Dispatch, PC
<1>3. ASSUME NEW d \in Dispatches, ReadRow(d) \/ ClaimRejects(d)
      PROVE  TypeOK' /\ Answering'
  BY <1>3 DEF ReadRow, ClaimRejects, Dispatch, PC, Outcome
<1>4. ASSUME NEW d \in Dispatches, JoinFound(d)
      PROVE  TypeOK' /\ Answering'
  <2>1. Promise(d) \in Dispatches \cup {NoDispatch}
    BY ActuationAssumption DEF Promise
  <2> QED BY <1>4, <2>1 DEF JoinFound, Dispatch, PC
<1>5. ASSUME NEW d \in Dispatches, AnswerFound(d)
      PROVE  TypeOK' /\ Answering'
  <2>1. ReplayOutcome(dispatch[d].found) \in Outcome
    BY ReplayType DEF Outcome
  <2> QED BY <1>5, <2>1 DEF AnswerFound, Dispatch, PC
<1>6. ASSUME NEW d \in Dispatches, EnterProvider(d)
      PROVE  TypeOK' /\ Answering'
  <2>1. provider' \in Provider
    BY <1>6 DEF EnterProvider, Provider
  <2>2. local' \in [Nodes -> Dispatches \cup {NoDispatch}]
    BY <1>6 DEF EnterProvider
  <2> QED BY <1>6, <2>1, <2>2 DEF EnterProvider, Dispatch, PC
<1>7. ASSUME NEW d \in Dispatches, ProviderActs(d)
      PROVE  TypeOK' /\ Answering'
  BY <1>7 DEF ProviderActs, Dispatch, PC, Provider
<1>8. ASSUME NEW d \in Dispatches, NEW answer \in {"verified", "executed"},
             ProviderConfirms(d, answer)
      PROVE  TypeOK' /\ Answering'
  <2>1. provider' \in Provider
    <3>1. (provider.verified \/ answer = "verified") \in BOOLEAN
      OBVIOUS
    <3> QED BY <1>8, <3>1 DEF ProviderConfirms, Provider
  <2>2. dispatch' \in [Dispatches -> Dispatch] /\ Answering'
    <3> DEFINE new == [dispatch[d] EXCEPT !.pc = "recording", !.answer = answer]
    <3>1. new \in Dispatch /\ new.answer \in Answer
      BY DEF Dispatch, PC, Answer, Refusals
    <3>2. dispatch' = [dispatch EXCEPT ![d] = new]
      BY <1>8 DEF ProviderConfirms
    <3> QED BY <3>1, <3>2, MoveTypes
  <2> QED BY <1>8, <2>1, <2>2 DEF ProviderConfirms
<1>9. ASSUME NEW d \in Dispatches, NEW answer \in Refusals,
             ProviderRefuses(d, answer)
      PROVE  TypeOK' /\ Answering'
  <2>1. provider' \in Provider
    BY <1>9 DEF ProviderRefuses, Provider
  <2>2. dispatch' \in [Dispatches -> Dispatch] /\ Answering'
    <3> DEFINE new == [dispatch[d] EXCEPT !.pc = "recording", !.answer = answer]
    <3>1. new \in Dispatch /\ new.answer \in Answer
      BY DEF Dispatch, PC, Answer, Refusals
    <3>2. dispatch' = [dispatch EXCEPT ![d] = new]
      BY <1>9 DEF ProviderRefuses
    <3> QED BY <3>1, <3>2, MoveTypes
  <2> QED BY <1>9, <2>1, <2>2 DEF ProviderRefuses
<1>10. ASSUME NEW d \in Dispatches, DispatchThrows(d)
       PROVE  TypeOK' /\ Answering'
  <2>1. dispatch' \in [Dispatches -> Dispatch] /\ Answering'
    <3> DEFINE new == [dispatch[d] EXCEPT !.pc = "recording", !.answer = "threw"]
    <3>1. new \in Dispatch /\ new.answer \in Answer
      BY DEF Dispatch, PC, Answer, Refusals
    <3>2. dispatch' = [dispatch EXCEPT ![d] = new]
      BY <1>10 DEF DispatchThrows
    <3> QED BY <3>1, <3>2, MoveTypes
  <2> QED BY <1>10, <2>1 DEF DispatchThrows
<1>11. ASSUME NEW d \in Dispatches, RecordAnswer(d) \/ RecordFails(d)
       PROVE  TypeOK' /\ Answering'
  <2>1. row' \in Row
    BY <1>11, RowAfterType DEF RecordAnswer, RecordFails, WriteCommits
  <2> QED BY <1>11, <2>1 DEF RecordAnswer, RecordFails, Dispatch, PC
<1>12. ASSUME NEW d \in Dispatches, ReturnOwn(d)
       PROVE  TypeOK' /\ Answering'
  <2>1. OwnOutcome(d) \in Outcome /\ WaiterOutcome(d) \in Outcome
    BY <1>12, OutcomeTypes DEF ReturnOwn
  <2>2. dispatch' \in [Dispatches -> Dispatch] /\ Answering'
    BY <1>12, <2>1 DEF ReturnOwn, Dispatch, PC
  <2> QED BY <1>12, <2>2 DEF ReturnOwn
<1>13. ASSUME NEW n \in Nodes, Crash(n)
       PROVE  TypeOK' /\ Answering'
  BY <1>13 DEF Crash, Dispatch, PC
<1>14. CASE UNCHANGED vars
  BY <1>14 DEF vars
<1> QED
  BY <1>1, <1>2, <1>3, <1>4, <1>5, <1>6, <1>7, <1>8, <1>9, <1>10, <1>11,
     <1>12, <1>13, <1>14 DEF Next, Proceed

(* The row, the map, the dispatches and the provider's record keep their   *)
(* shape.                                                                  *)
THEOREM TypeCorrect == Spec => []TypeOK
<1>1. Init => TypeOK /\ Answering
  BY InitTypes
<1>2. TypeOK /\ Answering /\ [Next]_vars => TypeOK' /\ Answering'
  BY StepTypes
<1> QED BY <1>1, <1>2, PTL DEF Spec

-----------------------------------------------------------------------------
(* The inductive invariant: the IN_FLIGHT row has at most one owner among  *)
(* the living dispatches, and where the owner stands says what the         *)
(* provider has seen.                                                      *)

OwningPC == {"created", "calling", "acted", "recording"}
Owns(d) == dispatch[d].pc \in OwningPC

Ownership ==
  /\ \A d \in Dispatches : Owns(d) => row = InFlight
  /\ \A d, e \in Dispatches : Owns(d) /\ Owns(e) => d = e

InDoubt == provider.calls # provider.refused
Seen(answer) ==
  /\ answer \in {"verified", "executed", "VERIFIED", "EXECUTED"} =>
       provider.effects = 1
  /\ answer \in {"verified", "VERIFIED"} => provider.verified

(* The provider's side: an effect leaves its call in doubt for good.       *)
OneEffect ==
  /\ provider.effects \in {0, 1}
  /\ provider.effects = 1 => InDoubt

RowTrue(r) ==
  /\ r.status = "COMPLETED" => provider.effects = 1
  /\ Seen(r.result)

(* What one dispatch knows and was told. *)
DispatchTrue(d) ==
  /\ dispatch[d].pc \in {"created"} => ~InDoubt
  /\ dispatch[d].pc = "calling" =>
       provider.calls = provider.refused + 1 /\ provider.effects = 0
  /\ dispatch[d].pc = "acted" => provider.effects = 1
  /\ dispatch[d].pc = "recording" /\ dispatch[d].answer \in Refusals => ~InDoubt
  /\ Seen(dispatch[d].answer)
  /\ RowTrue(dispatch[d].found)
  /\ Seen(dispatch[d].outcome)
  /\ dispatch[d].outcome # "none" => dispatch[d].pc = "returned"

IInv ==
  /\ Ownership
  /\ OneEffect
  /\ row = Absent => ~InDoubt
  /\ RowTrue(row)
  /\ \A d \in Dispatches : DispatchTrue(d)

LEMMA InitInv == Init => IInv
  BY DEF Init, IInv, Ownership, Owns, OwningPC, OneEffect, InDoubt, RowTrue,
         Seen, DispatchTrue, Absent, NewDispatch

(* A step that leaves the row and the provider alone, and moves dispatches *)
(* only out of the owning places.                                          *)
LEMMA QuietStep ==
  ASSUME TypeOK, IInv, UNCHANGED <<row, provider>>,
         \A e \in Dispatches : \/ dispatch'[e] = dispatch[e]
                               \/ ~Owns(e)' /\ DispatchTrue(e)'
  PROVE  IInv'
<1>1. Ownership'
  BY DEF IInv, Ownership, Owns
<1>2. OneEffect' /\ (row = Absent => ~InDoubt)' /\ RowTrue(row)'
  BY DEF IInv, OneEffect, InDoubt, RowTrue, Seen
<1>3. ASSUME NEW e \in Dispatches PROVE DispatchTrue(e)'
  <2>1. CASE dispatch'[e] = dispatch[e]
    BY <2>1 DEF IInv, DispatchTrue, InDoubt, Seen, RowTrue
  <2> QED BY <2>1
<1> QED BY <1>1, <1>2, <1>3 DEF IInv

(* A step of the owner, or of a dispatch that takes the free row.          *)
LEMMA OwnerStep ==
  ASSUME TypeOK, IInv, NEW d \in Dispatches,
         Owns(d) \/ row = Absent,
         \A e \in Dispatches \ {d} : dispatch'[e] = dispatch[e],
         OneEffect', RowTrue(row)', (row = Absent => ~InDoubt)',
         DispatchTrue(d)',
         Owns(d)' => row' = InFlight,
         provider.effects = 1 => provider'.effects = 1,
         provider.verified => provider'.verified
  PROVE  IInv'
<1>1. \A e \in Dispatches \ {d} : ~Owns(e)
  BY RowTypes DEF IInv, Ownership
<1>2. Ownership'
  BY <1>1 DEF Ownership, Owns
<1>3. ASSUME NEW e \in Dispatches \ {d} PROVE DispatchTrue(e)'
  <2>1. DispatchTrue(e) /\ dispatch'[e] = dispatch[e]
    BY DEF IInv
  <2>2. dispatch[e].pc \notin OwningPC
    BY <1>1 DEF Owns
  <2> QED BY <2>1, <2>2 DEF DispatchTrue, OwningPC, Seen, RowTrue
<1> QED BY <1>2, <1>3 DEF IInv

(* What a dispatch that is about to return may say. *)
LEMMA ReturnsTruth ==
  ASSUME TypeOK, Answering, IInv, NEW d \in Dispatches
  PROVE  /\ At(d, "found") => Seen(ReplayOutcome(dispatch[d].found))
         /\ dispatch[d].pc \in {"recorded", "unrecorded"} =>
              Seen(OwnOutcome(d)) /\ Seen(WaiterOutcome(d))
<1>1. Seen(ReplayOutcome(dispatch[d].found))
  BY DEF IInv, DispatchTrue, RowTrue, Seen, ReplayOutcome
<1>2. ASSUME dispatch[d].pc \in {"recorded", "unrecorded"}
      PROVE  Seen(OwnOutcome(d)) /\ Seen(WaiterOutcome(d))
  <2>1. dispatch[d].answer \in Answer /\ Seen(dispatch[d].answer)
    BY <1>2 DEF Answering, IInv, DispatchTrue
  <2>2. Seen(OwnOutcome(d))
    BY <2>1 DEF OwnOutcome, Reported, Answer, Seen
  <2> QED BY <2>2 DEF WaiterOutcome, Seen
<1> QED BY <1>1, <1>2

LEMMA StepInv ==
  ASSUME TypeOK, Answering, IInv, [Next]_vars
  PROVE  IInv'
<1>1. ASSUME NEW d \in Dispatches,
             \/ BlockedByGovernance(d) \/ JoinLocal(d) \/ IssueCreate(d)
             \/ ClaimRejects(d) \/ JoinFound(d)
      PROVE  IInv'
  <2>1. UNCHANGED <<row, provider>>
    BY <1>1 DEF BlockedByGovernance, JoinLocal, IssueCreate, ClaimRejects, JoinFound
  <2>2. \A e \in Dispatches \ {d} : dispatch'[e] = dispatch[e]
    BY <1>1 DEF TypeOK, BlockedByGovernance, JoinLocal, IssueCreate,
                ClaimRejects, JoinFound, Return, Goto
  <2>3. /\ dispatch'[d].pc \in {"returned", "waiting", "creating"}
        /\ dispatch'[d].answer = dispatch[d].answer
        /\ dispatch'[d].found = dispatch[d].found
        /\ \/ dispatch'[d].outcome = dispatch[d].outcome /\ dispatch[d].pc # "returned"
           \/ dispatch'[d].outcome \in {"BLOCKED", "ERROR"} /\ dispatch'[d].pc = "returned"
    BY <1>1 DEF TypeOK, Dispatch, BlockedByGovernance, JoinLocal, IssueCreate,
                ClaimRejects, JoinFound, Return, Goto, At
  <2>4. ~Owns(d)' /\ DispatchTrue(d)'
    BY <2>1, <2>3 DEF IInv, DispatchTrue, Owns, OwningPC, Seen, RowTrue, InDoubt
  <2> QED BY <2>1, <2>2, <2>4, QuietStep
<1>2. ASSUME NEW d \in Dispatches, ReadRow(d)
      PROVE  IInv'
  <2>1. UNCHANGED <<row, provider>>
    BY <1>2 DEF ReadRow
  <2>2. \A e \in Dispatches \ {d} : dispatch'[e] = dispatch[e]
    BY <1>2 DEF TypeOK, ReadRow
  <2>3. /\ dispatch'[d].pc = "found"
        /\ dispatch'[d].answer = dispatch[d].answer
        /\ dispatch'[d].found = row
        /\ dispatch'[d].outcome = dispatch[d].outcome
        /\ dispatch[d].pc # "returned"
    BY <1>2 DEF TypeOK, Dispatch, ReadRow, At
  <2>4. ~Owns(d)' /\ DispatchTrue(d)'
    BY <2>1, <2>3 DEF IInv, DispatchTrue, Owns, OwningPC, Seen, RowTrue, InDoubt
  <2> QED BY <2>1, <2>2, <2>4, QuietStep
<1>3. ASSUME NEW d \in Dispatches, AnswerFound(d)
      PROVE  IInv'
  <2>1. UNCHANGED <<row, provider>>
    BY <1>3 DEF AnswerFound
  <2>2. \A e \in Dispatches \ {d} : dispatch'[e] = dispatch[e]
    BY <1>3 DEF TypeOK, AnswerFound, Return
  <2>3. /\ dispatch'[d].pc = "returned"
        /\ dispatch'[d].answer = dispatch[d].answer
        /\ dispatch'[d].found = dispatch[d].found
        /\ dispatch'[d].outcome = ReplayOutcome(dispatch[d].found)
    BY <1>3 DEF TypeOK, Dispatch, AnswerFound, Return
  <2>4. Seen(dispatch'[d].outcome)
    BY <1>3, <2>3, ReturnsTruth DEF AnswerFound
  <2>5. ~Owns(d)' /\ DispatchTrue(d)'
    BY <2>1, <2>3, <2>4 DEF IInv, DispatchTrue, Owns, OwningPC, Seen, RowTrue, InDoubt
  <2> QED BY <2>1, <2>2, <2>5, QuietStep
<1>4. ASSUME NEW d \in Dispatches, ReturnOwn(d)
      PROVE  IInv'
  <2>1. UNCHANGED <<row, provider>>
    BY <1>4 DEF ReturnOwn
  <2>2. Seen(OwnOutcome(d)) /\ Seen(WaiterOutcome(d))
    BY <1>4, ReturnsTruth DEF ReturnOwn
  <2>3. ASSUME NEW e \in Dispatches
        PROVE  \/ dispatch'[e] = dispatch[e]
               \/ /\ dispatch'[e].pc = "returned"
                  /\ dispatch'[e].answer = dispatch[e].answer
                  /\ dispatch'[e].found = dispatch[e].found
                  /\ dispatch'[e].outcome \in {OwnOutcome(d), WaiterOutcome(d)}
    BY <1>4 DEF TypeOK, Dispatch, ReturnOwn
  <2>4. ASSUME NEW e \in Dispatches, dispatch'[e] # dispatch[e]
        PROVE  ~Owns(e)' /\ DispatchTrue(e)'
    <3>1. Seen(dispatch'[e].outcome)
      BY <2>2, <2>3, <2>4
    <3> QED BY <2>1, <2>3, <2>4, <3>1
            DEF IInv, DispatchTrue, Owns, OwningPC, Seen, RowTrue, InDoubt
  <2> QED BY <2>1, <2>4, QuietStep
<1>5. ASSUME NEW n \in Nodes, Crash(n)
      PROVE  IInv'
  <2>1. UNCHANGED <<row, provider>>
    BY <1>5 DEF Crash
  <2>2. ASSUME NEW e \in Dispatches, dispatch'[e] # dispatch[e]
        PROVE  /\ dispatch'[e].pc = "lost" /\ dispatch[e].pc # "returned"
               /\ dispatch'[e].answer = dispatch[e].answer
               /\ dispatch'[e].found = dispatch[e].found
               /\ dispatch'[e].outcome = dispatch[e].outcome
    BY <1>5, <2>2 DEF TypeOK, Dispatch, Crash, Running
  <2>3. ASSUME NEW e \in Dispatches, dispatch'[e] # dispatch[e]
        PROVE  ~Owns(e)' /\ DispatchTrue(e)'
    BY <2>1, <2>2, <2>3 DEF IInv, DispatchTrue, Owns, OwningPC, Seen, RowTrue, InDoubt
  <2> QED BY <2>1, <2>3, QuietStep
<1>6. ASSUME NEW d \in Dispatches, CreateRow(d) \/ CreateFails(d)
      PROVE  IInv'
  <2>1. UNCHANGED provider /\ At(d, "creating")
    BY <1>6 DEF CreateRow, CreateFails
  <2>2. \/ row = Absent /\ row' = InFlight
        \/ UNCHANGED row /\ ~Owns(d)'
    BY <1>6, <2>1 DEF TypeOK, Dispatch, CreateRow, CreateFails, Goto, At, Owns, OwningPC
  <2>3. \A e \in Dispatches \ {d} : dispatch'[e] = dispatch[e]
    BY <1>6 DEF TypeOK, CreateRow, CreateFails, Goto
  <2>4. /\ dispatch'[d].pc \in {"created", "conflict"}
        /\ dispatch'[d].pc = "created" => row = Absent
        /\ dispatch'[d].answer = dispatch[d].answer
        /\ dispatch'[d].found = dispatch[d].found
        /\ dispatch'[d].outcome = dispatch[d].outcome
        /\ dispatch[d].pc = "creating"
    BY <1>6 DEF TypeOK, Dispatch, CreateRow, CreateFails, Goto, At
  <2>5. DispatchTrue(d)'
    BY <2>1, <2>4 DEF IInv, DispatchTrue, Seen, RowTrue, InDoubt
  <2>6. CASE row = Absent /\ row' = InFlight
    <3>1. /\ OneEffect' /\ RowTrue(row)' /\ (row = Absent => ~InDoubt)'
          /\ Owns(d)' => row' = InFlight
      BY <2>1, <2>6, RowTypes
         DEF IInv, OneEffect, InDoubt, RowTrue, Seen, InFlight
    <3> QED BY <2>1, <2>3, <2>5, <2>6, <3>1, OwnerStep DEF TypeOK, Provider
  <2>7. CASE UNCHANGED row /\ ~Owns(d)'
    BY <2>1, <2>3, <2>5, <2>7, QuietStep
  <2> QED BY <2>2, <2>6, <2>7
<1>7. ASSUME NEW d \in Dispatches, EnterProvider(d)
      PROVE  IInv'
  <2>1. /\ dispatch'[d].pc = "calling" /\ dispatch[d].pc = "created"
        /\ dispatch'[d].answer = dispatch[d].answer
        /\ dispatch'[d].found = dispatch[d].found
        /\ dispatch'[d].outcome = dispatch[d].outcome
        /\ \A e \in Dispatches \ {d} : dispatch'[e] = dispatch[e]
        /\ UNCHANGED row
    BY <1>7 DEF TypeOK, Dispatch, EnterProvider, Goto, At
  <2>2. /\ provider'.calls = provider.calls + 1
        /\ provider'.refused = provider.refused
        /\ provider'.effects = provider.effects
        /\ provider'.verified = provider.verified
        /\ provider.calls \in Nat /\ provider.refused \in Nat
    BY <1>7 DEF TypeOK, Provider, EnterProvider
  <2>3. /\ Owns(d) /\ row = InFlight /\ provider.calls = provider.refused
        /\ provider.effects = 0
    BY <2>1 DEF IInv, Ownership, Owns, OwningPC, DispatchTrue, InDoubt, OneEffect
  <2>4. DispatchTrue(d)'
    BY <2>1, <2>2, <2>3 DEF IInv, DispatchTrue, Seen, RowTrue
  <2>5. OneEffect' /\ RowTrue(row)' /\ (row = Absent => ~InDoubt)'
    BY <2>1, <2>2, <2>3, RowTypes DEF IInv, OneEffect, InDoubt, RowTrue, Seen
  <2> QED BY <2>1, <2>2, <2>3, <2>4, <2>5, OwnerStep
<1>8. ASSUME NEW d \in Dispatches, ProviderActs(d)
      PROVE  IInv'
  <2>1. /\ dispatch'[d].pc = "acted" /\ dispatch[d].pc = "calling"
        /\ dispatch'[d].answer = dispatch[d].answer
        /\ dispatch'[d].found = dispatch[d].found
        /\ dispatch'[d].outcome = dispatch[d].outcome
        /\ \A e \in Dispatches \ {d} : dispatch'[e] = dispatch[e]
        /\ UNCHANGED row
    BY <1>8 DEF TypeOK, Dispatch, ProviderActs, Goto, At
  <2>2. /\ provider'.calls = provider.calls
        /\ provider'.refused = provider.refused
        /\ provider'.effects = provider.effects + 1
        /\ provider'.verified = provider.verified
        /\ provider.calls \in Nat /\ provider.refused \in Nat
    BY <1>8 DEF TypeOK, Provider, ProviderActs
  <2>3. /\ Owns(d) /\ row = InFlight /\ provider.calls = provider.refused + 1
        /\ provider.effects = 0
    BY <2>1 DEF IInv, Ownership, Owns, OwningPC, DispatchTrue
  <2>4. DispatchTrue(d)'
    BY <2>1, <2>2, <2>3 DEF IInv, DispatchTrue, Seen, RowTrue
  <2>5. OneEffect' /\ RowTrue(row)' /\ (row = Absent => ~InDoubt)'
    BY <2>1, <2>2, <2>3, RowTypes DEF IInv, OneEffect, InDoubt, RowTrue, Seen
  <2> QED BY <2>1, <2>2, <2>3, <2>4, <2>5, OwnerStep
<1>9. ASSUME NEW d \in Dispatches, NEW answer \in {"verified", "executed"},
             ProviderConfirms(d, answer)
      PROVE  IInv'
  <2>1. /\ dispatch'[d].pc = "recording" /\ dispatch[d].pc = "acted"
        /\ dispatch'[d].answer = answer
        /\ dispatch'[d].found = dispatch[d].found
        /\ dispatch'[d].outcome = dispatch[d].outcome
        /\ \A e \in Dispatches \ {d} : dispatch'[e] = dispatch[e]
        /\ UNCHANGED row
    BY <1>9 DEF TypeOK, Dispatch, ProviderConfirms, Answered, At
  <2>2. /\ provider'.calls = provider.calls
        /\ provider'.refused = provider.refused
        /\ provider'.effects = provider.effects
    BY <1>9 DEF TypeOK, Provider, ProviderConfirms
  <2>3. /\ provider.verified => provider'.verified
        /\ answer = "verified" => provider'.verified
    <3>1. provider'.verified = (provider.verified \/ answer = "verified")
      BY <1>9 DEF TypeOK, Provider, ProviderConfirms
    <3> QED BY <3>1
  <2>4. Owns(d) /\ row = InFlight /\ provider.effects = 1
    BY <2>1 DEF IInv, Ownership, Owns, OwningPC, DispatchTrue
  <2>5. DispatchTrue(d)'
    BY <2>1, <2>2, <2>3, <2>4 DEF IInv, DispatchTrue, Seen, RowTrue, Refusals
  <2>6. OneEffect' /\ RowTrue(row)' /\ (row = Absent => ~InDoubt)'
    BY <2>1, <2>2, <2>3, <2>4, RowTypes DEF IInv, OneEffect, InDoubt, RowTrue, Seen
  <2> QED BY <2>1, <2>2, <2>3, <2>4, <2>5, <2>6, OwnerStep
<1>10. ASSUME NEW d \in Dispatches, NEW answer \in Refusals,
              ProviderRefuses(d, answer)
       PROVE  IInv'
  <2>1. /\ dispatch'[d].pc = "recording" /\ dispatch[d].pc = "calling"
        /\ dispatch'[d].answer = answer
        /\ dispatch'[d].found = dispatch[d].found
        /\ dispatch'[d].outcome = dispatch[d].outcome
        /\ \A e \in Dispatches \ {d} : dispatch'[e] = dispatch[e]
        /\ UNCHANGED row
    BY <1>10 DEF TypeOK, Dispatch, ProviderRefuses, Answered, At
  <2>2. /\ provider'.calls = provider.calls
        /\ provider'.refused = provider.refused + 1
        /\ provider'.effects = provider.effects
        /\ provider'.verified = provider.verified
        /\ provider.calls \in Nat /\ provider.refused \in Nat
    BY <1>10 DEF TypeOK, Provider, ProviderRefuses
  <2>3. /\ Owns(d) /\ row = InFlight /\ provider.calls = provider.refused + 1
        /\ provider.effects = 0
    BY <2>1 DEF IInv, Ownership, Owns, OwningPC, DispatchTrue
  <2>4. DispatchTrue(d)'
    BY <2>1, <2>2, <2>3 DEF IInv, DispatchTrue, Seen, RowTrue, InDoubt, Refusals
  <2>5. OneEffect' /\ RowTrue(row)' /\ (row = Absent => ~InDoubt)'
    BY <2>1, <2>2, <2>3, RowTypes DEF IInv, OneEffect, InDoubt, RowTrue, Seen
  <2> QED BY <2>1, <2>2, <2>3, <2>4, <2>5, OwnerStep
<1>11. ASSUME NEW d \in Dispatches, DispatchThrows(d)
       PROVE  IInv'
  <2>1. /\ dispatch'[d].pc = "recording" /\ dispatch[d].pc \in {"calling", "acted"}
        /\ dispatch'[d].answer = "threw"
        /\ dispatch'[d].found = dispatch[d].found
        /\ dispatch'[d].outcome = dispatch[d].outcome
        /\ \A e \in Dispatches \ {d} : dispatch'[e] = dispatch[e]
        /\ UNCHANGED <<row, provider>>
    BY <1>11 DEF TypeOK, Dispatch, DispatchThrows, Answered
  <2>2. Owns(d) /\ row = InFlight
    BY <2>1 DEF IInv, Ownership, Owns, OwningPC
  <2>3. DispatchTrue(d)'
    BY <2>1 DEF IInv, DispatchTrue, Seen, RowTrue, Refusals
  <2>4. OneEffect' /\ RowTrue(row)' /\ (row = Absent => ~InDoubt)'
    BY <2>1 DEF IInv, OneEffect, InDoubt, RowTrue, Seen
  <2> QED BY <2>1, <2>2, <2>3, <2>4, OwnerStep
<1>12. ASSUME NEW d \in Dispatches, RecordAnswer(d) \/ RecordFails(d)
       PROVE  IInv'
  <2>1. /\ dispatch'[d].pc \in {"recorded", "unrecorded"}
        /\ dispatch[d].pc = "recording"
        /\ dispatch'[d].answer = dispatch[d].answer
        /\ dispatch'[d].found = dispatch[d].found
        /\ dispatch'[d].outcome = dispatch[d].outcome
        /\ \A e \in Dispatches \ {d} : dispatch'[e] = dispatch[e]
        /\ UNCHANGED provider
        /\ UNCHANGED row \/ row' = RowAfter(dispatch[d].answer)
    BY <1>12 DEF TypeOK, Dispatch, RecordAnswer, RecordFails, WriteCommits, Goto, At
  <2>2. /\ Owns(d) /\ row = InFlight /\ ~Owns(d)'
        /\ dispatch[d].answer \in Answer /\ Seen(dispatch[d].answer)
        /\ dispatch[d].answer \in Refusals => ~InDoubt
    BY <2>1 DEF IInv, Ownership, Owns, OwningPC, DispatchTrue, Answering
  <2>3. DispatchTrue(d)'
    BY <2>1 DEF IInv, DispatchTrue, Seen, RowTrue
  <2>4. OneEffect'
    BY <2>1 DEF IInv, OneEffect, InDoubt
  <2>5. RowTrue(row)' /\ (row = Absent => ~InDoubt)'
    <3>1. CASE UNCHANGED row
      BY <2>1, <3>1 DEF IInv, RowTrue, Seen, InDoubt
    <3>2. CASE row' = RowAfter(dispatch[d].answer)
      BY <2>1, <2>2, <3>2
         DEF RowAfter, Executed, Answer, Refusals, Absent, RowTrue, Seen, InDoubt
    <3> QED BY <2>1, <3>1, <3>2
  <2> QED BY <2>1, <2>2, <2>3, <2>4, <2>5, OwnerStep
<1>13. CASE UNCHANGED vars
  BY <1>13, QuietStep DEF vars
<1> QED
  BY <1>1, <1>2, <1>3, <1>4, <1>5, <1>6, <1>7, <1>8, <1>9, <1>10, <1>11,
     <1>12, <1>13 DEF Next, Proceed

LEMMA Invariance == Spec => [](TypeOK /\ Answering /\ IInv)
<1>1. Init => TypeOK /\ Answering /\ IInv
  BY InitTypes, InitInv
<1>2. TypeOK /\ Answering /\ IInv /\ [Next]_vars
        => (TypeOK /\ Answering /\ IInv)'
  BY StepTypes, StepInv
<1> QED BY <1>1, <1>2, PTL DEF Spec

(* The durable row tells the truth: a key is free only if every call was   *)
(* refused, COMPLETED only after the effect.                               *)
THEOREM RowIsTruthful == Spec => []RowTellsTruth
<1>1. IInv => RowTellsTruth
  BY DEF IInv, RowTrue, Seen, InDoubt, RowTellsTruth
<1> QED BY <1>1, Invariance, PTL
-----------------------------------------------------------------------------
(* Refinement *)

LEMMA InitRefines == Init => Promised!Init
  BY DEF Init, NewDispatch, Promised!Init

(* A step that leaves the provider alone and tells dispatches what is true *)
(* and nothing twice.                                                      *)
LEMMA TellRefines ==
  ASSUME TypeOK, TypeOK', UNCHANGED provider,
         \A e \in Dispatches :
           dispatch'[e].outcome # dispatch[e].outcome =>
             dispatch[e].outcome = "none" /\ Seen(dispatch'[e].outcome)
  PROVE  Promised!Tell
<1> DEFINE told == [d \in Dispatches |-> dispatch[d].outcome]
<1>1. told' \in [Dispatches -> Promised!Outcome \cup {"none"}]
  BY DEF TypeOK, Dispatch, Outcome, Promised!Outcome
<1>2. ASSUME NEW d \in Dispatches, told'[d] # told[d]
      PROVE  told[d] = "none" /\ Promised!Truthful(told'[d])
  BY <1>2 DEF Promised!Truthful, Seen
<1> QED BY <1>1, <1>2 DEF Promised!Tell

LEMMA StepRefines ==
  ASSUME TypeOK, TypeOK', Answering, IInv, IInv', [Next]_vars
  PROVE  [Promised!Next]_(Promised!vars)
<1> DEFINE told == [d \in Dispatches |-> dispatch[d].outcome]
<1>1. ASSUME UNCHANGED provider,
             \A e \in Dispatches :
               dispatch'[e].outcome # dispatch[e].outcome =>
                 dispatch[e].outcome = "none" /\ Seen(dispatch'[e].outcome)
      PROVE  Promised!Next
  BY <1>1, TellRefines DEF Promised!Next
<1>2. ASSUME NEW d \in Dispatches,
             \/ BlockedByGovernance(d) \/ JoinLocal(d) \/ IssueCreate(d)
             \/ CreateRow(d) \/ CreateFails(d) \/ ReadRow(d)
             \/ ClaimRejects(d) \/ JoinFound(d) \/ AnswerFound(d)
             \/ DispatchThrows(d) \/ RecordAnswer(d) \/ RecordFails(d)
      PROVE  Promised!Next
  <2>1. UNCHANGED provider
    BY <1>2 DEF BlockedByGovernance, JoinLocal, IssueCreate, CreateRow,
                CreateFails, ReadRow, ClaimRejects, JoinFound, AnswerFound,
                DispatchThrows, RecordAnswer, RecordFails
  <2>2. /\ \A e \in Dispatches \ {d} : dispatch'[e] = dispatch[e]
        /\ dispatch[d].pc # "returned"
    BY <1>2 DEF TypeOK, BlockedByGovernance, JoinLocal, IssueCreate, CreateRow,
                CreateFails, ReadRow, ClaimRejects, JoinFound, AnswerFound,
                DispatchThrows, RecordAnswer, RecordFails, Return, Goto, At,
                Answered
  <2>3. dispatch[d].outcome = "none"
    BY <2>2 DEF IInv, DispatchTrue
  <2>4. Seen(dispatch'[d].outcome)
    <3>1. DispatchTrue(d)'
      BY DEF IInv
    <3> QED BY <2>1, <3>1 DEF DispatchTrue, Seen
  <2> QED BY <1>1, <2>1, <2>2, <2>3, <2>4
<1>3. ASSUME NEW d \in Dispatches, ReturnOwn(d)
      PROVE  Promised!Next
  <2>1. UNCHANGED provider
    BY <1>3 DEF ReturnOwn
  <2>2. ASSUME NEW e \in Dispatches, dispatch'[e].outcome # dispatch[e].outcome
        PROVE  dispatch[e].pc # "returned"
    BY <1>3, <2>2 DEF TypeOK, Dispatch, ReturnOwn, At
  <2>3. ASSUME NEW e \in Dispatches, dispatch'[e].outcome # dispatch[e].outcome
        PROVE  dispatch[e].outcome = "none" /\ Seen(dispatch'[e].outcome)
    <3>1. DispatchTrue(e) /\ DispatchTrue(e)'
      BY DEF IInv
    <3> QED BY <2>1, <2>2, <2>3, <3>1 DEF DispatchTrue, Seen
  <2> QED BY <1>1, <2>1, <2>3
<1>4. ASSUME NEW n \in Nodes, Crash(n)
      PROVE  Promised!Next
  <2>1. UNCHANGED provider
    BY <1>4 DEF Crash
  <2>2. \A e \in Dispatches : dispatch'[e].outcome = dispatch[e].outcome
    BY <1>4 DEF TypeOK, Dispatch, Crash
  <2> QED BY <1>1, <2>1, <2>2
<1>5. ASSUME NEW d \in Dispatches,
             \/ EnterProvider(d) \/ ProviderActs(d)
             \/ \E answer \in {"verified", "executed"} : ProviderConfirms(d, answer)
             \/ \E answer \in Refusals : ProviderRefuses(d, answer)
      PROVE  [Promised!Next]_(Promised!vars)
  <2>1. told' = told
    BY <1>5 DEF TypeOK, Dispatch, EnterProvider, ProviderActs,
                ProviderConfirms, ProviderRefuses, Goto, Answered
  <2>2. DispatchTrue(d) /\ Owns(d)
    BY <1>5 DEF IInv, Owns, OwningPC, EnterProvider, ProviderActs,
                ProviderConfirms, ProviderRefuses, At
  <2>3. CASE EnterProvider(d)
    <3>1. ~InDoubt /\ provider'.calls = provider.calls + 1
          /\ provider'.refused = provider.refused
          /\ provider'.effects = provider.effects
          /\ provider'.verified = provider.verified
      BY <2>2, <2>3 DEF TypeOK, Provider, EnterProvider, DispatchTrue, At
    <3>2. Promised!Enter
      BY <2>1, <3>1 DEF Promised!Enter, InDoubt, TypeOK, Provider
    <3> QED BY <3>2 DEF Promised!Next
  <2>4. CASE ProviderActs(d)
    <3>1. /\ provider.calls = provider.refused + 1
          /\ provider.effects = 0 /\ provider'.effects = 1
          /\ provider'.calls = provider.calls
          /\ provider'.refused = provider.refused
          /\ provider'.verified = provider.verified
      BY <2>2, <2>4 DEF TypeOK, Provider, ProviderActs, DispatchTrue, At
    <3>2. Promised!Effect
      BY <2>1, <3>1 DEF Promised!Effect, TypeOK, Provider
    <3> QED BY <3>2 DEF Promised!Next
  <2>5. ASSUME NEW answer \in {"verified", "executed"}, ProviderConfirms(d, answer)
        PROVE  [Promised!Next]_(Promised!vars)
    <3>1. /\ provider.effects = 1
          /\ provider'.calls = provider.calls
          /\ provider'.refused = provider.refused
          /\ provider'.effects = provider.effects
          /\ provider'.verified = (provider.verified \/ answer = "verified")
      BY <2>2, <2>5 DEF TypeOK, Provider, ProviderConfirms, DispatchTrue, At
    <3>2. provider'.verified = TRUE \/ provider'.verified = provider.verified
      BY <3>1 DEF TypeOK, Provider
    <3>3. CASE provider'.verified = TRUE
      BY <2>1, <3>1, <3>3 DEF Promised!Confirm, Promised!Next
    <3>4. CASE provider'.verified = provider.verified
      BY <2>1, <3>1, <3>4 DEF Promised!vars
    <3> QED BY <3>2, <3>3, <3>4
  <2>6. ASSUME NEW answer \in Refusals, ProviderRefuses(d, answer)
        PROVE  Promised!Next
    <3>1. /\ provider.calls = provider.refused + 1
          /\ provider.effects = 0 /\ provider'.effects = 0
          /\ provider'.calls = provider.calls
          /\ provider'.refused = provider.refused + 1
          /\ provider'.verified = provider.verified
      BY <2>2, <2>6 DEF TypeOK, Provider, ProviderRefuses, DispatchTrue, At
    <3>2. Promised!Refuse
      BY <2>1, <3>1 DEF Promised!Refuse, TypeOK, Provider
    <3> QED BY <3>2 DEF Promised!Next
  <2> QED BY <1>5, <2>3, <2>4, <2>5, <2>6 DEF Promised!Next
<1>6. CASE UNCHANGED vars
  BY <1>6 DEF vars, Promised!vars
<1> QED BY <1>2, <1>3, <1>4, <1>5, <1>6 DEF Next, Proceed

(* The governance implements AtMostOnceActuation: one external effect at   *)
(* most, and nobody is told of one that was not there.                     *)
THEOREM Refinement == Spec => AtMostOnce
<1>1. Init => Promised!Init
  BY InitRefines
<1>2. /\ TypeOK /\ Answering /\ IInv /\ (TypeOK /\ Answering /\ IInv)'
      /\ [Next]_vars
      => [Promised!Next]_(Promised!vars)
  BY StepRefines
<1> QED BY <1>1, <1>2, Invariance, PTL DEF Spec, AtMostOnce, Promised!Spec
=============================================================================
