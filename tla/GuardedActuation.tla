-------------------------- MODULE GuardedActuation --------------------------
(***************************************************************************)
(* GuardedProductionActuation.dispatch over PrismaActuationIdempotencyStore *)
(* for one idempotency key (a step of a workflow): dispatches in several   *)
(* server processes race for the durable row whose unique key is the claim,*)
(* the loser of a race in the same process waits on the winner's promise,  *)
(* database calls fail with or without having committed, processes die.    *)
(* Nothing relates two keys, so one is enough. Between two actions of a    *)
(* dispatch lies an await.                                                 *)
(***************************************************************************)
EXTENDS Naturals

CONSTANTS
  Dispatches,   \* calls of dispatch(step) for this key; each is made once
  Nodes,        \* server processes, each with one store
  NodeOf,       \* [Dispatches -> Nodes]
  NoDispatch    \* model value: no promise

ASSUME ActuationAssumption ==
  /\ NodeOf \in [Dispatches -> Nodes]
  /\ NoDispatch \notin Dispatches

VARIABLES
  row,        \* the row of productionActuationIdempotency for the key
  local,      \* localInFlight: [Nodes -> whose promise is in the map]
  dispatch,   \* [Dispatches -> the state of the call]
  provider    \* external: what reached the provider

vars == <<row, local, dispatch, provider>>

(* What composition.dispatch answers: an executed result (confirmed or     *)
(* not), one that is not executed, one the boundary did not allow, or an   *)
(* exception.                                                              *)
Answer == {"verified", "executed", "failed", "blocked", "threw"}
Executed(answer) == answer \in {"verified", "executed"}
Refusals == {"failed", "blocked"}

Outcome == {"VERIFIED", "EXECUTED", "FAILED", "BLOCKED", "UNKNOWN", "ERROR"}

Row == [status : {"ABSENT", "IN_FLIGHT", "COMPLETED", "UNKNOWN"},
        result : {"none", "verified", "executed", "threw"}]
Absent == [status |-> "ABSENT", result |-> "none"]
InFlight == [status |-> "IN_FLIGHT", result |-> "none"]

(* on is the dispatch whose promise is awaited, found the row that         *)
(* findUnique returned.                                                    *)
PC == {"new", "creating", "created", "conflict", "found", "waiting",
       "calling", "acted", "recording", "recorded", "unrecorded",
       "returned", "lost"}
Dispatch == [pc : PC, on : Dispatches \cup {NoDispatch}, found : Row,
             answer : Answer \cup {"none"}, outcome : Outcome \cup {"none"}]
NewDispatch == [pc |-> "new", on |-> NoDispatch, found |-> Absent,
                answer |-> "none", outcome |-> "none"]

Provider == [calls : Nat, refused : Nat, effects : Nat, verified : BOOLEAN]

Init ==
  /\ row = Absent
  /\ local = [n \in Nodes |-> NoDispatch]
  /\ dispatch = [d \in Dispatches |-> NewDispatch]
  /\ provider = [calls |-> 0, refused |-> 0, effects |-> 0, verified |-> FALSE]

At(d, label) == dispatch[d].pc = label
Goto(d, label) == dispatch' = [dispatch EXCEPT ![d].pc = label]
Return(d, outcome) ==
  dispatch' = [dispatch EXCEPT ![d].pc = "returned", ![d].outcome = outcome]
Promise(d) == local[NodeOf[d]]
-----------------------------------------------------------------------------
(* The gate and the claim *)

(* Operator control, authorization, or a step that changed while it was    *)
(* being authorized.                                                       *)
BlockedByGovernance(d) ==
  /\ At(d, "new")
  /\ Return(d, "BLOCKED")
  /\ UNCHANGED <<row, local, provider>>

(* claim, in the same turn as the end of the authorization: an execution   *)
(* in this process is joined, else the row is to be created.               *)
JoinLocal(d) ==
  /\ At(d, "new")
  /\ Promise(d) # NoDispatch
  /\ dispatch' = [dispatch EXCEPT ![d].pc = "waiting", ![d].on = Promise(d)]
  /\ UNCHANGED <<row, local, provider>>

IssueCreate(d) ==
  /\ At(d, "new")
  /\ Promise(d) = NoDispatch
  /\ Goto(d, "creating")
  /\ UNCHANGED <<row, local, provider>>

CreateRow(d) ==
  /\ At(d, "creating")
  /\ row = Absent
  /\ row' = InFlight
  /\ Goto(d, "created")
  /\ UNCHANGED <<local, provider>>

(* create rejects: the key exists, or the database failed - after the      *)
(* commit or before it.                                                    *)
CreateFails(d) ==
  /\ At(d, "creating")
  /\ row' \in IF row = Absent THEN {Absent, InFlight} ELSE {row}
  /\ Goto(d, "conflict")
  /\ UNCHANGED <<local, provider>>

(* findUnique; without a row, or when it fails, the claim rejects.         *)
ReadRow(d) ==
  /\ At(d, "conflict")
  /\ row # Absent
  /\ dispatch' = [dispatch EXCEPT ![d].pc = "found", ![d].found = row]
  /\ UNCHANGED <<row, local, provider>>

ClaimRejects(d) ==
  /\ At(d, "conflict")
  /\ Return(d, "ERROR")
  /\ UNCHANGED <<row, local, provider>>

(* What the row that was read says, with the promises of this moment.      *)
JoinFound(d) ==
  /\ At(d, "found")
  /\ dispatch[d].found.status = "IN_FLIGHT"
  /\ Promise(d) # NoDispatch
  /\ dispatch' = [dispatch EXCEPT ![d].pc = "waiting", ![d].on = Promise(d)]
  /\ UNCHANGED <<row, local, provider>>

ReplayOutcome(found) ==
  CASE found.status = "COMPLETED" /\ found.result = "verified" -> "VERIFIED"
    [] found.status = "COMPLETED" /\ found.result # "verified" -> "EXECUTED"
    [] OTHER -> "UNKNOWN"

(* Mutation: a claim left by a dead process is taken over.                 *)
AnswerTakingOver(d) ==
  /\ At(d, "found")
  /\ ~(dispatch[d].found.status = "IN_FLIGHT" /\ Promise(d) # NoDispatch)
  /\ IF dispatch[d].found.status = "IN_FLIGHT"
     THEN Goto(d, "created")
     ELSE Return(d, ReplayOutcome(dispatch[d].found))
  /\ UNCHANGED <<row, local, provider>>

AnswerFound(d) ==
  /\ At(d, "found")
  /\ ~(dispatch[d].found.status = "IN_FLIGHT" /\ Promise(d) # NoDispatch)
  /\ Return(d, ReplayOutcome(dispatch[d].found))
  /\ UNCHANGED <<row, local, provider>>
-----------------------------------------------------------------------------
(* The call. Its effect comes before its answer. *)

(* The claim is ACQUIRED: the promise goes into the map, over whatever is  *)
(* there, and composition.dispatch is entered.                             *)
EnterProvider(d) ==
  /\ At(d, "created")
  /\ local' = [local EXCEPT ![NodeOf[d]] = d]
  /\ provider' = [provider EXCEPT !.calls = @ + 1]
  /\ Goto(d, "calling")
  /\ UNCHANGED row

ProviderActs(d) ==
  /\ At(d, "calling")
  /\ provider' = [provider EXCEPT !.effects = @ + 1]
  /\ Goto(d, "acted")
  /\ UNCHANGED <<row, local>>

Answered(d, answer) ==
  dispatch' = [dispatch EXCEPT ![d].pc = "recording", ![d].answer = answer]

ProviderConfirms(d, answer) ==
  /\ At(d, "acted")
  /\ provider' = [provider EXCEPT !.verified = @ \/ answer = "verified"]
  /\ Answered(d, answer)
  /\ UNCHANGED <<row, local>>

ProviderRefuses(d, answer) ==
  /\ At(d, "calling")
  /\ provider' = [provider EXCEPT !.refused = @ + 1]
  /\ Answered(d, answer)
  /\ UNCHANGED <<row, local>>

(* The answer is lost, with or without an effect behind it.                *)
DispatchThrows(d) ==
  /\ dispatch[d].pc \in {"calling", "acted"}
  /\ Answered(d, "threw")
  /\ UNCHANGED <<row, local, provider>>
-----------------------------------------------------------------------------
(* complete *)

(* Mutation: every result that came back is kept as COMPLETED.             *)
KeptRow(answer) ==
  IF answer = "threw" THEN [status |-> "UNKNOWN", result |-> "threw"]
  ELSE [status |-> "COMPLETED", result |-> answer]

(* Mutation: only an executed result keeps the key.                        *)
ReleasedRow(answer) ==
  IF Executed(answer) THEN [status |-> "COMPLETED", result |-> answer]
  ELSE Absent

(* The row complete leaves: COMPLETED, UNKNOWN, or none (RELEASED deletes  *)
(* the row if it is IN_FLIGHT).                                            *)
RowAfter(answer) ==
  CASE Executed(answer)  -> [status |-> "COMPLETED", result |-> answer]
    [] answer = "threw"  -> [status |-> "UNKNOWN", result |-> "threw"]
    [] OTHER             -> IF row = InFlight THEN Absent ELSE row

(* An update needs its row, a deleteMany does not.                         *)
WriteCommits(d) ==
  /\ dispatch[d].answer \in Refusals \/ row # Absent
  /\ row' = RowAfter(dispatch[d].answer)

RecordAnswer(d) ==
  /\ At(d, "recording")
  /\ WriteCommits(d)
  /\ Goto(d, "recorded")
  /\ UNCHANGED <<local, provider>>

(* The write fails, after the commit or before it.                         *)
RecordFails(d) ==
  /\ At(d, "recording")
  /\ WriteCommits(d) \/ UNCHANGED row
  /\ Goto(d, "unrecorded")
  /\ UNCHANGED <<local, provider>>

(* What the owner returns, and what those who awaited its promise do: they *)
(* are handed the result, not the outcome, or that the write failed.       *)
Reported == [verified |-> "VERIFIED", executed |-> "EXECUTED",
             failed |-> "FAILED", blocked |-> "BLOCKED", threw |-> "UNKNOWN"]
OwnOutcome(d) ==
  IF At(d, "unrecorded") THEN "UNKNOWN" ELSE Reported[dispatch[d].answer]
WaiterOutcome(d) ==
  IF OwnOutcome(d) = "BLOCKED" THEN "FAILED" ELSE OwnOutcome(d)

(* Mutation: a failed write leaves the map alone.                          *)
ReturnOwnOnFailure(d) ==
  /\ dispatch[d].pc \in {"recorded", "unrecorded"}
  /\ LET resolved == IF At(d, "recorded") THEN Promise(d) ELSE NoDispatch
     IN  dispatch' = [e \in Dispatches |->
           IF e = d
           THEN [dispatch[d] EXCEPT !.pc = "returned", !.outcome = OwnOutcome(d)]
           ELSE IF At(e, "waiting") /\ dispatch[e].on = resolved
           THEN [dispatch[e] EXCEPT !.pc = "returned", !.outcome = WaiterOutcome(d)]
           ELSE dispatch[e]]
  /\ local' = [local EXCEPT ![NodeOf[d]] =
                 IF At(d, "recorded") THEN NoDispatch ELSE @]
  /\ UNCHANGED <<row, provider>>

(* The end of complete and of dispatch: whichever promise the map holds by *)
(* now is resolved and removed.                                            *)
ReturnOwn(d) ==
  /\ dispatch[d].pc \in {"recorded", "unrecorded"}
  /\ dispatch' = [e \in Dispatches |->
       IF e = d
       THEN [dispatch[d] EXCEPT !.pc = "returned", !.outcome = OwnOutcome(d)]
       ELSE IF At(e, "waiting") /\ dispatch[e].on = Promise(d)
       THEN [dispatch[e] EXCEPT !.pc = "returned", !.outcome = WaiterOutcome(d)]
       ELSE dispatch[e]]
  /\ local' = [local EXCEPT ![NodeOf[d]] = NoDispatch]
  /\ UNCHANGED <<row, provider>>
-----------------------------------------------------------------------------
(* A process dies, with its map and its dispatches, and is started again.  *)
Running(d) == dispatch[d].pc \notin {"new", "returned", "lost"}

Crash(n) ==
  /\ \E d \in Dispatches : NodeOf[d] = n /\ Running(d)
  /\ local' = [local EXCEPT ![n] = NoDispatch]
  /\ dispatch' = [d \in Dispatches |->
                    IF NodeOf[d] = n /\ Running(d)
                    THEN [dispatch[d] EXCEPT !.pc = "lost"] ELSE dispatch[d]]
  /\ UNCHANGED <<row, provider>>
-----------------------------------------------------------------------------
Proceed(d) ==
  \/ CreateRow(d) \/ CreateFails(d) \/ ReadRow(d) \/ ClaimRejects(d)
  \/ JoinFound(d) \/ AnswerFound(d) \/ EnterProvider(d)
  \/ ProviderActs(d) \/ DispatchThrows(d)
  \/ \E answer \in {"verified", "executed"} : ProviderConfirms(d, answer)
  \/ \E answer \in Refusals : ProviderRefuses(d, answer)
  \/ RecordAnswer(d) \/ RecordFails(d) \/ ReturnOwn(d)

Next ==
  \/ \E d \in Dispatches : \/ BlockedByGovernance(d) \/ JoinLocal(d)
                           \/ IssueCreate(d) \/ Proceed(d)
  \/ \E n \in Nodes : Crash(n)

Spec == Init /\ [][Next]_vars

(* Every await of a dispatch returns: the database answers or fails, the   *)
(* actuator answers or throws. Dispatches and crashes are not required.    *)
FairSpec == Spec /\ \A d \in Dispatches : WF_vars(Proceed(d))
-----------------------------------------------------------------------------
(* Properties *)

(* Types: the row, the map and every dispatch keep their declared shape.   *)
TypeOK ==
  /\ row \in Row
  /\ local \in [Nodes -> Dispatches \cup {NoDispatch}]
  /\ dispatch \in [Dispatches -> Dispatch]
  /\ provider \in Provider

(* The durable row tells the truth about the provider: the key is free     *)
(* only if every call was refused, COMPLETED only after the effect, and    *)
(* verified only if the provider confirmed it - whichever dispatches, lost *)
(* answers, failed writes and crashes lie behind it.                       *)
RowTellsTruth ==
  /\ row = Absent => provider.calls = provider.refused
  /\ row.status = "COMPLETED" => provider.effects = 1
  /\ row.result = "verified" => provider.verified

(* The governance implements AtMostOnceActuation: the provider is entered  *)
(* only when every earlier call was refused, there is at most one external *)
(* effect, and no dispatch - owner, waiter or replay - is told of an       *)
(* effect that was not there (docs/PHASE-5-ACTUATOR-GOVERNANCE.md: a       *)
(* completed action cannot execute twice).                                 *)
Promised == INSTANCE AtMostOnceActuation WITH
  doubt    <- provider.calls # provider.refused,
  effects  <- provider.effects,
  verified <- provider.verified,
  told     <- [d \in Dispatches |-> dispatch[d].outcome]
AtMostOnce == Promised!Spec

(* Local waiters are answered, also when the actuator throws and when the  *)
(* write fails, as long as nobody replaces the promise they wait on.       *)
Awaits(d) == At(d, "waiting") /\ Promise(d) = dispatch[d].on
AnsweredUnlessReplaced ==
  \A d \in Dispatches :
    Awaits(d) ~> \/ ~At(d, "waiting")
                 \/ Promise(d) \notin {dispatch[d].on, NoDispatch}
=============================================================================
