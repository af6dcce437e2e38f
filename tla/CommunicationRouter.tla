------------------------ MODULE CommunicationRouter ------------------------
(***************************************************************************)
(* CommunicationRouter.execute over CommunicationExecutionService and      *)
(* HumanReviewService, for one request with one idempotencyKey: attempts   *)
(* to execute it read and write the row that is unique for the key, wait   *)
(* for a human where policy says so, and enter an adapter whose provider   *)
(* may act long after the attempt stopped waiting. Database calls fail     *)
(* with or without having committed; the process dies and loses its        *)
(* attempts and its reviews. Between two actions of an attempt lies an     *)
(* await.                                                                  *)
(***************************************************************************)
EXTENDS Naturals

CONSTANTS
  Attempts,     \* calls of execute with this request; each is made once
  Reviews,      \* ids that createReview may hand out
  NoReview,     \* model value: no reviewId in the metadata
  NamesTask,    \* the request's metadata have a taskId
  Others,       \* other requests that ask for reviews, each by the fields
                \* (see Field) in which its review agrees with the request
  Adapter,      \* "email" (Resend) or "whatsapp"
  OneAtATime    \* callers do not overlap: an attempt begins when none runs

(* What a review says of the request that it was asked for; recipient and  *)
(* text are not part of it.                                                *)
Field == {"action", "requester", "task"}

ASSUME CommunicationAssumption ==
  /\ NoReview \notin Reviews
  /\ NamesTask \in BOOLEAN
  /\ Others \subseteq SUBSET Field
  /\ Adapter \in {"email", "whatsapp"}
  /\ OneAtATime \in BOOLEAN

VARIABLES
  row,       \* the row of communicationExecution for the key
  reviews,   \* HumanReviewService.reviews
  attempt,   \* [Attempts -> the state of the call]
  provider   \* external: what reached the provider

vars == <<row, reviews, attempt, provider>>

Status == {"blocked", "failed", "unknown", "verified"}
Row == [status : Status \cup {"absent", "planned", "executing"},
        executed : BOOLEAN, verified : BOOLEAN]
NoRow == [status |-> "absent", executed |-> FALSE, verified |-> FALSE]
isTerminalStatus(status) == status \in Status
isSafeToRetry(r) == r.status = "failed" /\ ~r.executed /\ ~r.verified

(* agrees: where the review says what this request says.                   *)
Review == [status : {"none", "pending", "approved", "rejected"}, agrees : SUBSET Field]
NotAsked == [status |-> "none", agrees |-> {}]

PC == {"new", "starting", "creating", "resetting", "planned", "blocking",
       "marking", "calling", "recording", "returned", "lost"}
(* request: what became of the message that the adapter sent.              *)
Attempt == [pc : PC, policy : {"allow", "review", "block"},
            review : Reviews \cup {NoReview},
            request : {"none", "sent", "accepted", "refused"},
            answer : Status \cup {"none"},
            outcome : Status \cup {"none", "error"}]
NewAttempt == [pc |-> "new", policy |-> "block", review |-> NoReview,
               request |-> "none", answer |-> "none", outcome |-> "none"]

Provider == [calls : Nat, refused : Nat, effects : Nat, verified : BOOLEAN]

Init ==
  /\ row = NoRow
  /\ reviews = [r \in Reviews |-> NotAsked]
  /\ attempt = [a \in Attempts |-> NewAttempt]
  /\ provider = [calls |-> 0, refused |-> 0, effects |-> 0, verified |-> FALSE]

At(a, label) == attempt[a].pc = label
Goto(a, label) == attempt' = [attempt EXCEPT ![a].pc = label]
Return(a, outcome) ==
  attempt' = [attempt EXCEPT ![a].pc = "returned", ![a].outcome = outcome]
Running(a) == attempt[a].pc \notin {"new", "returned", "lost"}
-----------------------------------------------------------------------------
(* Policy and start *)

(* communicationPolicy.evaluate: what it decides depends on the identities *)
(* of the moment.                                                          *)
Evaluate(a, policy, review) ==
  /\ At(a, "new")
  /\ OneAtATime => \A b \in Attempts : ~Running(b)
  /\ attempt' = [attempt EXCEPT ![a].pc = "starting", ![a].policy = policy,
                                ![a].review = review]
  /\ UNCHANGED <<row, reviews, provider>>

(* Policy or findUnique throws.                                            *)
StartThrows(a) ==
  /\ At(a, "starting")
  /\ Return(a, "error")
  /\ UNCHANGED <<row, reviews, provider>>

(* Mutation: an executing row is taken over like a planned one.            *)
FindExistingTakingOver(a) ==
  /\ At(a, "starting")
  /\ CASE row.status = "absent"         -> Goto(a, "creating")
       [] isSafeToRetry(row)            -> Goto(a, "resetting")
       [] row.status \in {"planned", "executing"} -> Goto(a, "planned")
       [] OTHER                         -> Return(a, row.status)
  /\ UNCHANGED <<row, reviews, provider>>

(* Mutation: the row's own status is the answer, whatever it is.           *)
FindExistingAnswering(a) ==
  /\ At(a, "starting")
  /\ CASE row.status = "absent"         -> Goto(a, "creating")
       [] isSafeToRetry(row)            -> Goto(a, "resetting")
       [] row.status = "planned"        -> Goto(a, "planned")
       [] OTHER                         -> Return(a, row.status)
  /\ UNCHANGED <<row, reviews, provider>>

(* findUnique: an unsafe row answers for the request, except that a        *)
(* planned one has no result and is executed by this attempt, too.         *)
FindExisting(a) ==
  /\ At(a, "starting")
  /\ CASE row.status = "absent"         -> Goto(a, "creating")
       [] isSafeToRetry(row)            -> Goto(a, "resetting")
       [] row.status = "planned"        -> Goto(a, "planned")
       [] row.status = "executing"      -> Return(a, "unknown")
       [] isTerminalStatus(row.status) /\ ~isSafeToRetry(row)
                                        -> Return(a, row.status)
  /\ UNCHANGED <<row, reviews, provider>>

Planned(a) ==
  \/ /\ At(a, "creating")
     /\ row = NoRow
     /\ row' = [NoRow EXCEPT !.status = "planned"]
  \/ /\ At(a, "resetting")
     /\ row' = [row EXCEPT !.status = "planned"]

(* The row is created, or the failed one made planned again.               *)
Plan(a) ==
  /\ Planned(a)
  /\ Goto(a, "planned")
  /\ UNCHANGED <<reviews, provider>>

(* create rejects because the key exists, or either call fails.            *)
PlanFails(a) ==
  /\ attempt[a].pc \in {"creating", "resetting"}
  /\ Planned(a) \/ UNCHANGED row
  /\ Return(a, "error")
  /\ UNCHANGED <<reviews, provider>>
-----------------------------------------------------------------------------
(* The gates, with the reviews of this moment *)

(* What is compared: the task only of a request that names one.            *)
Compared == {"action", "requester"} \cup (IF NamesTask THEN {"task"} ELSE {})

(* Mutation: the task is never compared.                                   *)
canExecuteForAny(review) ==
  /\ review # NoReview
  /\ reviews[review].status = "approved"
  /\ {"action", "requester"} \subseteq reviews[review].agrees

(* The review may be another request's, if it agrees in what is compared.  *)
canExecuteFor(review) ==
  /\ review # NoReview
  /\ reviews[review].status = "approved"
  /\ Compared \subseteq reviews[review].agrees

Known(review) == review # NoReview /\ reviews[review] # NotAsked

Permitted(a) ==
  \/ attempt[a].policy = "allow"
  \/ attempt[a].policy = "review" /\ canExecuteFor(attempt[a].review)

(* get(reviewId), or createReview for this request.                        *)
RequireReview(a) ==
  /\ At(a, "planned")
  /\ attempt[a].policy = "review"
  /\ ~Permitted(a)
  /\ \/ Known(attempt[a].review) /\ UNCHANGED reviews
     \/ /\ ~Known(attempt[a].review)
        /\ \E r \in Reviews :
             /\ reviews[r] = NotAsked
             /\ reviews' = [reviews EXCEPT ![r] =
                              [status |-> "pending", agrees |-> Field]]
  /\ Goto(a, "blocking")
  /\ UNCHANGED <<row, provider>>

(* Blocked by policy, or by an adapter that is missing or unavailable.     *)
Refuse(a) ==
  /\ At(a, "planned")
  /\ attempt[a].policy = "block" \/ Permitted(a)
  /\ Goto(a, "blocking")
  /\ UNCHANGED <<row, reviews, provider>>

Admit(a) ==
  /\ At(a, "planned")
  /\ Permitted(a)
  /\ Goto(a, "marking")
  /\ UNCHANGED <<row, reviews, provider>>

(* complete of the execution service.                                      *)
Complete(status) ==
  row' = [status |-> status, executed |-> status = "verified",
          verified |-> status = "verified"]

Block(a) ==
  /\ At(a, "blocking")
  /\ Complete("blocked")
  /\ Return(a, "blocked")
  /\ UNCHANGED <<reviews, provider>>

(* The write of complete or markExecuting fails and execute throws.        *)
BlockFails(a) ==
  /\ At(a, "blocking")
  /\ Complete("blocked") \/ UNCHANGED row
  /\ Return(a, "error")
  /\ UNCHANGED <<reviews, provider>>

MarkFails(a) ==
  /\ At(a, "marking")
  /\ row' \in {row, [row EXCEPT !.status = "executing"]}
  /\ Return(a, "error")
  /\ UNCHANGED <<reviews, provider>>
-----------------------------------------------------------------------------
(* The adapter and its provider *)

(* markExecuting, and adapter.execute is entered.                          *)
MarkExecuting(a) ==
  /\ At(a, "marking")
  /\ row' = [row EXCEPT !.status = "executing"]
  /\ Goto(a, "calling")
  /\ UNCHANGED <<reviews, provider>>

Answer(a, answer) ==
  attempt' = [attempt EXCEPT ![a].pc = "recording", ![a].answer = answer]

(* A gate of the adapter (mode, consent, recipient) before the network.    *)
AdapterBlocks(a) ==
  /\ At(a, "calling")
  /\ attempt[a].request = "none"
  /\ Answer(a, "blocked")
  /\ UNCHANGED <<row, reviews, provider>>

Send(a) ==
  /\ At(a, "calling")
  /\ attempt[a].request = "none"
  /\ attempt' = [attempt EXCEPT ![a].request = "sent"]
  /\ provider' = [provider EXCEPT !.calls = @ + 1]
  /\ UNCHANGED <<row, reviews>>

(* The provider deals with the request, whoever still waits for it.        *)
ProviderAccepts(a) ==
  /\ attempt[a].request = "sent"
  /\ attempt' = [attempt EXCEPT ![a].request = "accepted"]
  /\ provider' = [provider EXCEPT !.effects = @ + 1]
  /\ UNCHANGED <<row, reviews>>

ProviderRefuses(a) ==
  /\ attempt[a].request = "sent"
  /\ attempt' = [attempt EXCEPT ![a].request = "refused"]
  /\ provider' = [provider EXCEPT !.refused = @ + 1]
  /\ UNCHANGED <<row, reviews>>

(* A 2xx response with a message id.                                       *)
Confirmed(a) ==
  /\ At(a, "calling")
  /\ attempt[a].request = "accepted"
  /\ provider' = [provider EXCEPT !.verified = TRUE]
  /\ Answer(a, "verified")
  /\ UNCHANGED <<row, reviews>>

Rejected(a) ==
  /\ At(a, "calling")
  /\ attempt[a].request = "refused"
  /\ Answer(a, "failed")
  /\ UNCHANGED <<row, reviews, provider>>

(* A 2xx response without a readable message id: an exception of the       *)
(* WhatsApp adapter, a rejection for the email adapter.                    *)
Unreadable(a) ==
  /\ At(a, "calling")
  /\ attempt[a].request = "accepted"
  /\ Answer(a, IF Adapter = "email" THEN "failed" ELSE "unknown")
  /\ UNCHANGED <<row, reviews, provider>>

(* Mutation: a connection that breaks counts as a rejection.               *)
ResponseLostAsFailure(a) ==
  /\ At(a, "calling")
  /\ attempt[a].request # "none"
  /\ Answer(a, "failed")
  /\ UNCHANGED <<row, reviews, provider>>

(* Timeout or broken connection.                                           *)
ResponseLost(a) ==
  /\ At(a, "calling")
  /\ attempt[a].request # "none"
  /\ Answer(a, "unknown")
  /\ UNCHANGED <<row, reviews, provider>>

Record(a) ==
  /\ At(a, "recording")
  /\ Complete(attempt[a].answer)
  /\ Return(a, attempt[a].answer)
  /\ UNCHANGED <<reviews, provider>>

(* The write fails: whatever the provider said, the outcome is unknown.    *)
RecordFails(a) ==
  /\ At(a, "recording")
  /\ Complete(attempt[a].answer) \/ UNCHANGED row
  /\ Return(a, "unknown")
  /\ UNCHANGED <<reviews, provider>>
-----------------------------------------------------------------------------
(* Humans, other requests, and the process *)

DecideReview(r, status) ==
  /\ reviews[r].status = "pending"
  /\ reviews' = [reviews EXCEPT ![r].status = status]
  /\ UNCHANGED <<row, attempt, provider>>

(* The execution of another request asks for a review of its own.          *)
ReviewOfOther(r) ==
  /\ reviews[r] = NotAsked
  /\ \E agrees \in Others :
       reviews' = [reviews EXCEPT ![r] = [status |-> "pending", agrees |-> agrees]]
  /\ UNCHANGED <<row, attempt, provider>>

Crash ==
  /\ \E a \in Attempts : Running(a)
  /\ attempt' = [a \in Attempts |->
                   IF Running(a) THEN [attempt[a] EXCEPT !.pc = "lost"]
                   ELSE attempt[a]]
  /\ reviews' = [r \in Reviews |-> NotAsked]
  /\ UNCHANGED <<row, provider>>
-----------------------------------------------------------------------------
Step(a) ==
  \/ \E policy \in {"allow", "review", "block"}, review \in Reviews \cup {NoReview} :
       Evaluate(a, policy, review)
  \/ StartThrows(a) \/ FindExisting(a) \/ Plan(a) \/ PlanFails(a)
  \/ RequireReview(a) \/ Refuse(a) \/ Admit(a) \/ Block(a) \/ BlockFails(a)
  \/ MarkExecuting(a) \/ MarkFails(a)
  \/ AdapterBlocks(a) \/ Send(a) \/ ProviderAccepts(a) \/ ProviderRefuses(a)
  \/ Confirmed(a) \/ Rejected(a) \/ Unreadable(a) \/ ResponseLost(a)
  \/ Record(a) \/ RecordFails(a)

Next ==
  \/ \E a \in Attempts : Step(a)
  \/ \E r \in Reviews : \/ \E status \in {"approved", "rejected"} : DecideReview(r, status)
                        \/ ReviewOfOther(r)
  \/ Crash

Spec == Init /\ [][Next]_vars
-----------------------------------------------------------------------------
(* Properties *)

(* Types: the row, the reviews and every attempt keep their shape.         *)
TypeOK ==
  /\ row \in Row
  /\ reviews \in [Reviews -> Review]
  /\ attempt \in [Attempts -> Attempt]
  /\ provider \in Provider

(* The row tells the truth about the provider: what start may still        *)
(* execute or retry has no message in doubt behind it, and verified means  *)
(* that the provider confirmed it.                                         *)
RetryOnlyRefused ==
  row.status \in {"absent", "planned", "failed", "blocked"}
    => provider.calls = provider.refused

VerifiedIsConfirmed == row.verified => provider.verified

LedgerTruth == RetryOnlyRefused /\ VerifiedIsConfirmed

(* A message is under way only for an attempt that policy allowed, or for  *)
(* which a human approved, in this life of the process, a review of the    *)
(* same action by the same requester, and of the same task where the       *)
(* request names one. No more than that: an approval given to another      *)
(* message of that requester, recipient or text may cover this one.        *)
SentWithConsent ==
  \A a \in Attempts :
    attempt[a].pc \in {"marking", "calling"} =>
      \/ attempt[a].policy = "allow"
      \/ /\ attempt[a].policy = "review"
         /\ attempt[a].review \in Reviews
         /\ reviews[attempt[a].review].status = "approved"
         /\ {"action", "requester"} \subseteq reviews[attempt[a].review].agrees
         /\ NamesTask => "task" \in reviews[attempt[a].review].agrees

(* Callers that do not overlap get AtMostOnceActuation: no message leaves  *)
(* while an earlier one is in doubt, one is accepted at most, and nobody   *)
(* is told of a delivery that did not happen ("must not be resent          *)
(* automatically", router.ts:278) - over crashes, lost responses, late     *)
(* providers and failing writes.                                           *)
Told(outcome) ==
  CASE outcome = "verified" -> "VERIFIED"
    [] outcome = "failed"   -> "FAILED"
    [] outcome = "blocked"  -> "BLOCKED"
    [] outcome = "unknown"  -> "UNKNOWN"
    [] outcome = "error"    -> "ERROR"
    [] outcome = "none"     -> "none"
Promised == INSTANCE AtMostOnceActuation WITH
  Dispatches <- Attempts,
  doubt      <- provider.calls # provider.refused,
  effects    <- provider.effects,
  verified   <- provider.verified,
  told       <- [a \in Attempts |-> Told(attempt[a].outcome)]
SentAtMostOnce == Promised!Spec
=============================================================================
