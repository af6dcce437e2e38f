------------------------ MODULE CommunicationProofs ------------------------
(***************************************************************************)
(* Theorems about CommunicationRouter, for any number of attempts and      *)
(* reviews. Types and consent hold for attempts that overlap; the row's    *)
(* truth and at most one message for attempts that do not, over the        *)
(* WhatsApp adapter (the run MisreadResponse shows what email does).       *)
(***************************************************************************)
EXTENDS CommunicationRouter, TLAPS

(* The steps an attempt takes by itself, in the order of execute.          *)
Gate(a) ==
  \/ StartThrows(a) \/ FindExisting(a) \/ Plan(a) \/ PlanFails(a)
  \/ RequireReview(a) \/ Refuse(a) \/ Admit(a) \/ Block(a) \/ BlockFails(a)
  \/ MarkExecuting(a) \/ MarkFails(a)
Answered(a) ==
  \/ AdapterBlocks(a) \/ Confirmed(a) \/ Rejected(a) \/ Unreadable(a) \/ ResponseLost(a)
Recorded(a) == Record(a) \/ RecordFails(a)
ProviderStep(a) == Send(a) \/ ProviderAccepts(a) \/ ProviderRefuses(a)
Begun(a) ==
  \E policy \in {"allow", "review", "block"}, review \in Reviews \cup {NoReview} :
    Evaluate(a, policy, review)
Human(r) ==
  ReviewOfOther(r) \/ \E status \in {"approved", "rejected"} : DecideReview(r, status)

LEMMA NextGroups ==
  ASSUME Next
  PROVE  \/ \E a \in Attempts : Begun(a) \/ Gate(a) \/ Answered(a) \/ Recorded(a) \/ ProviderStep(a)
         \/ \E r \in Reviews : Human(r)
         \/ Crash
  BY DEF Next, Step, Begun, Gate, Answered, Recorded, ProviderStep, Human

-----------------------------------------------------------------------------
(* Types *)

LEMMA AttemptMoves ==
  ASSUME TypeOK, NEW a \in Attempts, NEW x \in Attempt,
         attempt' = [attempt EXCEPT ![a] = x]
  PROVE  attempt' \in [Attempts -> Attempt]
  BY DEF TypeOK

LEMMA CompleteType ==
  ASSUME NEW status \in Status, Complete(status) PROVE row' \in Row
  BY DEF Complete, Row, Status

(* A gate moves its attempt on, or returns with an outcome.                *)
LEMMA GateMoves ==
  ASSUME TypeOK, NEW a \in Attempts, Gate(a)
  PROVE  /\ \/ \E label \in {"creating", "resetting", "planned", "blocking", "marking", "calling"} :
                 Goto(a, label)
            \/ \E outcome \in Status \cup {"error"} : Return(a, outcome)
         /\ Running(a) /\ UNCHANGED provider
  <1>1. CASE StartThrows(a) \/ PlanFails(a) \/ BlockFails(a) \/ MarkFails(a)
    BY <1>1 DEF StartThrows, PlanFails, BlockFails, MarkFails, At, Running
  <1>2. CASE FindExisting(a)
    <2>1. row.status \in Status \cup {"absent", "planned", "executing"}
      BY DEF TypeOK, Row
    <2> QED BY <1>2, <2>1 DEF FindExisting, isSafeToRetry, isTerminalStatus, Status, At, Running
  <1>3. CASE Plan(a) \/ RequireReview(a) \/ Refuse(a) \/ Admit(a) \/ MarkExecuting(a)
    BY <1>3 DEF Plan, Planned, RequireReview, Refuse, Admit, MarkExecuting, At, Running
  <1>4. CASE Block(a)
    BY <1>4 DEF Block, At, Running, Status
  <1> QED BY <1>1, <1>2, <1>3, <1>4 DEF Gate

LEMMA MovedType ==
  ASSUME TypeOK, NEW a \in Attempts,
         \/ \E label \in PC : Goto(a, label)
         \/ \E outcome \in Status \cup {"error"} : Return(a, outcome)
         \/ \E answer \in Status : Answer(a, answer)
         \/ \E request \in {"sent", "accepted", "refused"} :
              attempt' = [attempt EXCEPT ![a].request = request]
  PROVE  attempt' \in [Attempts -> Attempt]
  <1> USE DEF TypeOK, Attempt
  <1>1. ASSUME NEW label \in PC, Goto(a, label) PROVE attempt' \in [Attempts -> Attempt]
    BY <1>1 DEF Goto
  <1>2. ASSUME NEW outcome \in Status \cup {"error"}, Return(a, outcome)
        PROVE  attempt' \in [Attempts -> Attempt]
    <2> DEFINE x == [attempt[a] EXCEPT !.pc = "returned", !.outcome = outcome]
    <2>1. x \in Attempt
      <3>1. attempt[a] \in Attempt
        OBVIOUS
      <3> QED BY <1>2, <3>1 DEF PC, Status
    <2>2. attempt' = [attempt EXCEPT ![a] = x]
      BY <1>2 DEF Return
    <2> QED BY <2>1, <2>2, AttemptMoves
  <1>3. ASSUME NEW answer \in Status, Answer(a, answer)
        PROVE  attempt' \in [Attempts -> Attempt]
    <2> DEFINE x == [attempt[a] EXCEPT !.pc = "recording", !.answer = answer]
    <2>1. x \in Attempt
      <3>1. attempt[a] \in Attempt
        OBVIOUS
      <3> QED BY <1>3, <3>1 DEF PC, Status
    <2>2. attempt' = [attempt EXCEPT ![a] = x]
      BY <1>3 DEF Answer
    <2> QED BY <2>1, <2>2, AttemptMoves
  <1> QED BY <1>1, <1>2, <1>3

LEMMA GateTyped ==
  ASSUME TypeOK, NEW a \in Attempts, Gate(a) PROVE TypeOK'
  <1>1. attempt' \in [Attempts -> Attempt] /\ provider' \in Provider
    BY GateMoves, MovedType DEF TypeOK, PC
  <1>2. row' \in Row
    BY CompleteType
    DEF Gate, StartThrows, FindExisting, Plan, PlanFails, Planned, RequireReview, Refuse, Admit,
        Block, BlockFails, MarkExecuting, MarkFails, TypeOK, Row, NoRow, Status
  <1>3. reviews' = reviews \/ RequireReview(a)
    BY DEF Gate, StartThrows, FindExisting, Plan, PlanFails, Refuse, Admit,
        Block, BlockFails, MarkExecuting, MarkFails
  <1>4. reviews' \in [Reviews -> Review]
    <2>1. CASE \E r \in Reviews : reviews' = [reviews EXCEPT ![r] = [status |-> "pending", agrees |-> Field]]
      BY <2>1 DEF TypeOK, Review
    <2>2. CASE reviews' = reviews
      BY <2>2 DEF TypeOK
    <2> QED BY <1>3, <2>1, <2>2 DEF RequireReview
  <1> QED BY <1>1, <1>2, <1>4 DEF TypeOK

LEMMA AnsweredTyped ==
  ASSUME TypeOK, NEW a \in Attempts, Answered(a) PROVE TypeOK'
  <1>1. \E answer \in Status : Answer(a, answer)
    BY DEF Answered, AdapterBlocks, Confirmed, Rejected, Unreadable, ResponseLost, Status
  <1>2. attempt' \in [Attempts -> Attempt]
    BY <1>1, MovedType
  <1>3. provider' \in Provider
    BY DEF Answered, AdapterBlocks, Confirmed, Rejected, Unreadable, ResponseLost, TypeOK, Provider
  <1> QED BY <1>2, <1>3
      DEF Answered, AdapterBlocks, Confirmed, Rejected, Unreadable, ResponseLost, TypeOK

(* An attempt that records has an answer.                                  *)
HasAnswer == \A a \in Attempts : At(a, "recording") => attempt[a].answer \in Status
Typed == TypeOK /\ HasAnswer

LEMMA RecordedTyped ==
  ASSUME Typed, NEW a \in Attempts, Recorded(a) PROVE TypeOK'
  <1>1. attempt[a].answer \in Status
    BY DEF Typed, HasAnswer, Recorded, Record, RecordFails
  <1>2. attempt' \in [Attempts -> Attempt]
    BY <1>1, MovedType DEF Typed, Recorded, Record, RecordFails, Status
  <1>3. row' \in Row
    BY <1>1, CompleteType DEF Recorded, Record, RecordFails, Typed, TypeOK
  <1> QED BY <1>2, <1>3 DEF Recorded, Record, RecordFails, Typed, TypeOK

LEMMA ProviderTyped ==
  ASSUME TypeOK, NEW a \in Attempts, ProviderStep(a) PROVE TypeOK'
  <1>1. attempt' \in [Attempts -> Attempt]
    BY MovedType DEF ProviderStep, Send, ProviderAccepts, ProviderRefuses
  <1>2. provider' \in Provider
    BY DEF ProviderStep, Send, ProviderAccepts, ProviderRefuses, TypeOK, Provider
  <1> QED BY <1>1, <1>2 DEF ProviderStep, Send, ProviderAccepts, ProviderRefuses, TypeOK

LEMMA OthersTyped ==
  ASSUME TypeOK,
         (\E a \in Attempts : Begun(a)) \/ (\E r \in Reviews : Human(r)) \/ Crash
  PROVE  TypeOK'
  <1>1. CASE \E a \in Attempts : Begun(a)
    <2>1. PICK a \in Attempts, policy \in {"allow", "review", "block"},
               review \in Reviews \cup {NoReview} : Evaluate(a, policy, review)
      BY <1>1 DEF Begun
    <2> DEFINE x == [attempt[a] EXCEPT !.pc = "starting", !.policy = policy, !.review = review]
    <2>2. x \in Attempt /\ attempt' = [attempt EXCEPT ![a] = x]
      BY <2>1 DEF Evaluate, TypeOK, Attempt, PC
    <2> QED BY <2>1, <2>2, AttemptMoves DEF Evaluate, TypeOK
  <1>2. CASE \E r \in Reviews : Human(r)
    <2>1. PICK r \in Reviews : Human(r)
      BY <1>2
    <2>2. CASE ReviewOfOther(r)
      <3>1. PICK agrees \in Others : reviews' = [reviews EXCEPT ![r] = [status |-> "pending", agrees |-> agrees]]
        BY <2>2 DEF ReviewOfOther
      <3>2. [status |-> "pending", agrees |-> agrees] \in Review
        BY CommunicationAssumption DEF Review
      <3> QED BY <2>2, <3>1, <3>2 DEF ReviewOfOther, TypeOK
    <2>3. CASE \E status \in {"approved", "rejected"} : DecideReview(r, status)
      BY <2>3 DEF DecideReview, TypeOK, Review
    <2> QED BY <2>1, <2>2, <2>3 DEF Human
  <1>3. CASE Crash
    <2>1. ASSUME NEW a \in Attempts PROVE attempt'[a] \in Attempt
      BY <1>3 DEF Crash, TypeOK, Attempt, PC
    <2>2. attempt' \in [Attempts -> Attempt] /\ reviews' \in [Reviews -> Review]
      BY <1>3, <2>1 DEF Crash, Review, NotAsked
    <2> QED BY <1>3, <2>2 DEF Crash, TypeOK
  <1> QED BY <1>1, <1>2, <1>3

LEMMA AnswerStays ==
  ASSUME Typed, Next PROVE HasAnswer'
  <1> SUFFICES ASSUME NEW b \in Attempts, At(b, "recording")'
               PROVE  attempt'[b].answer \in Status
    BY DEF HasAnswer
  <1>1. ASSUME NEW a \in Attempts, Answered(a) PROVE attempt'[b].answer \in Status
    <2>1. PICK answer \in Status : Answer(a, answer)
      BY <1>1 DEF Answered, AdapterBlocks, Confirmed, Rejected, Unreadable, ResponseLost, Status
    <2>2. attempt'[a].answer = answer /\ \A c \in Attempts \ {a} : attempt'[c] = attempt[c]
      BY <2>1 DEF Answer, Typed, TypeOK, Attempt
    <2> QED BY <2>1, <2>2 DEF Typed, HasAnswer, At
  <1>2. CASE ~\E a \in Attempts : Answered(a)
    <2>1. At(b, "recording") /\ attempt'[b].answer = attempt[b].answer
      <3>1. ASSUME NEW a \in Attempts, Begun(a)
            PROVE  At(b, "recording") /\ attempt'[b].answer = attempt[b].answer
        BY <3>1 DEF Begun, Evaluate, Typed, TypeOK, Attempt, At
      <3>2. ASSUME NEW a \in Attempts, Gate(a) \/ Recorded(a)
            PROVE  At(b, "recording") /\ attempt'[b].answer = attempt[b].answer
        <4>1. \/ \E label \in PC \ {"recording"} : Goto(a, label)
              \/ \E outcome \in Status \cup {"error"} : Return(a, outcome)
          BY <3>2, GateMoves DEF Typed, HasAnswer, Recorded, Record, RecordFails, PC, Status
        <4>2. attempt'[a].pc # "recording" /\ \A c \in Attempts \ {a} : attempt'[c] = attempt[c]
          BY <4>1 DEF Goto, Return, Typed, TypeOK, Attempt
        <4> QED BY <4>2 DEF At
      <3>3. ASSUME NEW a \in Attempts, ProviderStep(a)
            PROVE  At(b, "recording") /\ attempt'[b].answer = attempt[b].answer
        <4>1. PICK request \in {"sent", "accepted", "refused"} :
                attempt' = [attempt EXCEPT ![a].request = request]
          BY <3>3 DEF ProviderStep, Send, ProviderAccepts, ProviderRefuses
        <4> QED BY <4>1 DEF Typed, TypeOK, Attempt, At
      <3>4. ASSUME NEW r \in Reviews, Human(r)
            PROVE  At(b, "recording") /\ attempt'[b].answer = attempt[b].answer
        BY <3>4 DEF Human, ReviewOfOther, DecideReview, At
      <3>5. CASE Crash
        BY <3>5 DEF Crash, Typed, TypeOK, Attempt, At
      <3> QED BY <1>2, <3>1, <3>2, <3>3, <3>4, <3>5, NextGroups
    <2> QED BY <2>1 DEF Typed, HasAnswer
  <1> QED BY <1>1, <1>2

LEMMA TypedStep == Typed /\ [Next]_vars => Typed'
  <1> SUFFICES ASSUME Typed, [Next]_vars PROVE Typed'
    OBVIOUS
  <1>1. CASE UNCHANGED vars
    BY <1>1 DEF vars, Typed, TypeOK, HasAnswer, At
  <1>2. CASE Next
    BY <1>2, NextGroups, GateTyped, AnsweredTyped, RecordedTyped, ProviderTyped, OthersTyped,
       AnswerStays DEF Typed
  <1> QED BY <1>1, <1>2

LEMMA TypedInit == Init => Typed
  BY DEF Init, Typed, TypeOK, HasAnswer, At, Row, NoRow, Review, NotAsked, Attempt, NewAttempt, PC,
         Provider

(* Types: the row, the reviews and every attempt keep their shape.         *)
THEOREM TypeCorrect == Spec => []TypeOK
  <1>1. Typed => TypeOK
    BY DEF Typed
  <1> QED BY <1>1, TypedInit, TypedStep, PTL DEF Spec
-----------------------------------------------------------------------------
(* Consent *)

(* A human approved, for this action, requester and task.                  *)
Approved(r) ==
  /\ reviews[r].status = "approved"
  /\ {"action", "requester"} \subseteq reviews[r].agrees
  /\ NamesTask => "task" \in reviews[r].agrees

HasConsent(a) ==
  \/ attempt[a].policy = "allow"
  \/ /\ attempt[a].policy = "review"
     /\ attempt[a].review \in Reviews
     /\ Approved(attempt[a].review)

LEMMA PermittedConsents ==
  ASSUME TypeOK, NEW a \in Attempts, Permitted(a) PROVE HasConsent(a)
  <1>1. attempt[a].review \in Reviews \cup {NoReview}
    BY DEF TypeOK, Attempt
  <1>2. CASE attempt[a].policy = "allow"
    BY <1>2 DEF HasConsent
  <1>3. CASE attempt[a].policy = "review" /\ canExecuteFor(attempt[a].review)
    <2> DEFINE r == attempt[a].review
    <2>1. r \in Reviews /\ reviews[r].status = "approved" /\ Compared \subseteq reviews[r].agrees
      BY <1>1, <1>3 DEF canExecuteFor
    <2>2. Approved(r)
      BY <2>1 DEF Approved, Compared
    <2> QED BY <1>3, <2>1, <2>2 DEF HasConsent
  <1> QED BY <1>2, <1>3 DEF Permitted

(* Who was going to send keeps its consent as long as the process lives.   *)
LEMMA ConsentStays ==
  ASSUME TypeOK, NEW a \in Attempts, HasConsent(a),
         attempt'[a].policy = attempt[a].policy, attempt'[a].review = attempt[a].review,
         \/ reviews' = reviews
         \/ \E b \in Attempts : RequireReview(b)
         \/ \E r \in Reviews : Human(r)
  PROVE  HasConsent(a)'
  <1>1. \A r \in Reviews : reviews[r].status = "approved" => reviews'[r] = reviews[r]
    <2>1. CASE \E b \in Attempts : RequireReview(b)
      <3>1. \/ reviews' = reviews
            \/ \E r \in Reviews : /\ reviews[r] = NotAsked
                                  /\ reviews' = [reviews EXCEPT ![r] = [status |-> "pending", agrees |-> Field]]
        BY <2>1 DEF RequireReview
      <3>2. \/ reviews' = reviews
            \/ \E r \in Reviews : /\ reviews[r].status # "approved"
                                  /\ \A q \in Reviews \ {r} : reviews'[q] = reviews[q]
        BY <3>1 DEF NotAsked, TypeOK
      <3> QED BY <3>2
    <2>2. CASE \E r \in Reviews : Human(r)
      <3>1. \E r \in Reviews : /\ reviews[r].status # "approved"
                               /\ \A q \in Reviews \ {r} : reviews'[q] = reviews[q]
        BY <2>2 DEF Human, ReviewOfOther, DecideReview, NotAsked, TypeOK
      <3> QED BY <3>1
    <2> QED BY <2>1, <2>2
  <1> QED BY <1>1 DEF HasConsent, Approved

Sending(a) == attempt[a].pc \in {"marking", "calling"}

(* Where the attempts that are going to send come from.                    *)
LEMMA SendersKeep ==
  ASSUME Typed, Next, NEW b \in Attempts, Sending(b)'
  PROVE  /\ Sending(b) \/ Admit(b)
         /\ attempt'[b].policy = attempt[b].policy /\ attempt'[b].review = attempt[b].review
         /\ \/ reviews' = reviews
            \/ \E a \in Attempts : RequireReview(a)
            \/ \E r \in Reviews : Human(r)
  <1> DEFINE Same == attempt'[b].policy = attempt[b].policy /\ attempt'[b].review = attempt[b].review
             Reviewed == \/ reviews' = reviews
                         \/ \E a \in Attempts : RequireReview(a)
                         \/ \E r \in Reviews : Human(r)
  <1> USE DEF Typed, TypeOK
  <1>1. ASSUME NEW a \in Attempts, Begun(a) PROVE Sending(b) /\ Same /\ Reviewed
    <2>1. reviews' = reviews /\ attempt'[a].pc = "starting"
          /\ \A c \in Attempts \ {a} : attempt'[c] = attempt[c]
      BY <1>1 DEF Begun, Evaluate, Attempt
    <2> QED BY <2>1 DEF Sending
  <1>2. ASSUME NEW a \in Attempts, Gate(a) PROVE (Sending(b) \/ Admit(b)) /\ Same /\ Reviewed
    <2>1. \A c \in Attempts \ {a} : attempt'[c] = attempt[c]
      BY <1>2, GateMoves DEF Goto, Return
    <2>2. attempt'[a].policy = attempt[a].policy /\ attempt'[a].review = attempt[a].review
      <3>1. CASE \E label \in PC : Goto(a, label)
        BY <3>1 DEF Goto, Attempt
      <3>2. CASE \E outcome \in Status \cup {"error"} : Return(a, outcome)
        BY <3>2 DEF Return, Attempt
      <3> QED BY <1>2, <3>1, <3>2, GateMoves DEF PC
    <2>3. Reviewed
      BY <1>2 DEF Gate, StartThrows, FindExisting, Plan, PlanFails, Refuse, Admit, Block,
          BlockFails, MarkExecuting, MarkFails
    <2>4. CASE b = a
      <3>1. CASE Admit(a) \/ MarkExecuting(a)
        BY <2>2, <2>3, <2>4, <3>1 DEF MarkExecuting, At, Sending
      <3>2. CASE StartThrows(a) \/ PlanFails(a) \/ BlockFails(a) \/ MarkFails(a) \/ Block(a)
        <4>1. attempt'[a].pc = "returned"
          BY <3>2 DEF StartThrows, PlanFails, BlockFails, MarkFails, Block, Return, Attempt
        <4> QED BY <2>4, <4>1 DEF Sending
      <3>3. CASE FindExisting(a)
        <4>1. Goto(a, "creating") \/ Goto(a, "resetting") \/ Goto(a, "planned")
                \/ \E outcome \in Status : Return(a, outcome)
          <5>1. row.status \in Status \cup {"absent", "planned", "executing"}
            BY DEF Row
          <5> QED BY <3>3, <5>1 DEF FindExisting, isSafeToRetry, isTerminalStatus, Status
        <4>2. attempt'[a].pc \in {"creating", "resetting", "planned", "returned"}
          BY <4>1 DEF Goto, Return, Attempt
        <4> QED BY <2>4, <4>2 DEF Sending
      <3>4. CASE Plan(a) \/ RequireReview(a) \/ Refuse(a)
        <4>1. attempt'[a].pc \in {"planned", "blocking"}
          BY <3>4 DEF Plan, RequireReview, Refuse, Goto, Attempt
        <4> QED BY <2>4, <4>1 DEF Sending
      <3> QED BY <1>2, <3>1, <3>2, <3>3, <3>4 DEF Gate
    <2> QED BY <2>1, <2>3, <2>4 DEF Sending
  <1>3. ASSUME NEW a \in Attempts, Answered(a) \/ Recorded(a) PROVE Sending(b) /\ Same /\ Reviewed
    <2>1. reviews' = reviews /\ attempt'[a].pc \in {"recording", "returned"}
          /\ \A c \in Attempts \ {a} : attempt'[c] = attempt[c]
      BY <1>3 DEF Answered, AdapterBlocks, Confirmed, Rejected, Unreadable, ResponseLost, Answer,
          Recorded, Record, RecordFails, Return, Attempt
    <2> QED BY <2>1 DEF Sending
  <1>4. ASSUME NEW a \in Attempts, ProviderStep(a) PROVE Sending(b) /\ Same /\ Reviewed
    <2>1. PICK request \in {"sent", "accepted", "refused"} :
            attempt' = [attempt EXCEPT ![a].request = request] /\ reviews' = reviews
      BY <1>4 DEF ProviderStep, Send, ProviderAccepts, ProviderRefuses
    <2> QED BY <2>1 DEF Sending, Attempt
  <1>5. ASSUME NEW r \in Reviews, Human(r) PROVE Sending(b) /\ Same /\ Reviewed
    BY <1>5 DEF Human, ReviewOfOther, DecideReview, Sending
  <1>6. CASE Crash
    BY <1>6 DEF Crash, Running, Sending, Attempt
  <1> QED BY <1>1, <1>2, <1>3, <1>4, <1>5, <1>6, NextGroups

(* A message is under way only for an attempt that policy allowed, or whose *)
(* review a human approved, in this life of the process, for the same       *)
(* action, requester and, where the request names one, task.                *)
THEOREM ConsentBeforeSending == Spec => []SentWithConsent
  <1> DEFINE IInv == Typed /\ SentWithConsent
  <1>1. Init => IInv
    BY TypedInit DEF Init, NewAttempt, SentWithConsent
  <1>2. IInv /\ [Next]_vars => IInv'
    <2> SUFFICES ASSUME IInv, [Next]_vars PROVE IInv'
      OBVIOUS
    <2>1. Typed'
      BY TypedStep
    <2>2. CASE UNCHANGED vars
      BY <2>1, <2>2 DEF vars, SentWithConsent
    <2>3. CASE Next
      <3>1. ASSUME NEW b \in Attempts, Sending(b)' PROVE HasConsent(b)'
        <4>1. HasConsent(b)
          BY <2>3, <3>1, SendersKeep, PermittedConsents
          DEF Sending, SentWithConsent, HasConsent, Approved, Admit, Typed
        <4> QED BY <2>3, <3>1, <4>1, SendersKeep, ConsentStays DEF Typed
      <3> QED BY <2>1, <3>1 DEF SentWithConsent, Sending, HasConsent, Approved
    <2> QED BY <2>2, <2>3
  <1>3. IInv => SentWithConsent
    OBVIOUS
  <1> QED BY <1>1, <1>2, <1>3, PTL DEF Spec
-----------------------------------------------------------------------------
(* At most one message, for attempts that do not overlap over WhatsApp *)

Assumed == OneAtATime /\ Adapter = "whatsapp"

(* A message of this attempt was sent and has not been refused.            *)
InDoubt(a) == attempt[a].request \in {"sent", "accepted"}

Early == {"new", "starting", "creating", "resetting", "planned", "blocking", "marking"}

(* What an attempt has told and sent, by how far it has come.              *)
Progress(a) ==
  /\ attempt[a].pc # "returned" => attempt[a].outcome = "none"
  /\ attempt[a].pc \in Early => attempt[a].request = "none"
  /\ attempt[a].pc \in {"calling", "recording"} => row.status = "executing"
  /\ At(a, "recording") =>
       /\ attempt[a].answer = "verified" => provider.verified
       /\ attempt[a].answer \in {"failed", "blocked"} => ~InDoubt(a)

(* A message in doubt: the row keeps everybody else out of its way.        *)
Guarded(a) ==
  InDoubt(a) =>
    /\ row.status \in {"executing", "unknown", "verified"}
    /\ \A b \in Attempts \ {a} : ~InDoubt(b) /\ (Running(b) => At(b, "starting"))
    /\ provider.calls = provider.refused + 1
    /\ provider.effects = IF attempt[a].request = "accepted" THEN 1 ELSE 0

NobodyInDoubt == \A a \in Attempts : ~InDoubt(a)

Books ==
  /\ NobodyInDoubt => provider.calls = provider.refused /\ provider.effects = 0
  /\ provider.verified => provider.effects = 1
  /\ row.verified \/ row.status = "verified" => provider.verified

Alone == \A a, b \in Attempts : Running(a) /\ Running(b) => a = b

RInv == /\ Typed /\ Alone /\ Books
        /\ \A a \in Attempts : Progress(a) /\ Guarded(a)

(* The invariant after a step of the only attempt that runs, that sends    *)
(* nothing: what x, the new row and what is confirmed have to satisfy.     *)
LEMMA OwnAnswer ==
  ASSUME RInv, Typed', NEW a \in Attempts, NEW x \in Attempt,
         attempt' = [attempt EXCEPT ![a] = x],
         provider'.calls = provider.calls, provider'.refused = provider.refused,
         provider'.effects = provider.effects,
         provider.verified => provider'.verified,
         provider'.verified => provider.effects = 1,
         x.request = attempt[a].request,
         \A b \in Attempts \ {a} : ~Running(b),
         x.pc # "returned" => x.outcome = "none",
         x.pc \in Early => x.request = "none",
         x.pc \in {"calling", "recording"} => row'.status = "executing",
         x.pc = "recording" =>
           /\ x.answer = "verified" => provider'.verified
           /\ x.answer \in {"failed", "blocked"} => ~InDoubt(a),
         NobodyInDoubt \/ row'.status \in {"executing", "unknown", "verified"},
         x.pc \in {"new", "starting", "returned", "lost"}
           \/ \A b \in Attempts \ {a} : ~InDoubt(b),
         row'.verified \/ row'.status = "verified" => provider'.verified
  PROVE  RInv'
  <1> USE DEF Typed, TypeOK
  <1>1. attempt'[a] = x /\ \A b \in Attempts \ {a} : attempt'[b] = attempt[b]
    OBVIOUS
  <1>2. \A b \in Attempts : InDoubt(b)' <=> InDoubt(b)
    BY <1>1 DEF InDoubt
  <1>3. \A b \in Attempts \ {a} : ~Running(b)'
    BY <1>1 DEF Running
  <1>4. Alone'
    BY <1>3 DEF Alone
  <1>5. Books'
    BY <1>2 DEF RInv, Books, NobodyInDoubt
  <1>6. Progress(a)'
    BY <1>1, <1>2 DEF Progress, At
  <1>7. ASSUME NEW b \in Attempts \ {a} PROVE Progress(b)'
    <2>1. attempt'[b] = attempt[b] /\ b \in Attempts /\ Progress(b)
      BY <1>1, <1>7 DEF RInv
    <2>2. attempt[b].pc \notin {"calling", "recording"}
      BY <1>7 DEF Running
    <2> QED BY <2>1, <2>2 DEF Progress, At
  <1>8. ASSUME NEW b \in Attempts, InDoubt(b)' PROVE Guarded(b)'
    <2>1. InDoubt(b) /\ Guarded(b)
      BY <1>2, <1>8 DEF RInv
    <2>2. row'.status \in {"executing", "unknown", "verified"}
      BY <2>1 DEF NobodyInDoubt
    <2>3. \A c \in Attempts \ {b} : ~InDoubt(c)'
      BY <1>2, <2>1 DEF Guarded
    <2>4. \A c \in Attempts \ {b} : Running(c)' => At(c, "starting")'
      <3>1. a # b => x.pc \in {"new", "starting", "returned", "lost"}
        BY <2>1
      <3> QED BY <1>1, <1>3, <3>1 DEF Running, At
    <2>5. attempt'[b].request = attempt[b].request
      BY <1>1
    <2> QED BY <2>1, <2>2, <2>3, <2>4, <2>5 DEF Guarded
  <1> QED BY <1>4, <1>5, <1>6, <1>7, <1>8 DEF RInv, Guarded

LEMMA OwnStep ==
  ASSUME RInv, Typed', NEW a \in Attempts, NEW x \in Attempt,
         attempt' = [attempt EXCEPT ![a] = x], provider' = provider,
         x.request = attempt[a].request,
         \A b \in Attempts \ {a} : ~Running(b),
         x.pc # "returned" => x.outcome = "none",
         x.pc \in Early => x.request = "none",
         x.pc \in {"calling", "recording"} => row'.status = "executing",
         x.pc = "recording" =>
           /\ x.answer = "verified" => provider.verified
           /\ x.answer \in {"failed", "blocked"} => ~InDoubt(a),
         NobodyInDoubt \/ row'.status \in {"executing", "unknown", "verified"},
         x.pc \in {"new", "starting", "returned", "lost"}
           \/ \A b \in Attempts \ {a} : ~InDoubt(b),
         row'.verified \/ row'.status = "verified" => provider.verified
  PROVE  RInv'
  <1>1. provider.verified => provider.effects = 1
    BY DEF RInv, Books
  <1> QED BY <1>1, OwnAnswer

(* An attempt past its look at the row has no other message to mind.       *)
LEMMA OthersDone ==
  ASSUME RInv, NEW a \in Attempts, Running(a)
  PROVE  /\ \A b \in Attempts \ {a} : ~Running(b)
         /\ ~At(a, "starting") => \A b \in Attempts \ {a} : ~InDoubt(b)
         /\ attempt[a].outcome = "none"
         /\ attempt[a].pc \in Early => ~InDoubt(a)
  BY DEF RInv, Alone, Guarded, Progress, Running, InDoubt

-----------------------------------------------------------------------------
LEMMA BegunKeeps ==
  ASSUME Assumed, RInv, Typed', NEW a \in Attempts, Begun(a) PROVE RInv'
  <1>1. PICK policy \in {"allow", "review", "block"}, review \in Reviews \cup {NoReview} :
          Evaluate(a, policy, review)
    BY DEF Begun
  <1> DEFINE x == [attempt[a] EXCEPT !.pc = "starting", !.policy = policy, !.review = review]
  <1>2. attempt[a] \in Attempt /\ At(a, "new")
    BY <1>1 DEF Evaluate, RInv, Typed, TypeOK
  <1>3. x \in Attempt
    BY <1>2 DEF Attempt, PC
  <1>9. attempt' = [attempt EXCEPT ![a] = x]
    BY <1>1, <1>2 DEF Evaluate, RInv, Typed, TypeOK
  <1>4. /\ x.pc = "starting" /\ x.request = attempt[a].request
        /\ x.outcome = "none" /\ x.request = "none"
    BY <1>2 DEF Attempt, At, RInv, Progress, Early
  <1>5. \A b \in Attempts : ~Running(b)
    BY <1>1 DEF Evaluate, Assumed
  <1>6. NobodyInDoubt \/ row.status \in {"executing", "unknown", "verified"}
    BY DEF RInv, Guarded, NobodyInDoubt
  <1>7. row' = row /\ provider' = provider
    BY <1>1 DEF Evaluate
  <1>8. row.verified \/ row.status = "verified" => provider.verified
    BY DEF RInv, Books
  <1> HIDE DEF x
  <1> QED BY <1>3, <1>4, <1>5, <1>6, <1>7, <1>8, <1>9, OwnStep

(* Gates: the attempt goes to a label, or returns.                         *)
LEMMA GotoKeeps ==
  ASSUME RInv, Typed', NEW a \in Attempts, Running(a), attempt[a].pc \in Early,
         NEW label \in (Early \ {"new", "starting"}) \cup {"calling"}, Goto(a, label),
         provider' = provider, NobodyInDoubt,
         label = "calling" => row'.status = "executing",
         row'.verified \/ row'.status = "verified" => provider.verified
  PROVE  RInv'
  <1> DEFINE x == [attempt[a] EXCEPT !.pc = label]
  <1>1. attempt[a] \in Attempt
    BY DEF RInv, Typed, TypeOK
  <1>2. x \in Attempt /\ attempt' = [attempt EXCEPT ![a] = x]
    BY <1>1 DEF Attempt, PC, Early, Goto
  <1>3. /\ x.pc = label /\ x.request = attempt[a].request /\ x.request = "none"
        /\ x.outcome = "none"
    BY <1>1, OthersDone DEF Attempt, RInv, Progress
  <1> HIDE DEF x
  <1> QED BY <1>2, <1>3, OthersDone, OwnStep DEF Early, NobodyInDoubt

LEMMA ReturnKeeps ==
  ASSUME RInv, Typed', NEW a \in Attempts, Running(a),
         NEW outcome \in Status \cup {"error"}, Return(a, outcome),
         provider' = provider,
         NobodyInDoubt \/ row'.status \in {"executing", "unknown", "verified"},
         row'.verified \/ row'.status = "verified" => provider.verified
  PROVE  RInv'
  <1> DEFINE x == [attempt[a] EXCEPT !.pc = "returned", !.outcome = outcome]
  <1>1. attempt[a] \in Attempt
    BY DEF RInv, Typed, TypeOK
  <1>2. x \in Attempt /\ x.pc = "returned" /\ x.request = attempt[a].request
    BY <1>1 DEF Attempt, PC, Status
  <1>3. attempt' = [attempt EXCEPT ![a] = x]
    BY <1>1 DEF Return, RInv, Typed, TypeOK
  <1> HIDE DEF x
  <1> QED BY <1>2, <1>3, OthersDone, OwnStep DEF Early

LEMMA RowKept ==
  ASSUME RInv
  PROVE  /\ NobodyInDoubt \/ row.status \in {"executing", "unknown", "verified"}
         /\ row.verified \/ row.status = "verified" => provider.verified
  BY DEF RInv, Guarded, NobodyInDoubt, Books

(* The row that complete writes.                                           *)
LEMMA CompleteTells ==
  ASSUME NEW status, Complete(status)
  PROVE  row'.status = status /\ (row'.verified <=> status = "verified")
  <1>1. row'.status = status
    BY DEF Complete
  <1>2. row'.verified = (status = "verified")
    BY DEF Complete
  <1> QED BY <1>1, <1>2

LEMMA GateKeeps ==
  ASSUME RInv, Typed', NEW a \in Attempts, Gate(a) PROVE RInv'
  <1>1. Running(a) /\ provider' = provider /\ TypeOK
    BY GateMoves DEF RInv, Typed
  <1>2. attempt[a].pc \in Early /\ attempt[a].pc # "new"
    BY DEF Gate, StartThrows, FindExisting, Plan, PlanFails, Planned, RequireReview, Refuse, Admit,
        Block, BlockFails, MarkExecuting, MarkFails, At, Early
  <1>3. ~At(a, "starting") => NobodyInDoubt
    BY <1>1, <1>2, OthersDone DEF NobodyInDoubt
  <1>4. CASE StartThrows(a)
    BY <1>1, <1>4, RowKept, ReturnKeeps DEF StartThrows
  <1>5. CASE FindExisting(a)
    <2>1. row.status \in Status \cup {"absent", "planned", "executing"} /\ row' = row
      BY <1>1, <1>5 DEF TypeOK, Row, FindExisting
    <2>2. \/ /\ row.status \in {"absent", "failed", "planned"}
             /\ Goto(a, "creating") \/ Goto(a, "resetting") \/ Goto(a, "planned")
          \/ \E outcome \in Status : Return(a, outcome)
      BY <1>5, <2>1 DEF FindExisting, isSafeToRetry, isTerminalStatus, Status
    <2>3. CASE row.status \in {"absent", "failed", "planned"}
                 /\ (Goto(a, "creating") \/ Goto(a, "resetting") \/ Goto(a, "planned"))
      BY <1>1, <1>2, <2>1, <2>3, RowKept, GotoKeeps DEF Early
    <2>4. CASE \E outcome \in Status : Return(a, outcome)
      BY <1>1, <2>1, <2>4, RowKept, ReturnKeeps
    <2> QED BY <2>2, <2>3, <2>4
  <1>6. CASE Plan(a)
    <2>1. NobodyInDoubt /\ row'.status = "planned" /\ (row'.verified => row.verified)
      BY <1>1, <1>3, <1>6 DEF Plan, Planned, NoRow, At, TypeOK, Row
    <2> QED BY <1>1, <1>2, <1>6, <2>1, RowKept, GotoKeeps DEF Plan, Early
  <1>7. CASE PlanFails(a)
    <2>1. NobodyInDoubt
      BY <1>3, <1>7 DEF PlanFails, At
    <2>2. row' = row \/ (row'.status = "planned" /\ (row'.verified => row.verified))
      BY <1>1, <1>7 DEF PlanFails, Planned, NoRow, TypeOK, Row
    <2> QED BY <1>1, <1>7, <2>1, <2>2, RowKept, ReturnKeeps DEF PlanFails
  <1>8. CASE RequireReview(a) \/ Refuse(a) \/ Admit(a)
    <2>1. NobodyInDoubt /\ row' = row /\ (Goto(a, "blocking") \/ Goto(a, "marking"))
      BY <1>3, <1>8 DEF RequireReview, Refuse, Admit, At
    <2> QED BY <1>1, <1>2, <2>1, RowKept, GotoKeeps DEF Early
  <1>9. CASE Block(a) \/ BlockFails(a)
    <2>1. NobodyInDoubt /\ \E outcome \in Status \cup {"error"} : Return(a, outcome)
      BY <1>3, <1>9 DEF Block, BlockFails, At, Status
    <2>2. row' = row \/ (row'.status = "blocked" /\ ~row'.verified)
      <3>1. row' = row \/ Complete("blocked")
        BY <1>9 DEF Block, BlockFails
      <3> QED BY <3>1, CompleteTells
    <2> QED BY <1>1, <2>1, <2>2, RowKept, ReturnKeeps
  <1>10. CASE MarkExecuting(a)
    <2>1. NobodyInDoubt /\ row'.status = "executing" /\ (row'.verified => row.verified)
      BY <1>1, <1>3, <1>10 DEF MarkExecuting, At, TypeOK, Row
    <2> QED BY <1>1, <1>2, <1>10, <2>1, RowKept, GotoKeeps DEF MarkExecuting
  <1>11. CASE MarkFails(a)
    <2>1. NobodyInDoubt
      BY <1>3, <1>11 DEF MarkFails, At
    <2>2. row' = row \/ (row'.status = "executing" /\ (row'.verified => row.verified))
      BY <1>1, <1>11 DEF MarkFails, TypeOK, Row
    <2> QED BY <1>1, <1>11, <2>1, <2>2, RowKept, ReturnKeeps DEF MarkFails
  <1> QED BY <1>4, <1>5, <1>6, <1>7, <1>8, <1>9, <1>10, <1>11 DEF Gate
-----------------------------------------------------------------------------
(* The adapter's answer, and its record *)

LEMMA AnswerKeeps ==
  ASSUME RInv, Typed', NEW a \in Attempts, At(a, "calling"),
         NEW answer \in Status, Answer(a, answer), row' = row,
         provider'.calls = provider.calls, provider'.refused = provider.refused,
         provider'.effects = provider.effects,
         provider.verified => provider'.verified,
         provider'.verified => provider.effects = 1,
         answer = "verified" => provider'.verified,
         answer \in {"failed", "blocked"} => ~InDoubt(a)
  PROVE  RInv'
  <1> DEFINE x == [attempt[a] EXCEPT !.pc = "recording", !.answer = answer]
  <1>1. attempt[a] \in Attempt /\ Running(a)
    BY DEF RInv, Typed, TypeOK, At, Running
  <1>2. x \in Attempt
    BY <1>1 DEF Attempt, PC, Status
  <1>3. attempt' = [attempt EXCEPT ![a] = x]
    BY <1>1 DEF Answer, RInv, Typed, TypeOK
  <1>4. /\ x.pc = "recording" /\ x.request = attempt[a].request
        /\ x.answer = answer /\ x.outcome = attempt[a].outcome
    BY <1>1 DEF Attempt
  <1>5. row.status = "executing"
    BY DEF RInv, Progress, At
  <1>6. \A b \in Attempts \ {a} : ~Running(b) /\ ~InDoubt(b)
    BY <1>1, OthersDone DEF At
  <1>7. x.outcome = "none"
    BY <1>1, <1>4, OthersDone
  <1>8. row'.verified \/ row'.status = "verified" => provider'.verified
    BY <1>5, RowKept
  <1> HIDE DEF x
  <1> QED BY <1>2, <1>3, <1>4, <1>5, <1>6, <1>7, <1>8, OwnAnswer DEF Early

LEMMA AnsweredKeeps ==
  ASSUME Assumed, RInv, Typed', NEW a \in Attempts, Answered(a) PROVE RInv'
  <1> DEFINE Quiet(answer) == At(a, "calling") /\ Answer(a, answer) /\ row' = row /\ provider' = provider
  <1>1. provider.verified => provider.effects = 1
    BY DEF RInv, Books
  <1>2. CASE AdapterBlocks(a)
    <2>1. Quiet("blocked") /\ ~InDoubt(a)
      BY <1>2 DEF AdapterBlocks, InDoubt
    <2> QED BY <1>1, <2>1, AnswerKeeps DEF Status
  <1>3. CASE Rejected(a)
    <2>1. Quiet("failed") /\ ~InDoubt(a)
      BY <1>3 DEF Rejected, InDoubt
    <2> QED BY <1>1, <2>1, AnswerKeeps DEF Status
  <1>4. CASE Unreadable(a) \/ ResponseLost(a)
    <2>1. Quiet("unknown")
      BY <1>4 DEF Unreadable, ResponseLost, Assumed
    <2> QED BY <1>1, <2>1, AnswerKeeps DEF Status
  <1>5. CASE Confirmed(a)
    <2>1. /\ At(a, "calling") /\ attempt[a].request = "accepted" /\ row' = row
          /\ provider' = [provider EXCEPT !.verified = TRUE]
          /\ Answer(a, "verified")
      BY <1>5 DEF Confirmed
    <2>2. provider.effects = 1
      BY <2>1 DEF RInv, Guarded, InDoubt
    <2>3. /\ provider'.calls = provider.calls /\ provider'.refused = provider.refused
          /\ provider'.effects = provider.effects
      BY <2>1 DEF RInv, Typed, TypeOK, Provider
    <2>4. provider'.verified
      BY <2>1 DEF RInv, Typed, TypeOK, Provider
    <2> QED BY <2>1, <2>2, <2>3, <2>4, AnswerKeeps DEF Status
  <1> QED BY <1>2, <1>3, <1>4, <1>5 DEF Answered

LEMMA RecordedKeeps ==
  ASSUME RInv, Typed', NEW a \in Attempts, Recorded(a) PROVE RInv'
  <1>1. At(a, "recording") /\ Running(a) /\ provider' = provider
    BY DEF Recorded, Record, RecordFails, At, Running
  <1>2. attempt[a].answer \in Status
    BY DEF RInv, Typed, HasAnswer, Recorded, Record, RecordFails
  <1>3. \E outcome \in Status \cup {"error"} : Return(a, outcome)
    BY <1>2 DEF Recorded, Record, RecordFails, Status
  <1>4. row' = row \/ Complete(attempt[a].answer)
    BY DEF Recorded, Record, RecordFails
  <1>5. CASE row' = row
    BY <1>1, <1>3, <1>5, RowKept, ReturnKeeps
  <1>6. CASE Complete(attempt[a].answer)
    <2>1. row'.status = attempt[a].answer /\ (row'.verified <=> attempt[a].answer = "verified")
      BY <1>6, CompleteTells
    <2>2. attempt[a].answer = "verified" => provider.verified
      BY <1>1 DEF RInv, Progress
    <2>3. attempt[a].answer \in {"failed", "blocked"} => NobodyInDoubt
      BY <1>1, OthersDone DEF RInv, Progress, At, NobodyInDoubt
    <2> QED BY <1>1, <1>2, <1>3, <2>1, <2>2, <2>3, ReturnKeeps DEF Status
  <1> QED BY <1>4, <1>5, <1>6
-----------------------------------------------------------------------------
(* The provider *)

(* A step changes the request of one attempt and nothing else of any.      *)
LEMMA RequestMoves ==
  ASSUME TypeOK, NEW a \in Attempts, NEW request \in {"sent", "accepted", "refused"},
         attempt' = [attempt EXCEPT ![a].request = request]
  PROVE  /\ \A b \in Attempts \ {a} : attempt'[b] = attempt[b]
         /\ attempt'[a].request = request
         /\ attempt'[a].pc = attempt[a].pc
         /\ attempt'[a].answer = attempt[a].answer
         /\ attempt'[a].outcome = attempt[a].outcome
         /\ Alone => Alone'
  <1>1. /\ \A b \in Attempts \ {a} : attempt'[b] = attempt[b]
        /\ attempt'[a].request = request
        /\ attempt'[a].pc = attempt[a].pc
        /\ attempt'[a].answer = attempt[a].answer
        /\ attempt'[a].outcome = attempt[a].outcome
    BY DEF TypeOK, Attempt
  <1>2. \A b \in Attempts : Running(b)' <=> Running(b)
    BY <1>1 DEF Running
  <1> QED BY <1>1, <1>2 DEF Alone

LEMMA SendKeeps ==
  ASSUME RInv, Typed', NEW a \in Attempts, Send(a) PROVE RInv'
  <1> USE DEF RInv, Typed
  <1>1. At(a, "calling") /\ Running(a) /\ row' = row /\ row.status = "executing"
    BY DEF Send, At, Running, Progress
  <1>2. \A b \in Attempts \ {a} : ~Running(b) /\ ~InDoubt(b)
    BY <1>1, OthersDone DEF At
  <1>3. NobodyInDoubt
    BY <1>2 DEF Send, InDoubt, NobodyInDoubt
  <1>4. provider.calls = provider.refused /\ provider.effects = 0 /\ ~provider.verified
    BY <1>3 DEF Books
  <1>5. /\ provider'.calls = provider.calls + 1 /\ provider'.refused = provider.refused
        /\ provider'.effects = provider.effects
    BY DEF Send, TypeOK, Provider
  <1>6. provider'.verified <=> provider.verified
    BY DEF Send, TypeOK, Provider
  <1>7. /\ \A b \in Attempts \ {a} : attempt'[b] = attempt[b]
        /\ attempt'[a].request = "sent" /\ attempt'[a].pc = "calling"
        /\ attempt'[a].outcome = attempt[a].outcome
        /\ Alone'
    BY <1>1, RequestMoves DEF Send, At
  <1>8. InDoubt(a)' /\ \A b \in Attempts \ {a} : ~InDoubt(b)' /\ ~Running(b)'
    BY <1>2, <1>7 DEF InDoubt, Running
  <1>9. Books'
    BY <1>1, <1>4, <1>6, <1>8 DEF Books, NobodyInDoubt
  <1>10. Guarded(a)'
    BY <1>1, <1>4, <1>5, <1>7, <1>8 DEF Guarded
  <1>11. Progress(a)'
    BY <1>1, <1>7 DEF Progress, Early, At
  <1>12. ASSUME NEW b \in Attempts \ {a} PROVE Progress(b)' /\ Guarded(b)'
    <2>1. attempt'[b] = attempt[b] /\ Progress(b) /\ ~Running(b) /\ ~InDoubt(b)'
      BY <1>2, <1>7, <1>8, <1>12
    <2>2. attempt[b].pc \notin {"calling", "recording"}
      BY <2>1 DEF Running
    <2> QED BY <2>1, <2>2 DEF Progress, Guarded, At
  <1> QED BY <1>7, <1>9, <1>10, <1>11, <1>12

(* A message in doubt is accepted or refused, whoever waits.               *)
LEMMA ProviderKeeps ==
  ASSUME RInv, Typed', NEW a \in Attempts, ProviderAccepts(a) \/ ProviderRefuses(a) PROVE RInv'
  <1> USE DEF RInv, Typed
  <1> DEFINE accepted == ProviderAccepts(a)
  <1>1. InDoubt(a) /\ Guarded(a) /\ row' = row /\ attempt[a].request = "sent"
    BY DEF ProviderAccepts, ProviderRefuses, InDoubt
  <1>2. provider.effects = 0 /\ provider.calls = provider.refused + 1
    BY <1>1 DEF Guarded
  <1>3. ~provider.verified
    BY <1>2 DEF Books
  <1>4. /\ provider'.calls = provider.calls
        /\ provider'.refused = (IF accepted THEN provider.refused ELSE provider.refused + 1)
        /\ provider'.effects = (IF accepted THEN 1 ELSE 0)
    BY <1>2 DEF ProviderAccepts, ProviderRefuses, TypeOK, Provider
  <1>5. ~provider'.verified
    BY <1>3 DEF ProviderAccepts, ProviderRefuses, TypeOK, Provider
  <1>6. attempt' = [attempt EXCEPT ![a].request = IF accepted THEN "accepted" ELSE "refused"]
    BY DEF ProviderAccepts, ProviderRefuses
  <1>7. /\ \A b \in Attempts \ {a} : attempt'[b] = attempt[b]
        /\ attempt'[a].request = (IF accepted THEN "accepted" ELSE "refused")
        /\ attempt'[a].pc = attempt[a].pc
        /\ attempt'[a].answer = attempt[a].answer
        /\ attempt'[a].outcome = attempt[a].outcome
        /\ Alone'
    BY <1>6, RequestMoves
  <1>8. /\ InDoubt(a)' <=> accepted
        /\ \A b \in Attempts \ {a} : ~InDoubt(b)' /\ (Running(b)' => At(b, "starting")')
    BY <1>1, <1>7 DEF InDoubt, Guarded, Running, At
  <1>9. Books'
    BY <1>1, <1>2, <1>3, <1>4, <1>5, <1>8 DEF Books, NobodyInDoubt, TypeOK, Provider
  <1>10. Guarded(a)'
    BY <1>1, <1>2, <1>4, <1>7, <1>8 DEF Guarded, TypeOK, Provider
  <1>11. Progress(a)'
    <2>1. Progress(a) /\ attempt[a].pc \notin Early
      BY <1>1 DEF Progress
    <2>2. At(a, "recording") => attempt[a].answer \notin {"verified", "failed", "blocked"}
      BY <1>1, <1>3, <2>1 DEF Progress
    <2> QED BY <1>1, <1>7, <2>1, <2>2 DEF Progress, At
  <1>12. ASSUME NEW b \in Attempts \ {a} PROVE Progress(b)' /\ Guarded(b)'
    <2>1. attempt'[b] = attempt[b] /\ Progress(b) /\ ~InDoubt(b)'
      BY <1>7, <1>8, <1>12
    <2>2. attempt[b].pc \notin {"calling", "recording"}
      BY <1>1, <1>12 DEF Guarded, Running, At
    <2> QED BY <2>1, <2>2 DEF Progress, Guarded, At
  <1> QED BY <1>7, <1>9, <1>10, <1>11, <1>12

LEMMA CrashKeeps ==
  ASSUME RInv, Typed', Crash PROVE RInv'
  <1> USE DEF RInv, Typed
  <1>1. row' = row /\ provider' = provider
    BY DEF Crash
  <1>2. \A b \in Attempts :
          /\ attempt'[b].request = attempt[b].request
          /\ attempt'[b].outcome = attempt[b].outcome
          /\ attempt'[b].answer = attempt[b].answer
          /\ attempt'[b].pc = IF Running(b) THEN "lost" ELSE attempt[b].pc
    BY DEF Crash, TypeOK, Attempt
  <1>3. \A b \in Attempts : ~Running(b)' /\ (InDoubt(b)' <=> InDoubt(b))
    BY <1>2 DEF Running, InDoubt
  <1>4. Alone' /\ Books'
    BY <1>1, <1>3 DEF Alone, Books, NobodyInDoubt
  <1>5. ASSUME NEW b \in Attempts PROVE Guarded(b)'
    BY <1>1, <1>2, <1>3 DEF Guarded
  <1>6. ASSUME NEW b \in Attempts PROVE Progress(b)'
    <2>1. CASE Running(b)
      BY <1>2, <2>1 DEF Progress, Early, Running, At
    <2>2. CASE ~Running(b)
      BY <1>1, <1>2, <1>3, <2>2 DEF Progress, Running, At
    <2> QED BY <2>1, <2>2
  <1> QED BY <1>4, <1>5, <1>6
-----------------------------------------------------------------------------
LEMMA RInvInit == Assumed /\ Init => RInv
  BY TypedInit
  DEF Init, NoRow, NewAttempt, RInv, Alone, Running, Books, Progress, Guarded, InDoubt, At

LEMMA RInvStep ==
  ASSUME Assumed, RInv, [Next]_vars PROVE RInv'
  <1>1. Typed'
    BY TypedStep DEF RInv
  <1>2. CASE UNCHANGED vars
    BY <1>1, <1>2 DEF vars, RInv, Alone, Books, Progress, Guarded, InDoubt, NobodyInDoubt, Running, At
  <1>3. CASE Next
    <2>1. ASSUME NEW a \in Attempts,
                 Begun(a) \/ Gate(a) \/ Answered(a) \/ Recorded(a) \/ ProviderStep(a)
          PROVE  RInv'
      BY <1>1, <2>1, BegunKeeps, GateKeeps, AnsweredKeeps, RecordedKeeps, SendKeeps, ProviderKeeps
      DEF ProviderStep
    <2>2. ASSUME NEW r \in Reviews, Human(r) PROVE RInv'
      <3>1. row' = row /\ attempt' = attempt /\ provider' = provider
        BY <2>2 DEF Human, ReviewOfOther, DecideReview
      <3> QED BY <1>1, <3>1 DEF RInv, Alone, Books, Progress, Guarded, InDoubt, NobodyInDoubt, Running, At
    <2> QED BY <1>1, <1>3, <2>1, <2>2, CrashKeeps, NextGroups
  <1> QED BY <1>2, <1>3

LEMMA RInvariance ==
  ASSUME Assumed PROVE Spec => []RInv
  <1>1. Init => RInv
    BY RInvInit
  <1>2. RInv /\ [Next]_vars => RInv'
    BY RInvStep
  <1> QED BY <1>1, <1>2, PTL DEF Spec

(* The row tells the truth about the provider: what may still be executed  *)
(* or retried has no message in doubt, and verified means confirmed.       *)
THEOREM LedgerTellsTruth ==
  ASSUME Assumed PROVE Spec => []LedgerTruth
  <1>1. RInv => LedgerTruth
    <2> SUFFICES ASSUME RInv PROVE LedgerTruth
      OBVIOUS
    <2>1. VerifiedIsConfirmed
      BY DEF RInv, Books, VerifiedIsConfirmed
    <2>2. RetryOnlyRefused
      BY RowKept DEF RInv, Books, RetryOnlyRefused
    <2> QED BY <2>1, <2>2 DEF LedgerTruth
  <1> QED BY <1>1, RInvariance, PTL
-----------------------------------------------------------------------------
(* Refinement *)

Heard == [a \in Attempts |-> Told(attempt[a].outcome)]

(* What an attempt is told the abstract specification may tell.            *)
LEMMA ToldTruly ==
  ASSUME NEW outcome \in Status \cup {"error"}, provider.verified => provider.effects = 1,
         outcome = "verified" => provider.verified
  PROVE  /\ Told(outcome) \in Promised!Outcome
         /\ Promised!Truthful(Told(outcome))
  BY DEF Told, Status, Promised!Outcome, Promised!Truthful

(* A return, or a step that tells nobody, of an attempt that was told      *)
(* nothing and leaves the provider alone.                                  *)
LEMMA ReturnRefines ==
  ASSUME RInv, NEW a \in Attempts, Running(a), provider' = provider,
         NEW outcome \in Status \cup {"error"}, Return(a, outcome),
         outcome = "verified" => provider.verified
  PROVE  Promised!Tell
  <1>1. provider.verified => provider.effects = 1
    BY DEF RInv, Books
  <1>2. /\ attempt'[a].outcome = outcome
        /\ \A b \in Attempts \ {a} : attempt'[b] = attempt[b]
    BY DEF Return, RInv, Typed, TypeOK, Attempt
  <1>3. Heard[a] = "none"
    BY OthersDone DEF Heard, Told
  <1>4. \A b \in Attempts : Heard[b] \in Promised!Outcome \cup {"none"}
    BY DEF Heard, Told, Promised!Outcome, RInv, Typed, TypeOK, Attempt, Status
  <1>5. \A b \in Attempts \ {a} : Heard'[b] = Heard[b]
    BY <1>2 DEF Heard
  <1>6. Heard'[a] = Told(outcome)
    BY <1>2 DEF Heard
  <1>7. Heard' \in [Attempts -> Promised!Outcome \cup {"none"}]
    BY <1>1, <1>4, <1>5, <1>6, ToldTruly DEF Heard
  <1> QED BY <1>1, <1>3, <1>5, <1>6, <1>7, ToldTruly DEF Promised!Tell, Heard

LEMMA QuietRefines ==
  ASSUME provider' = provider, \A a \in Attempts : attempt'[a].outcome = attempt[a].outcome
  PROVE  UNCHANGED Promised!vars
  <1>1. Heard' = Heard
    BY DEF Heard
  <1> QED BY <1>1 DEF Promised!vars, Heard

LEMMA GateRefines ==
  ASSUME RInv, NEW a \in Attempts, Gate(a)
  PROVE  [Promised!Next]_(Promised!vars)
  <1>1. Running(a) /\ provider' = provider /\ TypeOK
    BY GateMoves DEF RInv, Typed
  <1>2. CASE \E label \in PC : Goto(a, label)
    BY <1>1, <1>2, QuietRefines DEF Goto, TypeOK, Attempt
  <1>3. ASSUME NEW outcome \in Status \cup {"error"}, Return(a, outcome)
        PROVE  Promised!Next
    <2>1. outcome = "verified" => provider.verified
      <3>1. outcome = attempt'[a].outcome
        BY <1>1, <1>3 DEF Return, TypeOK, Attempt
      <3>2. CASE FindExisting(a)
        <4>1. row.status \in Status \cup {"absent", "planned", "executing"}
          BY <1>1 DEF TypeOK, Row
        <4>2. \/ \E label \in PC : Goto(a, label)
              \/ Return(a, "unknown") \/ Return(a, row.status)
          BY <3>2, <4>1 DEF FindExisting, isSafeToRetry, isTerminalStatus, Status, PC
        <4>3. attempt'[a].outcome \in {"none", "unknown", row.status}
          BY <1>1, <4>2, OthersDone DEF Goto, Return, TypeOK, Attempt
        <4> QED BY <3>1, <4>3, RowKept
      <3>3. CASE ~FindExisting(a)
        <4>1. attempt'[a].outcome \in {"none", "error", "blocked"}
          BY <1>1, <3>3, OthersDone
          DEF Gate, StartThrows, Plan, PlanFails, RequireReview, Refuse, Admit, Block, BlockFails,
              MarkExecuting, MarkFails, Goto, Return, TypeOK, Attempt
        <4> QED BY <3>1, <4>1
      <3> QED BY <3>2, <3>3
    <2> QED BY <1>1, <1>3, <2>1, ReturnRefines DEF Promised!Next
  <1> QED BY <1>2, <1>3, GateMoves, <1>1 DEF PC

LEMMA RecordRefines ==
  ASSUME RInv, NEW a \in Attempts, Recorded(a)
  PROVE  Promised!Next
  <1>1. At(a, "recording") /\ Running(a) /\ provider' = provider
    BY DEF Recorded, Record, RecordFails, At, Running
  <1>2. attempt[a].answer \in Status
    BY DEF RInv, Typed, HasAnswer, Recorded, Record, RecordFails
  <1>3. attempt[a].answer = "verified" => provider.verified
    BY <1>1 DEF RInv, Progress
  <1>4. Return(a, attempt[a].answer) \/ Return(a, "unknown")
    BY DEF Recorded, Record, RecordFails
  <1> QED BY <1>1, <1>2, <1>3, <1>4, ReturnRefines DEF Status, Promised!Next

LEMMA AnswerRefines ==
  ASSUME RInv, NEW a \in Attempts, Answered(a)
  PROVE  [Promised!Next]_(Promised!vars)
  <1>1. \A b \in Attempts : attempt'[b].outcome = attempt[b].outcome
    BY DEF Answered, AdapterBlocks, Confirmed, Rejected, Unreadable, ResponseLost, Answer,
           RInv, Typed, TypeOK, Attempt
  <1>2. CASE Confirmed(a)
    <2>1. provider.effects = 1
      BY <1>2 DEF Confirmed, RInv, Guarded, InDoubt
    <2>2. /\ provider'.calls = provider.calls /\ provider'.refused = provider.refused
          /\ provider'.effects = provider.effects /\ provider'.verified = TRUE
      BY <1>2 DEF Confirmed, RInv, Typed, TypeOK, Provider
    <2>3. Heard' = Heard
      BY <1>1 DEF Heard
    <2> QED BY <2>1, <2>2, <2>3 DEF Promised!Next, Promised!Confirm, Heard
  <1>3. CASE ~Confirmed(a)
    <2>1. provider' = provider
      BY <1>3 DEF Answered, AdapterBlocks, Rejected, Unreadable, ResponseLost
    <2> QED BY <1>1, <2>1, QuietRefines
  <1> QED BY <1>2, <1>3

LEMMA ProviderRefines ==
  ASSUME RInv, NEW a \in Attempts, ProviderStep(a)
  PROVE  Promised!Next
  <1> USE DEF RInv, Typed
  <1>1. Heard' = Heard
    <2>1. \A b \in Attempts : attempt'[b].outcome = attempt[b].outcome
      BY DEF ProviderStep, Send, ProviderAccepts, ProviderRefuses, TypeOK, Attempt
    <2> QED BY <2>1 DEF Heard
  <1>2. provider'.verified = provider.verified
    BY DEF ProviderStep, Send, ProviderAccepts, ProviderRefuses, TypeOK, Provider
  <1>3. CASE Send(a)
    <2>1. At(a, "calling") /\ Running(a) /\ ~InDoubt(a)
      BY <1>3 DEF Send, At, Running, InDoubt
    <2>2. NobodyInDoubt
      BY <2>1, OthersDone DEF At, NobodyInDoubt
    <2>3. /\ provider.calls = provider.refused /\ provider'.calls = provider.calls + 1
          /\ provider'.refused = provider.refused /\ provider'.effects = provider.effects
      BY <1>3, <2>2 DEF Books, Send, TypeOK, Provider
    <2>4. (provider.calls # provider.refused) = FALSE /\ (provider'.calls # provider'.refused) = TRUE
      BY <2>3 DEF TypeOK, Provider
    <2> QED BY <1>1, <1>2, <2>3, <2>4 DEF Promised!Next, Promised!Enter, Heard
  <1>4. CASE ProviderAccepts(a) \/ ProviderRefuses(a)
    <2>1. attempt[a].request = "sent" /\ InDoubt(a)
      BY <1>4 DEF ProviderAccepts, ProviderRefuses, InDoubt
    <2>2. provider.calls = provider.refused + 1 /\ provider.effects = 0
      BY <2>1 DEF Guarded
    <2>3. (provider.calls # provider.refused) = TRUE
      BY <2>2 DEF TypeOK, Provider
    <2>4. CASE ProviderAccepts(a)
      <3>1. /\ provider'.calls = provider.calls /\ provider'.refused = provider.refused
            /\ provider'.effects = 1
        BY <2>2, <2>4 DEF ProviderAccepts, TypeOK, Provider
      <3> QED BY <1>1, <1>2, <2>2, <2>3, <3>1 DEF Promised!Next, Promised!Effect, Heard
    <2>5. CASE ProviderRefuses(a)
      <3>1. /\ provider'.calls = provider.calls /\ provider'.refused = provider.refused + 1
            /\ provider'.effects = provider.effects
        BY <2>5 DEF ProviderRefuses, TypeOK, Provider
      <3>2. (provider'.calls # provider'.refused) = FALSE
        BY <2>2, <3>1 DEF TypeOK, Provider
      <3> QED BY <1>1, <1>2, <2>2, <2>3, <3>1, <3>2 DEF Promised!Next, Promised!Refuse, Heard
    <2> QED BY <1>4, <2>4, <2>5
  <1> QED BY <1>3, <1>4 DEF ProviderStep

LEMMA StepRefines ==
  ASSUME Assumed, RInv, [Next]_vars
  PROVE  [Promised!Next]_(Promised!vars)
  <1>1. ASSUME NEW a \in Attempts,
               Begun(a) \/ Gate(a) \/ Answered(a) \/ Recorded(a) \/ ProviderStep(a)
        PROVE  [Promised!Next]_(Promised!vars)
    <2>1. CASE Begun(a)
      <3>1. provider' = provider /\ \A b \in Attempts : attempt'[b].outcome = attempt[b].outcome
        BY <2>1 DEF Begun, Evaluate, RInv, Typed, TypeOK, Attempt
      <3> QED BY <3>1, QuietRefines
    <2> QED BY <1>1, <2>1, GateRefines, RecordRefines, AnswerRefines, ProviderRefines
  <1>2. ASSUME NEW r \in Reviews, Human(r) PROVE UNCHANGED Promised!vars
    BY <1>2, QuietRefines DEF Human, ReviewOfOther, DecideReview
  <1>3. CASE Crash
    <2>1. provider' = provider /\ \A b \in Attempts : attempt'[b].outcome = attempt[b].outcome
      BY <1>3 DEF Crash, RInv, Typed, TypeOK, Attempt
    <2> QED BY <2>1, QuietRefines
  <1>4. CASE UNCHANGED vars
    BY <1>4, QuietRefines DEF vars
  <1> QED BY <1>1, <1>2, <1>3, <1>4, NextGroups

(* Non-overlapping attempts over WhatsApp implement AtMostOnceActuation:   *)
(* one message at most, and nobody is told of a delivery that was none.    *)
THEOREM Refinement ==
  ASSUME Assumed PROVE Spec => SentAtMostOnce
  <1>1. Init => Promised!Init
    BY DEF Init, NewAttempt, Told, Promised!Init
  <1>2. RInv /\ [Next]_vars => [Promised!Next]_(Promised!vars)
    BY StepRefines
  <1> QED BY <1>1, <1>2, RInvariance, PTL DEF Spec, SentAtMostOnce, Promised!Spec
=============================================================================
