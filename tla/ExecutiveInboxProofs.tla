------------------------ MODULE ExecutiveInboxProofs ------------------------
(***************************************************************************)
(* Theorems about ExecutiveInbox, for any number of processes, events and  *)
(* faults, any lease and any length of a drain.                            *)
(***************************************************************************)
EXTENDS ExecutiveInbox, TLAPS

Settled == {"DELIVERED", "FAILED"}

(* The events of a well-typed drain that has claimed or chosen one.        *)
Chosen(n) ==
  drain[n].pc \in {"claiming", "waking", "joined", "delivering", "failing"}
    => drain[n].event \in Events

(* The inductive invariant behind the lease: whoever holds an event has    *)
(* outlived the lease, or the row is still stamped with its own clock, or  *)
(* the event is settled and nobody will claim it again.                    *)
Stamped(n, e) ==
  Holds(n, e) => \/ drain[n].age > StaleAfter
                 \/ inbox[e] = "PROCESSING" /\ age[e] = drain[n].age
                 \/ inbox[e] \in Settled

Typed == TypeOK /\ \A n \in Nodes : Chosen(n)
IInv == Typed /\ LeaseHonoured /\ \A n \in Nodes, e \in Events : Stamped(n, e)

-----------------------------------------------------------------------------
(* What the actions of one process have in common. *)

(* The actions that leave the table, or touch it by Stored alone.          *)
QuietOf(n) ==
  \/ AfterReceive(n) \/ FindNothing(n) \/ ClaimLost(n) \/ EndDrain(n)
  \/ Wake(n) \/ WakeThrows(n) \/ Heartbeat(n) \/ EndRun(n)
  \/ Start(n) \/ Stop(n) \/ Crash(n)
  \/ \E e \in Events : FindCandidate(n, e)

ReceiveOf(n, e) == Receive(n, e) \/ ReceiveFails(n, e)

(* The row is written by a drain that found it claimable.                  *)
Taken(n, e) ==
  /\ Claimable(n, e)
  /\ inbox' = [inbox EXCEPT ![e] = "PROCESSING"]
  /\ age' = [age EXCEPT ![e] = drain[n].age]

LEMMA FaultType ==
  ASSUME Fault, faults \in 0..MaxFaults PROVE faults' \in 0..MaxFaults
  BY InboxAssumption DEF Fault

(* A drain that goes on leaves the other drains alone.                     *)
LEMMA DrainMoves ==
  ASSUME Typed, NEW n \in Nodes, NEW d \in Drain,
         d.pc \notin {"idle", "finding", "empty"} => d.event \in Events,
         drain' = [drain EXCEPT ![n] = d]
  PROVE  drain' \in [Nodes -> Drain] /\ \A m \in Nodes : Chosen(m)'
  BY DEF Typed, TypeOK, Chosen

LEMMA QuietTyped ==
  ASSUME Typed, NEW n \in Nodes, QuietOf(n) PROVE Typed'
  <1> USE DEF Typed, TypeOK, Drain, DrainPC, Trigger, NoDrain, Chosen, At, Goto
  <1>0. 0 \in 0..MaxDrain
    BY InboxAssumption
  <1>1. CASE AfterReceive(n)
    <2>1. CASE drain[n].pc = "idle" /\ trigger[n].running
      <3>1. drain' = [drain EXCEPT ![n] = [NoDrain EXCEPT !.pc = "finding"]]
        BY <1>1, <2>1 DEF AfterReceive, StartDrain
      <3>2. [NoDrain EXCEPT !.pc = "finding"] \in Drain
        BY <1>0
      <3>3. drain' \in [Nodes -> Drain] /\ \A m \in Nodes : Chosen(m)'
        BY <3>1, <3>2, DrainMoves
      <3> QED BY <1>1, <3>3 DEF AfterReceive
    <2>2. CASE ~(drain[n].pc = "idle" /\ trigger[n].running)
      <3>1. drain' = drain
        BY <1>1, <2>2 DEF AfterReceive, StartDrain
      <3> QED BY <1>1, <3>1 DEF AfterReceive
    <2> QED BY <2>1, <2>2
  <1>2. CASE FindNothing(n) \/ ClaimLost(n)
    <2> DEFINE d == [drain[n] EXCEPT !.pc = "empty"]
    <2>1. d \in Drain /\ d.pc = "empty" /\ drain' = [drain EXCEPT ![n] = d]
      BY <1>2 DEF FindNothing, ClaimLost
    <2>2. drain' \in [Nodes -> Drain] /\ \A m \in Nodes : Chosen(m)'
      BY <2>1, DrainMoves
    <2> QED BY <1>2, <2>2 DEF FindNothing, ClaimLost
  <1>3. CASE EndDrain(n)
    BY <1>0, <1>3 DEF EndDrain
  <1>4. CASE Wake(n) \/ WakeThrows(n)
    <2> DEFINE d == [drain[n] EXCEPT !.pc = IF trigger[n].running THEN "joined" ELSE "failing"]
    <2>1. d \in Drain /\ d.event \in Events /\ drain' = [drain EXCEPT ![n] = d]
      BY <1>4 DEF Wake, WakeThrows
    <2>2. drain' \in [Nodes -> Drain] /\ \A m \in Nodes : Chosen(m)'
      BY <2>1, DrainMoves
    <2>3. trigger' = trigger \/ BeginRun(n)
      BY <1>4 DEF Wake, WakeThrows
    <2>4. trigger' \in [Nodes -> Trigger]
      BY <2>3 DEF BeginRun
    <2> QED BY <1>4, <2>2, <2>4 DEF Wake, WakeThrows
  <1>5. CASE Heartbeat(n)
    BY <1>5 DEF Heartbeat, BeginRun
  <1>6. CASE EndRun(n)
    <2>1. PICK joined \in {"delivering", "failing"} : RunEnds(n, joined)
      BY <1>6 DEF EndRun
    <2> DEFINE d == [drain[n] EXCEPT !.pc = IF @ = "joined" THEN joined ELSE @]
    <2>2. /\ d \in Drain /\ drain' = [drain EXCEPT ![n] = d]
          /\ d.pc \notin {"idle", "finding", "empty"} => d.event \in Events
      BY <2>1 DEF RunEnds
    <2>3. drain' \in [Nodes -> Drain] /\ \A m \in Nodes : Chosen(m)'
      BY <2>2, DrainMoves
    <2>4. trigger' \in [Nodes -> Trigger]
      BY <2>1 DEF RunEnds
    <2> QED BY <2>1, <2>3, <2>4 DEF RunEnds
  <1>7. CASE Start(n)
    BY <1>0, <1>7 DEF Start, StartDrain
  <1>8. CASE Stop(n)
    BY <1>8 DEF Stop
  <1>9. CASE Crash(n)
    <2>1. faults' \in 0..MaxFaults
      BY <1>9, FaultType DEF Crash
    <2> QED BY <1>0, <1>9, <2>1 DEF Crash
  <1>10. ASSUME NEW e \in Events, FindCandidate(n, e) PROVE Typed'
    BY <1>10 DEF FindCandidate
  <1> QED BY <1>1, <1>2, <1>3, <1>4, <1>5, <1>6, <1>7, <1>8, <1>9, <1>10 DEF QuietOf

LEMMA StoredType ==
  ASSUME inbox \in [Events -> InboxStatus], NEW e \in Events, Stored(e)
  PROVE  inbox' \in [Events -> InboxStatus]
  BY DEF Stored, InboxStatus

LEMMA ReceiveTyped ==
  ASSUME Typed, NEW n \in Nodes, NEW e \in Events, ReceiveOf(n, e) PROVE Typed'
  <1> USE DEF Typed, TypeOK, Chosen
  <1>1. inbox' \in [Events -> InboxStatus]
    BY StoredType DEF ReceiveOf, Receive, ReceiveFails
  <1>2. faults' \in 0..MaxFaults
    BY FaultType DEF ReceiveOf, Receive, ReceiveFails
  <1> QED BY <1>1, <1>2 DEF ReceiveOf, Receive, ReceiveFails

LEMMA AgesType == 0..MaxDrain \subseteq 0..Old /\ 0 \in 0..MaxDrain
  BY InboxAssumption DEF Old

LEMMA TakenType ==
  ASSUME Typed, NEW n \in Nodes, NEW e \in Events, Taken(n, e)
  PROVE  inbox' \in [Events -> InboxStatus] /\ age' \in [Events -> 0..Old]
  <1>1. drain[n].age \in 0..Old
    BY AgesType DEF Typed, TypeOK, Drain
  <1> QED BY <1>1 DEF Taken, Typed, TypeOK, InboxStatus

LEMMA ClaimTyped ==
  ASSUME Typed, NEW n \in Nodes, NEW e \in Events, Claim(n, e) PROVE Typed'
  <1>1. Taken(n, e)
    BY DEF Claim, Taken
  <1> QED BY <1>1, TakenType DEF Claim, Typed, TypeOK, Drain, DrainPC, Chosen, At, Goto

LEMMA RejectTakes ==
  ASSUME Typed, NEW n \in Nodes, DrainRejects(n)
  PROVE  \/ UNCHANGED <<inbox, age>>
         \/ drain[n].event \in Events /\ Taken(n, drain[n].event)
  BY DEF DrainRejects, Taken, Typed, Chosen, At

LEMMA DrainRejectsTyped ==
  ASSUME Typed, NEW n \in Nodes, DrainRejects(n) PROVE Typed'
  <1>1. CASE UNCHANGED <<inbox, age>>
    BY <1>1, AgesType, FaultType
    DEF DrainRejects, Typed, TypeOK, Drain, DrainPC, NoDrain, Chosen
  <1>2. CASE At(n, "claiming") /\ Taken(n, drain[n].event)
    <2>1. drain[n].event \in Events
      BY <1>2 DEF At, Typed, Chosen
    <2> QED BY <1>2, <2>1, TakenType, AgesType, FaultType
        DEF DrainRejects, Typed, TypeOK, Drain, DrainPC, NoDrain, Chosen
  <1> QED BY <1>1, <1>2 DEF DrainRejects, Taken

MarkOf(n) ==
  \/ MarkDelivered(n) \/ MarkFailed(n)
  \/ MarkDeliveredFails(n)

(* What markings do to the table.                                          *)
LEMMA MarkSettles ==
  ASSUME Typed, NEW n \in Nodes, MarkOf(n)
  PROVE  /\ drain[n].event \in Events
         /\ \/ UNCHANGED <<inbox, age>>
            \/ \E status \in Settled : Mark(n, status)
         /\ ~At(n, "idle") /\ drain' = [drain EXCEPT ![n] = drain'[n]]
         /\ drain'[n].pc \in {"finding", "failing"}
  BY DEF MarkOf, MarkDelivered, MarkFailed, MarkDeliveredFails, NextEvent, Goto,
         Settled, Typed, TypeOK, Drain, Chosen, At

LEMMA MarkTyped ==
  ASSUME Typed, NEW n \in Nodes, MarkOf(n) PROVE Typed'
  <1>1. inbox' \in [Events -> InboxStatus] /\ age' \in [Events -> 0..Old]
    BY MarkSettles, AgesType DEF Mark, Settled, Typed, TypeOK, InboxStatus
  <1>2. CASE MarkDelivered(n) \/ MarkFailed(n)
    <2> DEFINE d == [drain[n] EXCEPT !.pc = "finding", !.event = 0]
    <2>1. d \in Drain /\ d.pc = "finding" /\ drain' = [drain EXCEPT ![n] = d]
      BY <1>2 DEF MarkDelivered, MarkFailed, NextEvent, Typed, TypeOK, Drain, DrainPC
    <2>2. drain' \in [Nodes -> Drain] /\ \A m \in Nodes : Chosen(m)'
      BY <2>1, DrainMoves
    <2> QED BY <1>1, <1>2, <2>2 DEF MarkDelivered, MarkFailed, Typed, TypeOK
  <1>3. CASE MarkDeliveredFails(n)
    BY <1>1, <1>3, FaultType
    DEF MarkDeliveredFails, Goto, At, Typed, TypeOK, Drain, DrainPC, Chosen
  <1> QED BY <1>2, <1>3 DEF MarkOf

LEMMA TickTyped ==
  ASSUME Typed, Tick PROVE Typed'
  <1>1. ASSUME NEW n \in Nodes
        PROVE  /\ drain'[n] \in Drain
               /\ drain'[n].pc = drain[n].pc /\ drain'[n].event = drain[n].event
    <2>1. drain[n].age + 1 \in 0..MaxDrain \/ ~Draining(n)
      BY InboxAssumption DEF Tick, Typed, TypeOK, Drain
    <2> QED BY <2>1 DEF Tick, Typed, TypeOK, Drain
  <1>2. ASSUME NEW e \in Events PROVE age'[e] \in 0..Old
    BY InboxAssumption DEF Tick, Typed, TypeOK, Old
  <1>3. drain' \in [Nodes -> Drain] /\ age' \in [Events -> 0..Old]
    BY <1>1, <1>2 DEF Tick
  <1> QED BY <1>1, <1>3 DEF Tick, Typed, TypeOK, Chosen

(* Next, in the groups the proofs go by.                                   *)
LEMMA NextGroups ==
  ASSUME Next
  PROVE  \/ \E n \in Nodes : \/ QuietOf(n) \/ MarkOf(n) \/ DrainRejects(n)
                             \/ \E e \in Events : ReceiveOf(n, e) \/ Claim(n, e)
         \/ Tick
  BY DEF Next, Proceed, QuietOf, MarkOf, ReceiveOf

LEMMA TypedStep == Typed /\ [Next]_vars => Typed'
  <1> SUFFICES ASSUME Typed, [Next]_vars PROVE Typed'
    OBVIOUS
  <1>1. CASE UNCHANGED vars
    BY <1>1 DEF vars, Typed, TypeOK, Chosen
  <1>2. CASE Next
    BY <1>2, NextGroups, QuietTyped, MarkTyped, DrainRejectsTyped, ReceiveTyped,
       ClaimTyped, TickTyped
  <1> QED BY <1>1, <1>2

LEMMA TypedInit == Init => Typed
  BY InboxAssumption, AgesType
  DEF Init, Typed, TypeOK, InboxStatus, Drain, DrainPC, NoDrain, Trigger, Chosen

-----------------------------------------------------------------------------
(* Types: rows, drains and triggers keep their declared shape.             *)
THEOREM TypeCorrect == Spec => []TypeOK
  <1>1. Typed => TypeOK
    BY DEF Typed
  <1> QED BY <1>1, TypedInit, TypedStep, PTL DEF Spec
-----------------------------------------------------------------------------
(* Nothing settled is reopened: rows are written by creations, which leave *)
(* existing rows alone, by claims of unsettled ones and by markings.       *)
LEMMA SettledStep ==
  ASSUME Typed, [Next]_vars, NEW e \in Events, inbox[e] \in Settled
  PROVE  inbox'[e] \in Settled
  <1>1. CASE UNCHANGED inbox
    BY <1>1
  <1>2. ASSUME NEW n \in Nodes, NEW f \in Events, ReceiveOf(n, f)
        PROVE  inbox'[e] \in Settled
    BY <1>2 DEF ReceiveOf, Receive, ReceiveFails, Stored, Settled, Typed, TypeOK
  <1>3. ASSUME NEW n \in Nodes, NEW f \in Events, Taken(n, f)
        PROVE  inbox'[e] \in Settled
    BY <1>3 DEF Taken, Claimable, Settled, Typed, TypeOK
  <1>4. ASSUME NEW n \in Nodes, MarkOf(n) PROVE inbox'[e] \in Settled
    BY <1>4, MarkSettles DEF Mark, Typed, TypeOK
  <1>5. ASSUME NEW n \in Nodes, DrainRejects(n) PROVE inbox'[e] \in Settled
    BY <1>1, <1>3, <1>5, RejectTakes
  <1>6. ASSUME NEW n \in Nodes, QuietOf(n) PROVE UNCHANGED inbox
    BY <1>6 DEF QuietOf, AfterReceive, FindNothing, ClaimLost, EndDrain, Wake,
        WakeThrows, Heartbeat, EndRun, RunEnds, Start, Stop, Crash, FindCandidate
  <1>7. ASSUME NEW n \in Nodes, NEW f \in Events, Claim(n, f) PROVE Taken(n, f)
    BY <1>7 DEF Claim, Taken
  <1>8. CASE Next
    BY <1>1, <1>2, <1>3, <1>4, <1>5, <1>6, <1>7, <1>8, NextGroups DEF Tick
  <1> QED BY <1>1, <1>8 DEF vars

(* A delivered or abandoned event is never taken up again.                 *)
THEOREM SettledForGood == Spec => NeverReopened
  <1>1. Typed /\ [Next]_vars
          => [\A e \in Events : inbox[e] \in {"DELIVERED", "FAILED"}
                               => inbox'[e] \in {"DELIVERED", "FAILED"}]_vars
    BY SettledStep DEF Settled
  <1> QED BY <1>1, TypedInit, TypedStep, PTL DEF Spec, NeverReopened

-----------------------------------------------------------------------------
(* The lease *)

(* A drain that holds an event after a step that took none for it held it  *)
(* before, with the same clock.                                            *)
StillHolds(n) ==
  \A e \in Events : Holds(n, e)' => Holds(n, e) /\ drain'[n].age = drain[n].age

LEMMA QuietHolds ==
  ASSUME Typed, NEW n \in Nodes,
         QuietOf(n) \/ MarkOf(n) \/ DrainRejects(n) \/ \E e \in Events : ReceiveOf(n, e)
  PROVE  \A m \in Nodes : StillHolds(m)
  <1> SUFFICES ASSUME NEW m \in Nodes PROVE StillHolds(m)
    OBVIOUS
  <1> USE DEF StillHolds, Holds, At, Goto, NoDrain, Typed, TypeOK
  <1>1. CASE MarkOf(n)
    BY <1>1, MarkSettles
  <1>2. CASE DrainRejects(n) \/ Crash(n) \/ EndDrain(n)
    BY <1>2 DEF DrainRejects, Crash, EndDrain
  <1>3. CASE AfterReceive(n) \/ Start(n)
    <2>1. drain' = drain \/ drain' = [drain EXCEPT ![n] = [NoDrain EXCEPT !.pc = "finding"]]
      BY <1>3 DEF AfterReceive, Start, StartDrain
    <2> QED BY <2>1
  <1>4. CASE \/ FindNothing(n) \/ ClaimLost(n) \/ Wake(n) \/ WakeThrows(n)
             \/ \E e \in Events : FindCandidate(n, e)
    <2>1. CASE FindNothing(n) \/ ClaimLost(n) \/ \E e \in Events : FindCandidate(n, e)
      <3>1. /\ drain'[n].pc \in {"empty", "claiming"}
            /\ \A k \in Nodes \ {n} : drain'[k] = drain[k]
        BY <2>1 DEF FindNothing, ClaimLost, FindCandidate, Drain
      <3> QED BY <3>1
    <2>2. CASE Wake(n) \/ WakeThrows(n)
      <3>1. /\ drain[n].pc = "waking" /\ drain'[n].age = drain[n].age
            /\ drain'[n].event = drain[n].event
            /\ \A k \in Nodes \ {n} : drain'[k] = drain[k]
        BY <2>2 DEF Wake, WakeThrows, Drain
      <3> QED BY <3>1
    <2> QED BY <1>4, <2>1, <2>2
  <1>5. CASE EndRun(n)
    BY <1>5 DEF EndRun, RunEnds
  <1>6. CASE Heartbeat(n) \/ Stop(n) \/ \E e \in Events : ReceiveOf(n, e)
    BY <1>6 DEF Heartbeat, Stop, ReceiveOf, Receive, ReceiveFails
  <1> QED BY <1>1, <1>2, <1>3, <1>4, <1>5, <1>6 DEF QuietOf

(* Who takes an event finds that every other holder has outlived its lease.*)
LEMMA TakenAfterLease ==
  ASSUME IInv, NEW n \in Nodes, NEW e \in Events, Claimable(n, e),
         NEW m \in Nodes, Holds(m, e)
  PROVE  drain[m].age > StaleAfter
  <1>1. Stamped(m, e) /\ drain[m].age \in Nat /\ drain[n].age \in Nat
    BY DEF IInv, Typed, TypeOK, Drain
  <1> QED BY <1>1, InboxAssumption DEF Stamped, Claimable, Settled

(* The invariant, when the holders stay and the table changes only where   *)
(* the change cannot hurt them.                                            *)
LEMMA HoldersKeep ==
  ASSUME IInv, \A m \in Nodes : StillHolds(m),
         \A e \in Events, m \in Nodes : Holds(m, e) =>
           \/ drain[m].age > StaleAfter
           \/ inbox'[e] = inbox[e] /\ age'[e] = age[e]
           \/ inbox'[e] \in Settled
  PROVE  LeaseHonoured' /\ \A n \in Nodes, e \in Events : Stamped(n, e)'
  BY DEF IInv, LeaseHonoured, Stamped, StillHolds, Holds

LEMMA QuietKeeps ==
  ASSUME IInv, NEW n \in Nodes,
         QuietOf(n) \/ MarkOf(n) \/ DrainRejects(n) \/ \E e \in Events : ReceiveOf(n, e)
  PROVE  LeaseHonoured' /\ \A m \in Nodes, e \in Events : Stamped(m, e)'
  <1>1. Typed /\ \A m \in Nodes : StillHolds(m)
    BY QuietHolds DEF IInv
  <1>2. ASSUME NEW e \in Events, NEW m \in Nodes, Holds(m, e)
        PROVE  \/ drain[m].age > StaleAfter
               \/ inbox'[e] = inbox[e] /\ age'[e] = age[e]
               \/ inbox'[e] \in Settled
    <2>1. CASE UNCHANGED <<inbox, age>>
      BY <2>1
    <2>2. CASE MarkOf(n)
      BY <1>1, <2>2, MarkSettles DEF Mark, Typed, TypeOK
    <2>3. ASSUME NEW f \in Events, Taken(n, f)
          PROVE  \/ drain[m].age > StaleAfter
                 \/ inbox'[e] = inbox[e] /\ age'[e] = age[e]
      <3>1. CASE f = e
        <4>1. Claimable(n, e)
          BY <2>3, <3>1 DEF Taken
        <4> QED BY <1>2, <4>1, TakenAfterLease
      <3>2. CASE f # e
        BY <1>1, <2>3, <3>2 DEF Taken, Typed, TypeOK
      <3> QED BY <3>1, <3>2
    <2>4. CASE DrainRejects(n)
      BY <1>1, <2>1, <2>3, <2>4, RejectTakes
    <2>5. CASE \E f \in Events : ReceiveOf(n, f)
      <3>1. Stamped(m, e) /\ age' = age
        BY <2>5 DEF IInv, ReceiveOf, Receive, ReceiveFails
      <3>2. inbox[e] # "absent" => inbox'[e] = inbox[e]
        BY <1>1, <2>5 DEF ReceiveOf, Receive, ReceiveFails, Stored, Typed, TypeOK
      <3> QED BY <1>2, <3>1, <3>2 DEF Stamped, Settled
    <2>6. CASE QuietOf(n)
      BY <2>6, <2>1 DEF QuietOf, AfterReceive, FindNothing, ClaimLost, EndDrain, Wake,
          WakeThrows, Heartbeat, EndRun, RunEnds, Start, Stop, Crash, FindCandidate
    <2> QED BY <2>1, <2>2, <2>4, <2>5, <2>6
  <1> QED BY <1>1, <1>2, HoldersKeep

LEMMA ClaimKeeps ==
  ASSUME IInv, NEW n \in Nodes, NEW e \in Events, Claim(n, e)
  PROVE  LeaseHonoured' /\ \A m \in Nodes, f \in Events : Stamped(m, f)'
  <1>1. Typed /\ Claimable(n, e) /\ inbox'[e] = "PROCESSING" /\ age'[e] = drain[n].age
    BY DEF Claim, IInv, Typed, TypeOK
  <1>2. \A f \in Events \ {e} : inbox'[f] = inbox[f] /\ age'[f] = age[f]
    BY <1>1 DEF Claim, Typed, TypeOK
  <1>3. /\ drain'[n].age = drain[n].age /\ drain'[n].event = e
        /\ \A m \in Nodes \ {n} : drain'[m] = drain[m]
    BY <1>1 DEF Claim, Goto, Typed, TypeOK
  <1>4. \A m \in Nodes \ {n} : Holds(m, e) => drain[m].age > StaleAfter
    BY <1>1, TakenAfterLease
  <1>5. ASSUME NEW m \in Nodes, NEW f \in Events PROVE Stamped(m, f)'
    BY <1>1, <1>2, <1>3, <1>4 DEF IInv, Stamped, Holds
  <1>6. LeaseHonoured'
    BY <1>3, <1>4 DEF IInv, LeaseHonoured, Holds
  <1> QED BY <1>5, <1>6

LEMMA TickKeeps ==
  ASSUME IInv, Tick
  PROVE  LeaseHonoured' /\ \A n \in Nodes, e \in Events : Stamped(n, e)'
  <1>1. Typed /\ inbox' = inbox
    BY DEF IInv, Tick
  <1>2. ASSUME NEW n \in Nodes, NEW e \in Events, Holds(n, e)'
        PROVE  /\ Holds(n, e) /\ drain'[n].age = drain[n].age + 1
               /\ drain[n].age \in Nat /\ drain[n].age < MaxDrain
    BY <1>1, <1>2 DEF Tick, Holds, Draining, At, Typed, TypeOK, Drain
  <1>3. ASSUME NEW n \in Nodes, NEW e \in Events, Holds(n, e)' PROVE Stamped(n, e)'
    <2>1. Stamped(n, e) /\ Holds(n, e)
      BY <1>2, <1>3 DEF IInv
    <2>2. CASE drain[n].age > StaleAfter
      BY <1>2, <1>3, <2>2, InboxAssumption DEF Stamped
    <2>3. CASE inbox[e] = "PROCESSING" /\ age[e] = drain[n].age
      <3>1. age[e] < Old
        BY <1>2, <1>3, <2>3, InboxAssumption DEF Old
      <3>2. age'[e] = age[e] + 1
        BY <2>3, <3>1 DEF Tick
      <3> QED BY <1>1, <1>2, <1>3, <2>3, <3>2 DEF Stamped
    <2>4. CASE inbox[e] \in Settled
      BY <1>1, <2>4 DEF Stamped
    <2> QED BY <2>1, <2>2, <2>3, <2>4 DEF Stamped
  <1>4. LeaseHonoured'
    BY <1>2, InboxAssumption DEF IInv, LeaseHonoured
  <1> QED BY <1>3, <1>4 DEF Stamped

LEMMA Inductive == IInv /\ [Next]_vars => IInv'
  <1> SUFFICES ASSUME IInv, [Next]_vars PROVE IInv'
    OBVIOUS
  <1>1. Typed'
    BY TypedStep DEF IInv
  <1>2. CASE UNCHANGED vars
    BY <1>1, <1>2 DEF vars, IInv, LeaseHonoured, Stamped, Holds
  <1>3. CASE Next
    BY <1>1, <1>3, NextGroups, QuietKeeps, ClaimKeeps, TickKeeps DEF IInv
  <1> QED BY <1>2, <1>3

(* Two drains deliver the same event at once only when one of them has     *)
(* outlived the lease.                                                     *)
THEOREM LeaseKept == Spec => []LeaseHonoured
  <1>1. Init => IInv
    BY TypedInit DEF Init, IInv, LeaseHonoured, Stamped, Holds, NoDrain
  <1>2. IInv => LeaseHonoured
    BY DEF IInv
  <1> QED BY <1>1, <1>2, Inductive, PTL DEF Spec
=============================================================================
