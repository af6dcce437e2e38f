--------------------------- MODULE ExecutiveInbox ---------------------------
(***************************************************************************)
(* DurableExecutiveEventAdapter over PrismaExecutiveEventInboxStore and    *)
(* ExecutiveWakeTrigger: system events go into a durable inbox, a drain    *)
(* claims them one by one and wakes the executive loop for each, and a     *)
(* heartbeat wakes it anyway. Several processes share the inbox; the       *)
(* source repeats itself, database calls fail, processes stop, die and     *)
(* start again. Between two actions of a drain lies an await.              *)
(*                                                                         *)
(* Times are kept as ages: drain.age is how long ago the drain read its    *)
(* clock (its "now"), age[e] how long ago processingStartedAt was.         *)
(***************************************************************************)
EXTENDS Naturals

CONSTANTS
  Nodes,        \* processes, each with an adapter and a trigger
  Events,       \* event ids; a set of numbers, in the order of occurredAt
  StaleAfter,   \* staleAfterMs, in ticks
  MaxDrain,     \* bound: the longest drain, in ticks
  MaxFaults     \* bound: failing database calls and crashes

ASSUME InboxAssumption ==
  /\ Events \subseteq Nat
  /\ StaleAfter \in Nat \ {0} /\ MaxDrain \in Nat /\ MaxFaults \in Nat

VARIABLES
  inbox,     \* executiveEventInbox: [Events -> status]
  age,       \* [Events -> age of processingStartedAt]
  accepted,  \* nodes with an accept that has stored its event and not resumed
  drain,     \* [Nodes -> the drain of the adapter]
  trigger,   \* [Nodes -> running (the adapter, too), a run of the loop active]
  faults

vars == <<inbox, age, accepted, drain, trigger, faults>>

InboxStatus == {"absent", "PENDING", "PROCESSING", "DELIVERED", "FAILED"}

(* An event older than this is stale for every drain.                      *)
Old == MaxDrain + StaleAfter + 1

(* "empty" has been told that there is nothing (left) to claim, "joined"   *)
(* awaits a run of the loop.                                               *)
DrainPC == {"idle", "finding", "empty", "claiming", "waking", "joined",
            "delivering", "failing"}
Drain == [pc : DrainPC, age : 0..MaxDrain, event : Events \cup {0}]
NoDrain == [pc |-> "idle", age |-> 0, event |-> 0]
Trigger == [running : BOOLEAN, active : BOOLEAN]

Init ==
  /\ inbox = [e \in Events |-> "absent"]
  /\ age = [e \in Events |-> 0]
  /\ accepted = {}
  /\ drain = [n \in Nodes |-> NoDrain]
  /\ trigger = [n \in Nodes |-> [running |-> FALSE, active |-> FALSE]]
  /\ faults = 0

At(n, label) == drain[n].pc = label
Goto(n, label) == drain' = [drain EXCEPT ![n].pc = label]
Fault == faults < MaxFaults /\ faults' = faults + 1
-----------------------------------------------------------------------------
(* accept *)

(* Mutation: an upsert.                                                    *)
StoredUpserting(e) == inbox' = [inbox EXCEPT ![e] = "PENDING"]

(* Mutation: the row gets what receive returns.                            *)
StoredAsReceived(e) ==
  inbox' = [inbox EXCEPT ![e] = IF @ = "absent" THEN "RECEIVED" ELSE @]

(* inbox.receive: the id is unique, a second create is a DUPLICATE.        *)
Stored(e) ==
  inbox' = [inbox EXCEPT ![e] = IF @ = "absent" THEN "PENDING" ELSE @]

Receive(n, e) ==
  /\ trigger[n].running
  /\ Stored(e)
  /\ accepted' = accepted \cup {n}
  /\ UNCHANGED <<age, drain, trigger, faults>>

(* accept rejects, with the event stored.                                  *)
ReceiveFails(n, e) ==
  /\ trigger[n].running
  /\ Fault
  /\ Stored(e)
  /\ UNCHANGED <<age, accepted, drain, trigger>>

(* drain(): a drain that has not settled is joined, whatever it has left.  *)
StartDrain(n) ==
  drain' = [drain EXCEPT ![n] =
              IF @.pc = "idle" THEN [NoDrain EXCEPT !.pc = "finding"] ELSE @]

AfterReceive(n) ==
  /\ n \in accepted
  /\ accepted' = accepted \ {n}
  /\ IF trigger[n].running THEN StartDrain(n) ELSE UNCHANGED drain
  /\ UNCHANGED <<inbox, age, trigger, faults>>
-----------------------------------------------------------------------------
(* drainInternal and claimNext *)

(* Mutation: nothing is reclaimed.                                         *)
ClaimableFresh(n, e) == inbox[e] = "PENDING"

Claimable(n, e) ==
  \/ inbox[e] = "PENDING"
  \/ inbox[e] = "PROCESSING" /\ age[e] > drain[n].age + StaleAfter

FindCandidate(n, e) ==
  /\ At(n, "finding")
  /\ Claimable(n, e)
  /\ \A f \in Events : Claimable(n, f) => e <= f
  /\ drain' = [drain EXCEPT ![n].pc = "claiming", ![n].event = e]
  /\ UNCHANGED <<inbox, age, accepted, trigger, faults>>

FindNothing(n) ==
  /\ At(n, "finding")
  /\ \A e \in Events : ~Claimable(n, e)
  /\ Goto(n, "empty")
  /\ UNCHANGED <<inbox, age, accepted, trigger, faults>>

(* Mutation: the update names the row only.                                *)
ClaimUnguarded(n, e) ==
  /\ At(n, "claiming")
  /\ e = drain[n].event
  /\ inbox' = [inbox EXCEPT ![e] = "PROCESSING"]
  /\ age' = [age EXCEPT ![e] = drain[n].age]
  /\ Goto(n, "waking")
  /\ UNCHANGED <<accepted, trigger, faults>>

(* The guarded updateMany; processingStartedAt is the drain's "now".       *)
Claim(n, e) ==
  /\ At(n, "claiming")
  /\ e = drain[n].event
  /\ Claimable(n, e)
  /\ inbox' = [inbox EXCEPT ![e] = "PROCESSING"]
  /\ age' = [age EXCEPT ![e] = drain[n].age]
  /\ Goto(n, "waking")
  /\ UNCHANGED <<accepted, trigger, faults>>

(* A lost race is "nothing to claim" for the drain.                        *)
ClaimLost(n) ==
  /\ At(n, "claiming")
  /\ ~Claimable(n, drain[n].event)
  /\ Goto(n, "empty")
  /\ UNCHANGED <<inbox, age, accepted, trigger, faults>>

EndDrain(n) ==
  /\ At(n, "empty")
  /\ drain' = [drain EXCEPT ![n] = NoDrain]
  /\ UNCHANGED <<inbox, age, accepted, trigger, faults>>

(* A failing findFirst, updateMany, findUnique or markFailed rejects the   *)
(* drain and what joined it; the write may have committed.                 *)
DrainRejects(n) ==
  /\ drain[n].pc \in {"finding", "claiming", "failing"}
  /\ Fault
  /\ \/ UNCHANGED <<inbox, age>>
     \/ /\ At(n, "claiming") /\ Claimable(n, drain[n].event)
        /\ inbox' = [inbox EXCEPT ![drain[n].event] = "PROCESSING"]
        /\ age' = [age EXCEPT ![drain[n].event] = drain[n].age]
  /\ drain' = [drain EXCEPT ![n] = NoDrain]
  /\ UNCHANGED <<accepted, trigger>>
-----------------------------------------------------------------------------
(* The trigger *)

(* A run of the loop begins, and observes what there is.                   *)
BeginRun(n) ==
  trigger' = [trigger EXCEPT ![n].active = TRUE]

(* wake: joins the active run or begins one.                               *)
Wake(n) ==
  /\ At(n, "waking")
  /\ trigger[n].running
  /\ IF trigger[n].active THEN UNCHANGED trigger ELSE BeginRun(n)
  /\ Goto(n, "joined")
  /\ UNCHANGED <<inbox, age, accepted, faults>>

WakeThrows(n) ==
  /\ At(n, "waking")
  /\ ~trigger[n].running
  /\ Goto(n, "failing")
  /\ UNCHANGED <<inbox, age, accepted, trigger, faults>>

Heartbeat(n) ==
  /\ trigger[n].running
  /\ ~trigger[n].active
  /\ BeginRun(n)
  /\ UNCHANGED <<inbox, age, accepted, drain, faults>>

(* Mutation: the run that has ended is not forgotten.                      *)
RunEndsKept(n, joined) ==
  /\ trigger[n].active
  /\ UNCHANGED trigger
  /\ drain' = [drain EXCEPT ![n].pc = IF @ = "joined" THEN joined ELSE @]
  /\ UNCHANGED <<inbox, age, accepted, faults>>

(* The run resolves or rejects, and so does the wake that awaits it.       *)
RunEnds(n, joined) ==
  /\ trigger[n].active
  /\ trigger' = [trigger EXCEPT ![n].active = FALSE]
  /\ drain' = [drain EXCEPT ![n].pc = IF @ = "joined" THEN joined ELSE @]
  /\ UNCHANGED <<inbox, age, accepted, faults>>

(* markDelivered and markFailed: by id, whatever the status is by now.     *)
Mark(n, status) ==
  /\ inbox' = [inbox EXCEPT ![drain[n].event] = status]
  /\ age' = [age EXCEPT ![drain[n].event] = 0]
NextEvent(n) ==
  drain' = [drain EXCEPT ![n].pc = "finding", ![n].event = 0]

MarkDelivered(n) ==
  /\ At(n, "delivering")
  /\ Mark(n, "DELIVERED")
  /\ NextEvent(n)
  /\ UNCHANGED <<accepted, trigger, faults>>

(* It is inside the try: a failed mark makes the event FAILED.             *)
MarkDeliveredFails(n) ==
  /\ At(n, "delivering")
  /\ Fault
  /\ Mark(n, "DELIVERED") \/ UNCHANGED <<inbox, age>>
  /\ Goto(n, "failing")
  /\ UNCHANGED <<accepted, trigger>>

MarkFailed(n) ==
  /\ At(n, "failing")
  /\ Mark(n, "FAILED")
  /\ NextEvent(n)
  /\ UNCHANGED <<accepted, trigger, faults>>
-----------------------------------------------------------------------------
(* Hosts and time *)

(* trigger.start, adapter.start.                                           *)
Start(n) ==
  /\ ~trigger[n].running
  /\ trigger' = [trigger EXCEPT ![n].running = TRUE]
  /\ StartDrain(n)
  /\ UNCHANGED <<inbox, age, accepted, faults>>

(* adapter.stop, trigger.stop: neither ends a drain or a run under way.    *)
Stop(n) ==
  /\ trigger[n].running
  /\ trigger' = [trigger EXCEPT ![n].running = FALSE]
  /\ UNCHANGED <<inbox, age, accepted, drain, faults>>

Crash(n) ==
  /\ Fault
  /\ trigger' = [trigger EXCEPT ![n] = [running |-> FALSE, active |-> FALSE]]
  /\ drain' = [drain EXCEPT ![n] = NoDrain]
  /\ accepted' = accepted \ {n}
  /\ UNCHANGED <<inbox, age>>

Draining(n) == ~At(n, "idle")

Tick ==
  /\ \A n \in Nodes : Draining(n) => drain[n].age < MaxDrain
  /\ \/ \E n \in Nodes : Draining(n)
     \/ \E e \in Events : inbox[e] = "PROCESSING" /\ age[e] < Old
  /\ drain' = [n \in Nodes |-> IF Draining(n)
                               THEN [drain[n] EXCEPT !.age = @ + 1]
                               ELSE drain[n]]
  /\ age' = [e \in Events |-> IF inbox[e] = "PROCESSING" /\ age[e] < Old
                              THEN age[e] + 1 ELSE age[e]]
  /\ UNCHANGED <<inbox, accepted, trigger, faults>>
-----------------------------------------------------------------------------
(* What a drain does by itself once it has been set going.                 *)
Proceed(n) ==
  \/ \E e \in Events : FindCandidate(n, e) \/ Claim(n, e)
  \/ FindNothing(n) \/ ClaimLost(n) \/ EndDrain(n)
  \/ Wake(n) \/ WakeThrows(n) \/ MarkDelivered(n) \/ MarkFailed(n)

EndRun(n) == \E joined \in {"delivering", "failing"} : RunEnds(n, joined)

Next ==
  \/ \E n \in Nodes :
       \/ AfterReceive(n) \/ Proceed(n) \/ Heartbeat(n) \/ EndRun(n)
       \/ \E e \in Events : Receive(n, e) \/ ReceiveFails(n, e)
       \/ DrainRejects(n) \/ MarkDeliveredFails(n)
       \/ Start(n) \/ Stop(n) \/ Crash(n)
  \/ Tick

Spec == Init /\ [][Next]_vars

(* Every await of a drain returns, runs of the loop end, the heartbeat's   *)
(* interval timer fires and time passes. Nothing else is required: not     *)
(* that hosts start, that events arrive or that anything fails.            *)
Fairness ==
  /\ \A n \in Nodes : /\ WF_vars(AfterReceive(n)) /\ WF_vars(Proceed(n))
                      /\ WF_vars(EndRun(n)) /\ SF_vars(Heartbeat(n))
  /\ WF_vars(Tick)

FairSpec == Spec /\ Fairness
-----------------------------------------------------------------------------
(* Properties *)

(* Types: rows, drains and triggers keep their declared shape.             *)
TypeOK ==
  /\ inbox \in [Events -> InboxStatus]
  /\ age \in [Events -> 0..Old]
  /\ accepted \subseteq Nodes
  /\ drain \in [Nodes -> Drain]
  /\ trigger \in [Nodes -> Trigger]
  /\ faults \in 0..MaxFaults

(* Two drains deliver the same event at once only when one of them has     *)
(* outlived the lease: the lease counts from the start of the drain.       *)
Holds(n, e) ==
  drain[n].pc \in {"waking", "joined", "delivering"} /\ drain[n].event = e
LeaseHonoured ==
  \A m, n \in Nodes, e \in Events :
    m # n /\ Holds(m, e) /\ Holds(n, e)
      => drain[m].age > StaleAfter \/ drain[n].age > StaleAfter

(* An event that was delivered or given up is never taken up again:        *)
(* neither by a repeated emission, nor by a drain that had chosen it       *)
(* before, nor by a host that starts after a crash.                        *)
NeverReopened ==
  [][\A e \in Events : inbox[e] \in {"DELIVERED", "FAILED"}
                         => inbox'[e] \in {"DELIVERED", "FAILED"}]_vars

(* The heartbeat makes up for what deliveries miss (an event whose wake    *)
(* joined a run that had already looked, a drain that was joined too late, *)
(* a failed call): while a trigger runs, every run ends and another begins.*)
HeartbeatReconciles ==
  \A n \in Nodes : /\ []<>(trigger[n].running => trigger[n].active)
                   /\ []<>(trigger[n].running => ~trigger[n].active)

(* As long as drains keep being started, no event stays PENDING or with a  *)
(* dead process: every one is delivered or given up.                       *)
NoneLeftBehind ==
  (\E n \in Nodes : []<>At(n, "finding"))
    => \A e \in Events : []<>(inbox[e] \notin {"PENDING", "PROCESSING"})
=============================================================================
