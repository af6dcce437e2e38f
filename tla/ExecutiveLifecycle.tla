------------------------- MODULE ExecutiveLifecycle -------------------------
(***************************************************************************)
(* ExecutiveProductionRuntime over a lease and PersistentExecutiveService: *)
(* runtimes that start, find their dependencies ready, degraded or failed, *)
(* acquire the lease, run the executive loop on a timer and stop, with     *)
(* calls of start and stop in flight at once. Between two actions of a     *)
(* call lies an await that other events can overtake; stop of a service    *)
(* without an active run does not yield to any.                            *)
(***************************************************************************)
EXTENDS Naturals

CONSTANTS
  Runtimes,   \* instances; each is the owner (ownerId) of its own claims
  Calls,      \* calls of start a runtime can have in flight
  NoOwner     \* model value: the lease is free

ASSUME LifecycleAssumption == NoOwner \notin Runtimes

VARIABLES
  state,     \* [Runtimes -> ExecutiveRuntimeState]
  ownsLease, \* [Runtimes -> BOOLEAN]
  lease,     \* the owner the lease names
  starting,  \* [Runtimes -> Calls -> where a call of start is]
  service    \* [Runtimes -> the PersistentExecutiveService]

vars == <<state, ownsLease, lease, starting, service>>

State == {"CREATED", "STARTING", "READY", "DEGRADED", "STOPPING", "STOPPED",
          "FAILED"}
Dependencies == {"READY", "DEGRADED", "FAILED"}
Service == [running : BOOLEAN, active : BOOLEAN]

(* "READY" and "DEGRADED": what the dependencies were when the call went   *)
(* on to acquire the lease.                                                *)
Start == {"none", "checking", "READY", "DEGRADED"}

Init ==
  /\ state = [r \in Runtimes |-> "CREATED"]
  /\ ownsLease = [r \in Runtimes |-> FALSE]
  /\ lease = NoOwner
  /\ starting = [r \in Runtimes |-> [c \in Calls |-> "none"]]
  /\ service = [r \in Runtimes |-> [running |-> FALSE, active |-> FALSE]]
-----------------------------------------------------------------------------
(* PersistentExecutiveService *)

(* start: the timer, and a first run at once unless one is active.         *)
ServiceStarts(r) == service' = [service EXCEPT ![r] = [running |-> TRUE,
  active |-> IF service[r].running THEN service[r].active ELSE TRUE]]

TimerFires(r) ==
  /\ service[r].running
  /\ ~service[r].active
  /\ service' = [service EXCEPT ![r].active = TRUE]
  /\ UNCHANGED <<state, ownsLease, lease, starting>>
-----------------------------------------------------------------------------
(* start *)

StartCalled(r, c) ==
  /\ starting[r][c] = "none"
  /\ state[r] \in {"CREATED", "STOPPED", "FAILED"}
  /\ state' = [state EXCEPT ![r] = "STARTING"]
  /\ starting' = [starting EXCEPT ![r][c] = "checking"]
  /\ UNCHANGED <<ownsLease, lease, service>>

Release(r) == lease' = IF lease = r THEN NoOwner ELSE lease

(* A check that throws: the catch gives back a lease that is owned.        *)
CheckThrows(r, c) ==
  /\ starting[r][c] = "checking"
  /\ state' = [state EXCEPT ![r] = "FAILED"]
  /\ IF ownsLease[r] THEN Release(r) ELSE UNCHANGED lease
  /\ ownsLease' = [ownsLease EXCEPT ![r] = FALSE]
  /\ starting' = [starting EXCEPT ![r][c] = "none"]
  /\ UNCHANGED service

(* Mutation: a failed dependency does not end the start.                   *)
CheckedGoingOn(r, c, worst) ==
  /\ starting[r][c] = "checking"
  /\ state' = [state EXCEPT ![r] = IF worst = "FAILED" THEN "FAILED" ELSE @]
  /\ starting' = [starting EXCEPT ![r][c] = worst]
  /\ UNCHANGED <<ownsLease, lease, service>>

Checked(r, c, worst) ==
  /\ starting[r][c] = "checking"
  /\ state' = [state EXCEPT ![r] = IF worst = "FAILED" THEN "FAILED" ELSE @]
  /\ starting' = [starting EXCEPT ![r][c] =
                    IF worst = "FAILED" THEN "none" ELSE worst]
  /\ UNCHANGED <<ownsLease, lease, service>>

(* The lease is free or this owner's: the service is started, whatever has *)
(* been asked of the runtime in the meantime.                              *)
Acquire(r, c) ==
  /\ starting[r][c] \in {"READY", "DEGRADED"}
  /\ lease \in {NoOwner, r}
  /\ lease' = r
  /\ ownsLease' = [ownsLease EXCEPT ![r] = TRUE]
  /\ state' = [state EXCEPT ![r] = starting[r][c]]
  /\ starting' = [starting EXCEPT ![r][c] = "none"]
  /\ ServiceStarts(r)

AcquireRefused(r, c) ==
  /\ starting[r][c] \in {"READY", "DEGRADED"}
  /\ lease \notin {NoOwner, r}
  /\ ownsLease' = [ownsLease EXCEPT ![r] = FALSE]
  /\ state' = [state EXCEPT ![r] = "FAILED"]
  /\ starting' = [starting EXCEPT ![r][c] = "none"]
  /\ UNCHANGED <<lease, service>>
-----------------------------------------------------------------------------
(* stop *)

(* Mutation: the runtime goes on believing that it owns the lease.         *)
StoppedOwning(r) ==
  /\ state' = [state EXCEPT ![r] = "STOPPED"]
  /\ IF ownsLease[r] THEN Release(r) ELSE UNCHANGED lease
  /\ UNCHANGED ownsLease

(* The end of stop: the lease goes back after the active run has ended.    *)
Stopped(r) ==
  /\ state' = [state EXCEPT ![r] = "STOPPED"]
  /\ IF ownsLease[r] THEN Release(r) ELSE UNCHANGED lease
  /\ ownsLease' = [ownsLease EXCEPT ![r] = FALSE]

(* Mutation: stop does not wait for the run.                               *)
StopCalledHasty(r) ==
  /\ service' = [service EXCEPT ![r].running = FALSE]
  /\ Stopped(r)
  /\ UNCHANGED starting

StopCalled(r) ==
  /\ service' = IF state[r] \in {"CREATED", "STOPPED"} THEN service
                ELSE [service EXCEPT ![r].running = FALSE]
  /\ IF service[r].active /\ state[r] \notin {"CREATED", "STOPPED"}
     THEN /\ state' = [state EXCEPT ![r] = "STOPPING"]
          /\ UNCHANGED <<ownsLease, lease>>
     ELSE Stopped(r)
  /\ UNCHANGED starting

(* Also a run that failed; stop goes on.                                    *)
RunEnds(r) ==
  /\ service[r].active
  /\ service' = [service EXCEPT ![r].active = FALSE]
  /\ IF state[r] = "STOPPING" THEN Stopped(r)
     ELSE UNCHANGED <<state, ownsLease, lease>>
  /\ UNCHANGED starting
-----------------------------------------------------------------------------
Next ==
  \E r \in Runtimes :
    \/ TimerFires(r) \/ RunEnds(r) \/ StopCalled(r)
    \/ \E c \in Calls : \/ StartCalled(r, c) \/ CheckThrows(r, c)
                        \/ \E worst \in Dependencies : Checked(r, c, worst)
                        \/ Acquire(r, c) \/ AcquireRefused(r, c)

Spec == Init /\ [][Next]_vars
-----------------------------------------------------------------------------
(* Properties *)

(* Types: states, calls and services keep their declared shape.            *)
TypeOK ==
  /\ state \in [Runtimes -> State]
  /\ ownsLease \in [Runtimes -> BOOLEAN]
  /\ lease \in Runtimes \cup {NoOwner}
  /\ starting \in [Runtimes -> [Calls -> Start]]
  /\ service \in [Runtimes -> Service]

(* A runtime whose service has its timer or a run under way owns the lease:*)
(* two executives never run at once ("a runtime lease prevents two         *)
(* executive owners from starting concurrently", v7.9d-production-         *)
(* runtime.md:12), and the lease is given back only after the last run.    *)
RunsUnderLease ==
  \A r \in Runtimes : service[r].running \/ service[r].active => lease = r

(* What health reports is so: ready means that the service is on and the   *)
(* lease owned, stopped or failed that nothing runs.                       *)
HealthIsTrue ==
  \A r \in Runtimes :
    /\ state[r] \in {"READY", "DEGRADED"} => service[r].running /\ ownsLease[r]
    /\ state[r] \in {"STOPPED", "FAILED"}
         => ~service[r].running /\ ~service[r].active /\ ~ownsLease[r]
=============================================================================
