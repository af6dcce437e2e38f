----------------------------- MODULE TenantHost -----------------------------
(***************************************************************************)
(* ProductionExecutiveHost over PersistentExecutiveService: one executive  *)
(* service per company, kept in line with the companies of the database by *)
(* refreshes that a timer starts and that may overlap, each with the list  *)
(* of companies it read. The server starts the host once and stops it once.*)
(***************************************************************************)
EXTENDS Naturals

CONSTANTS
  Companies,
  Refreshes,   \* bound: calls of refreshTenants in flight
  Services,    \* bound: services that exist at the same time
  NoCompany,
  NoService

ASSUME HostAssumption ==
  /\ NoCompany \notin Companies
  /\ NoService \notin Services

VARIABLES
  company,   \* external: the companies in the database
  started,   \* the host's started
  stop,      \* "none", "waiting" for active runs, or "done"
  timer,     \* is the refresh timer set
  refresh,   \* [Refreshes -> a call of refreshTenants]
  tenants,   \* [Companies -> the service in the map]
  service    \* [Services -> whose it is, and its state]

vars == <<company, started, stop, timer, refresh, tenants, service>>

(* first: start awaits it. stale: services it has stopped and waits for.   *)
Refresh == [pc : {"idle", "querying", "loaded", "stopping"},
            seen : SUBSET Companies, stale : SUBSET Services, first : BOOLEAN]
NoRefresh == [pc |-> "idle", seen |-> {}, stale |-> {}, first |-> FALSE]
Service == [of : Companies \cup {NoCompany}, running : BOOLEAN, active : BOOLEAN]
Unused == [of |-> NoCompany, running |-> FALSE, active |-> FALSE]

Init ==
  /\ company \in SUBSET Companies
  /\ started = FALSE
  /\ stop = "none"
  /\ timer = FALSE
  /\ refresh = [r \in Refreshes |-> NoRefresh]
  /\ tenants = [c \in Companies |-> NoService]
  /\ service = [i \in Services |-> Unused]

At(r, label) == refresh[r].pc = label
Hosted == {c \in Companies : tenants[c] # NoService}
(* A service that is off, without a run and out of the map is forgotten.   *)
Forget(svc, map) ==
  [i \in Services |-> IF svc[i].running \/ svc[i].active \/ i \in {map[c] : c \in Companies}
                      THEN svc[i] ELSE Unused]
-----------------------------------------------------------------------------
(* refreshTenants *)

StartRefresh(r, first) ==
  /\ At(r, "idle")
  /\ refresh' = [refresh EXCEPT ![r] = [NoRefresh EXCEPT !.pc = "querying", !.first = first]]

StartHost(r) ==
  /\ ~started /\ stop = "none"
  /\ started' = TRUE
  /\ StartRefresh(r, TRUE)
  /\ UNCHANGED <<company, stop, timer, tenants, service>>

TimerFires(r) ==
  /\ timer
  /\ StartRefresh(r, FALSE)
  /\ UNCHANGED <<company, started, stop, timer, tenants, service>>

(* findMany reads; what it read arrives later.                             *)
ReadCompanies(r) ==
  /\ At(r, "querying")
  /\ refresh' = [refresh EXCEPT ![r].pc = "loaded", ![r].seen = company]
  /\ UNCHANGED <<company, started, stop, timer, tenants, service>>

(* The query fails: a first refresh makes start fail, without a timer.     *)
ReadFails(r) ==
  /\ At(r, "querying")
  /\ refresh' = [refresh EXCEPT ![r] = NoRefresh]
  /\ UNCHANGED <<company, started, stop, timer, tenants, service>>

(* Mutation: the map is not consulted.                                     *)
MissingAll(r) == refresh[r].seen

Missing(r) == refresh[r].seen \ Hosted

(* Mutation: companies that are gone are left alone.                       *)
StaleNone(r) == {c \in Hosted : c \notin Companies}

Stale(r) == Hosted \ refresh[r].seen

(* The refresh is over; start sets the timer after its own, whether the    *)
(* host has been stopped in the meantime or not.                           *)
Ends(over) ==
  /\ refresh' = [r \in Refreshes |-> IF r \in over THEN NoRefresh ELSE refresh[r]]
  /\ timer' = (timer \/ \E r \in over : refresh[r].first)

(* Mutation: the companies are kept instead of their services.             *)
AwaitedCompanies(waits) == waits

Awaited(waits) == {tenants[c] : c \in waits}

(* One turn: a service for every company without one is created and        *)
(* started; those of companies that are gone are stopped and, once their   *)
(* run has ended, removed. newService says which service a company gets.   *)
Apply(r, newService) ==
  /\ At(r, "loaded")
  /\ LET stale == Stale(r)
         waits == {c \in stale : service[tenants[c]].active}
         map   == [c \in Companies |-> IF c \in Missing(r) THEN newService[c]
                                       ELSE IF c \in stale \ waits THEN NoService
                                       ELSE tenants[c]]
         svc   == [i \in Services |->
                     CASE \E c \in Missing(r) : newService[c] = i ->
                            [of |-> CHOOSE c \in Missing(r) : newService[c] = i,
                             running |-> TRUE, active |-> TRUE]
                       [] \E c \in stale : tenants[c] = i ->
                            [service[i] EXCEPT !.running = FALSE]
                       [] OTHER -> service[i]]
     IN  /\ tenants' = map
         /\ service' = Forget(svc, map)
         /\ IF waits = {} THEN Ends({r})
            ELSE /\ refresh' = [refresh EXCEPT ![r].pc = "stopping", ![r].stale = Awaited(waits)]
                 /\ UNCHANGED timer
  /\ UNCHANGED <<company, started, stop>>

ApplyRefresh(r) ==
  \E newService \in [Missing(r) -> {i \in Services : service[i] = Unused}] :
    /\ \A c, d \in Missing(r) : newService[c] = newService[d] => c = d
    /\ Apply(r, newService)
-----------------------------------------------------------------------------
(* Services *)

ServiceTimer(i) ==
  /\ service[i].running
  /\ ~service[i].active
  /\ service' = [service EXCEPT ![i].active = TRUE]
  /\ UNCHANGED <<company, started, stop, timer, refresh, tenants>>

(* A run ends. Whoever waits for it goes on: refreshes delete the company  *)
(* from the map, stop clears the map after the last run.                   *)
RunEnds(i) ==
  /\ service[i].active
  /\ LET c     == service[i].of
         svc   == [service EXCEPT ![i].active = FALSE]
         goOn  == {r \in Refreshes : i \in refresh[r].stale}
         over  == {r \in goOn : refresh[r].stale = {i}}
         clear == stop = "waiting" /\ ~service[i].running
                  /\ \A d \in Hosted : ~svc[tenants[d]].active \/ svc[tenants[d]].running
         map   == [d \in Companies |->
                     IF clear \/ (d = c /\ goOn # {}) THEN NoService ELSE tenants[d]]
     IN  /\ tenants' = map
         /\ service' = Forget(svc, map)
         /\ refresh' = [r \in Refreshes |->
                          IF r \in over THEN NoRefresh
                          ELSE IF r \in goOn THEN [refresh[r] EXCEPT !.stale = @ \ {i}]
                          ELSE refresh[r]]
         /\ timer' = (timer \/ \E r \in over : refresh[r].first)
         /\ stop' = IF clear THEN "done" ELSE stop
  /\ UNCHANGED <<company, started>>

StopHost ==
  /\ started
  /\ started' = FALSE
  /\ timer' = FALSE
  /\ LET waits == \E c \in Hosted : service[tenants[c]].active
         map   == IF waits THEN tenants ELSE [c \in Companies |-> NoService]
         svc   == [i \in Services |-> IF i \in {tenants[c] : c \in Companies}
                                      THEN [service[i] EXCEPT !.running = FALSE]
                                      ELSE service[i]]
     IN  /\ tenants' = map
         /\ service' = Forget(svc, map)
         /\ stop' = IF waits THEN "waiting" ELSE "done"
  /\ UNCHANGED <<company, refresh>>

(* Companies are created and deleted.                                      *)
CompaniesChange ==
  /\ company' \in SUBSET Companies
  /\ company' # company
  /\ UNCHANGED <<started, stop, timer, refresh, tenants, service>>
-----------------------------------------------------------------------------
Answers(r) == ReadCompanies(r) \/ ReadFails(r)

Next ==
  \/ \E r \in Refreshes : \/ StartHost(r) \/ TimerFires(r)
                          \/ Answers(r) \/ ApplyRefresh(r)
  \/ \E i \in Services : ServiceTimer(i) \/ RunEnds(i)
  \/ StopHost
  \/ CompaniesChange

Spec == Init /\ [][Next]_vars

(* The database answers, successfully in the long run; runs of the loop    *)
(* end; the refresh timer fires.                                           *)
Fairness ==
  /\ \A r \in Refreshes : /\ SF_vars(ReadCompanies(r)) /\ WF_vars(Answers(r))
                          /\ WF_vars(ApplyRefresh(r))
                          /\ SF_vars(TimerFires(r))
  /\ \A i \in Services : WF_vars(RunEnds(i))

FairSpec == Spec /\ Fairness
-----------------------------------------------------------------------------
(* Properties *)

(* Types: calls, the map and the services keep their declared shape.       *)
TypeOK ==
  /\ company \subseteq Companies
  /\ started \in BOOLEAN
  /\ stop \in {"none", "waiting", "done"}
  /\ timer \in BOOLEAN
  /\ refresh \in [Refreshes -> Refresh]
  /\ tenants \in [Companies -> Services \cup {NoService}]
  /\ service \in [Services -> Service]

(* Until the host is stopped, a company has one executive at most: a       *)
(* service with a timer or a run is the one in the map, however refreshes  *)
(* with older and newer lists overlap.                                     *)
OneExecutivePerCompany ==
  stop = "none" =>
    \A i \in Services :
      service[i].running \/ service[i].active => tenants[service[i].of] = i

(* A company that stays gets an executive, one that is gone for good loses *)
(* it, whatever older lists say - as long as the refresh timer runs.       *)
Served(c) == tenants[c] # NoService /\ service[tenants[c]].running
FollowsCompanies ==
  \A c \in Companies :
    /\ <>[](timer /\ c \in company) => <>[]Served(c)
    /\ <>[](timer /\ c \notin company) => <>[]~Served(c)
=============================================================================
