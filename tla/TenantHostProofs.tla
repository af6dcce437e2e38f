-------------------------- MODULE TenantHostProofs --------------------------
(***************************************************************************)
(* Theorems about TenantHost, for any companies, any number of refreshes   *)
(* that overlap and any services.                                          *)
(***************************************************************************)
EXTENDS TenantHost, TLAPS

(* The inductive invariant. The map and the services agree; a service that *)
(* is on or runs belongs to a company and, until the host is stopped, is   *)
(* the one in the map; what a refresh waits for still runs but is off, so  *)
(* that its removal leaves nothing behind that could start another run.    *)
Busy(i) == service[i].running \/ service[i].active

MapTrue == \A c \in Hosted : service[tenants[c]].of = c

Owned(i) == Busy(i) => /\ service[i].of \in Companies
                       /\ stop = "none" => tenants[service[i].of] = i

AwaitedAreOff ==
  \A r \in Refreshes : \A i \in refresh[r].stale :
    service[i].active /\ ~service[i].running

IInv ==
  /\ TypeOK
  /\ MapTrue
  /\ \A i \in Services : Owned(i)
  /\ AwaitedAreOff

-----------------------------------------------------------------------------
(* A service is forgotten only when it is off, idle and out of the map.    *)
LEMMA Forgetting ==
  ASSUME NEW svc \in [Services -> Service], NEW map
  PROVE  /\ Forget(svc, map) \in [Services -> Service]
         /\ \A i \in Services :
              \/ Forget(svc, map)[i] = svc[i]
              \/ /\ Forget(svc, map)[i] = Unused
                 /\ ~svc[i].running /\ ~svc[i].active
                 /\ \A c \in Companies : map[c] # i
  BY DEF Forget, Unused, Service

LEMMA SwitchedOff ==
  ASSUME NEW x \in Service
  PROVE  [x EXCEPT !.running = FALSE] \in Service
  BY DEF Service

LEMMA NoRefreshType == NoRefresh \in Refresh
  BY DEF NoRefresh, Refresh

(* What the turn of a refresh does to the map and the services, company by *)
(* company and service by service.                                         *)
Turn(r, newService, svc) ==
  /\ svc \in [Services -> Service]
  /\ tenants' \in [Companies -> Services \cup {NoService}]
  /\ service' = Forget(svc, tenants')
  /\ \A c \in Missing(r) :
       /\ newService[c] \in Services /\ tenants'[c] = newService[c]
       /\ svc[newService[c]] = [of |-> c, running |-> TRUE, active |-> TRUE]
  /\ \A c \in Stale(r) :
       /\ svc[tenants[c]] = [service[tenants[c]] EXCEPT !.running = FALSE]
       /\ tenants'[c] = IF service[tenants[c]].active THEN tenants[c] ELSE NoService
  /\ \A c \in Companies : c \notin Missing(r) /\ c \notin Stale(r)
                            => tenants'[c] = tenants[c]
  /\ \A i \in Services :
       \/ svc[i] = service[i]
       \/ \E c \in Missing(r) : newService[c] = i
       \/ \E c \in Stale(r) : tenants[c] = i

LEMMA Turns ==
  ASSUME IInv, NEW r \in Refreshes,
         NEW newService \in [Missing(r) -> {i \in Services : service[i] = Unused}],
         \A c, d \in Missing(r) : newService[c] = newService[d] => c = d,
         Apply(r, newService)
  PROVE  \E svc : Turn(r, newService, svc)
  <1> DEFINE stale == Stale(r)
             waits == {c \in stale : service[tenants[c]].active}
             map   == [c \in Companies |-> IF c \in Missing(r) THEN newService[c]
                                           ELSE IF c \in stale \ waits THEN NoService
                                           ELSE tenants[c]]
             Created(i) == \E c \in Missing(r) : newService[c] = i
             Off(i) == \E c \in stale : tenants[c] = i
             made(i) == [of |-> CHOOSE c \in Missing(r) : newService[c] = i,
                         running |-> TRUE, active |-> TRUE]
             svc   == [i \in Services |->
                         CASE Created(i) -> made(i)
                           [] Off(i) -> [service[i] EXCEPT !.running = FALSE]
                           [] OTHER -> service[i]]
  <1>1. tenants' = map /\ service' = Forget(svc, map)
    BY DEF Apply
  <1>2. /\ Missing(r) \subseteq Companies /\ stale \subseteq Companies
        /\ \A c \in Missing(r) : c \notin stale
        /\ \A c \in stale : tenants[c] \in Services
        /\ service \in [Services -> Service]
        /\ tenants \in [Companies -> Services \cup {NoService}]
    BY DEF IInv, TypeOK, Refresh, Missing, Stale, Hosted
  <1>3. \A i \in Services : Created(i) => ~Off(i)
    <2> SUFFICES ASSUME NEW c \in Missing(r), NEW d \in stale, newService[c] = tenants[d]
                 PROVE  FALSE
      OBVIOUS
    <2>1. service[tenants[d]].of = d /\ d \in Companies
      BY <1>2 DEF IInv, MapTrue, Stale
    <2>2. service[newService[c]] = Unused
      OBVIOUS
    <2> QED BY <2>1, <2>2, HostAssumption DEF Unused
  <1>4. \A c \in Missing(r) : made(newService[c]) = [of |-> c, running |-> TRUE, active |-> TRUE]
    OBVIOUS
  <1>5. \A i \in Services : Created(i) => made(i) \in Service
    BY <1>2, <1>4 DEF Service
  <1>6. \A i \in Services : svc[i] = IF Created(i) THEN made(i)
                                     ELSE IF Off(i) THEN [service[i] EXCEPT !.running = FALSE]
                                     ELSE service[i]
    BY <1>3
  <1>7. svc \in [Services -> Service]
    <2>1. \A i \in Services : [service[i] EXCEPT !.running = FALSE] \in Service
      BY <1>2, SwitchedOff
    <2> HIDE DEF made, Created, Off
    <2>2. \A i \in Services : svc[i] \in Service
      BY <1>2, <1>5, <1>6, <2>1
    <2> QED BY <2>2
  <1>8. map \in [Companies -> Services \cup {NoService}]
    BY <1>2
  <1>9. \A c \in Missing(r) : /\ newService[c] \in Services /\ map[c] = newService[c]
                              /\ svc[newService[c]] = [of |-> c, running |-> TRUE, active |-> TRUE]
    <2> TAKE c \in Missing(r)
    <2>1. newService[c] \in Services /\ Created(newService[c])
      OBVIOUS
    <2> HIDE DEF made, Created, Off, svc
    <2> QED BY <1>2, <1>4, <1>6, <2>1
  <1>10. \A c \in stale :
           /\ svc[tenants[c]] = [service[tenants[c]] EXCEPT !.running = FALSE]
           /\ map[c] = IF service[tenants[c]].active THEN tenants[c] ELSE NoService
    <2> TAKE c \in stale
    <2>1. tenants[c] \in Services /\ Off(tenants[c])
      BY <1>2
    <2>2. svc[tenants[c]] = [service[tenants[c]] EXCEPT !.running = FALSE]
      <3> HIDE DEF made, Created, Off, svc
      <3> QED BY <1>3, <1>6, <2>1
    <2>3. map[c] = IF service[tenants[c]].active THEN tenants[c] ELSE NoService
      BY <1>2
    <2> QED BY <2>2, <2>3
  <1>11. \A i \in Services : svc[i] = service[i] \/ Created(i) \/ Off(i)
    BY <1>6
  <1>12. \A c \in Companies : c \notin Missing(r) /\ c \notin stale => map[c] = tenants[c]
    OBVIOUS
  <1> HIDE DEF map, svc, made, waits
  <1>13. Turn(r, newService, svc)
    BY <1>1, <1>7, <1>8, <1>9, <1>10, <1>11, <1>12 DEF Turn
  <1> QED BY <1>13

-----------------------------------------------------------------------------
(* Each operation preserves the invariant. *)

LEMMA TurnTypes ==
  ASSUME IInv, NEW r \in Refreshes, NEW newService, NEW svc,
         Turn(r, newService, svc), Apply(r, newService)
  PROVE  TypeOK'
  <1>1. service' \in [Services -> Service]
    BY Forgetting DEF Turn
  <1>2. refresh' \in [Refreshes -> Refresh] /\ timer' \in BOOLEAN
    <2> DEFINE waits == {c \in Stale(r) : service[tenants[c]].active}
    <2>1. CASE waits = {}
      BY <2>1, NoRefreshType DEF Apply, Ends, IInv, TypeOK
    <2>2. CASE waits # {}
      <3>1. Awaited(waits) \in SUBSET Services
        BY DEF Awaited, Stale, Hosted, IInv, TypeOK
      <3>2. refresh' = [refresh EXCEPT ![r].pc = "stopping", ![r].stale = Awaited(waits)]
            /\ timer' = timer
        BY <2>2 DEF Apply
      <3> HIDE DEF waits
      <3> QED BY <3>1, <3>2 DEF IInv, TypeOK, Refresh
    <2> QED BY <2>1, <2>2
  <1>3. UNCHANGED <<company, started, stop>>
    BY DEF Apply
  <1> QED BY <1>1, <1>2, <1>3 DEF Turn, IInv, TypeOK

(* The services a turn has created or switched off, by their fields.       *)
LEMMA Touched ==
  ASSUME IInv, NEW r \in Refreshes, NEW newService, NEW svc, Turn(r, newService, svc)
  PROVE  /\ \A c \in Missing(r) : /\ svc[newService[c]].of = c
                                  /\ svc[newService[c]].running
                                  /\ svc[newService[c]].active
         /\ \A c \in Stale(r) : /\ svc[tenants[c]].of = c
                                /\ ~svc[tenants[c]].running
                                /\ svc[tenants[c]].active = service[tenants[c]].active
  <1>1. ASSUME NEW c \in Missing(r)
        PROVE  /\ svc[newService[c]].of = c
               /\ svc[newService[c]].running /\ svc[newService[c]].active
    <2>1. svc[newService[c]] = [of |-> c, running |-> TRUE, active |-> TRUE]
      BY DEF Turn
    <2> QED BY <2>1
  <1>2. ASSUME NEW c \in Stale(r)
        PROVE  /\ svc[tenants[c]].of = c /\ ~svc[tenants[c]].running
               /\ svc[tenants[c]].active = service[tenants[c]].active
    <2>1. svc[tenants[c]] = [service[tenants[c]] EXCEPT !.running = FALSE]
      BY DEF Turn
    <2>2. service[tenants[c]] \in Service /\ service[tenants[c]].of = c
      BY DEF IInv, TypeOK, MapTrue, Stale, Hosted
    <2> QED BY <2>1, <2>2 DEF Service
  <1> QED BY <1>1, <1>2

LEMMA TurnKeeps ==
  ASSUME IInv, NEW r \in Refreshes,
         NEW newService \in [Missing(r) -> {i \in Services : service[i] = Unused}],
         NEW svc, Turn(r, newService, svc), Apply(r, newService)
  PROVE  IInv'
  <1>1. TypeOK'
    BY TurnTypes
  <1>2. /\ Missing(r) \subseteq Companies /\ Stale(r) \subseteq Companies
        /\ \A c \in Missing(r) : c \notin Stale(r) /\ tenants[c] = NoService
        /\ \A c \in Stale(r) : tenants[c] \in Services /\ service[tenants[c]].of = c
        /\ service \in [Services -> Service]
        /\ tenants \in [Companies -> Services \cup {NoService}]
    BY DEF IInv, TypeOK, Refresh, Missing, Stale, Hosted, MapTrue
  <1>3. /\ svc \in [Services -> Service]
        /\ \A i \in Services :
             \/ service'[i] = svc[i]
             \/ /\ service'[i] = Unused /\ ~svc[i].running /\ ~svc[i].active
                /\ \A c \in Companies : tenants'[c] # i
    BY Forgetting DEF Turn
  <1>3a. /\ \A c \in Missing(r) : tenants'[c] = newService[c]
         /\ \A c \in Stale(r) :
             tenants'[c] = IF service[tenants[c]].active THEN tenants[c] ELSE NoService
    BY DEF Turn
  <1>4. MapTrue'
    <2> SUFFICES ASSUME NEW c \in Companies, tenants'[c] # NoService
                 PROVE  service'[tenants'[c]].of = c
      BY DEF MapTrue, Hosted
    <2>1. tenants'[c] \in Services
      BY DEF Turn
    <2>2. service'[tenants'[c]] = svc[tenants'[c]]
      BY <1>3, <2>1
    <2>3. CASE c \in Missing(r)
      BY <1>3a, <2>2, <2>3, Touched
    <2>4. CASE c \in Stale(r)
      BY <1>3a, <2>2, <2>4, Touched
    <2>5. CASE c \notin Missing(r) /\ c \notin Stale(r)
      <3>1. tenants'[c] = tenants[c] /\ service[tenants[c]].of = c
        BY <2>5 DEF Turn, IInv, MapTrue, Hosted
      <3>2. service[tenants[c]] # Unused
        BY <3>1, HostAssumption DEF Unused
      <3>3. svc[tenants[c]] = service[tenants[c]]
        BY <1>2, <2>1, <2>5, <3>1, <3>2 DEF Turn
      <3> QED BY <2>2, <3>1, <3>3
    <2> QED BY <2>3, <2>4, <2>5
  <1>5. ASSUME NEW i \in Services PROVE Owned(i)'
    <2> SUFFICES ASSUME Busy(i)'
                 PROVE  /\ service'[i].of \in Companies
                        /\ stop' = "none" => tenants'[service'[i].of] = i
      BY DEF Owned
    <2>1. service'[i] = svc[i] /\ (svc[i].running \/ svc[i].active)
      BY <1>3 DEF Busy, Unused
    <2>2. ASSUME NEW c \in Missing(r), newService[c] = i
          PROVE  service'[i].of = c /\ tenants'[c] = i
      BY <1>3a, <2>1, <2>2, Touched
    <2>3. ASSUME NEW c \in Stale(r), tenants[c] = i
          PROVE  service'[i].of = c /\ tenants'[c] = i
      BY <1>3a, <2>1, <2>3, Touched
    <2>4. ASSUME svc[i] = service[i],
                 \A c \in Missing(r) : newService[c] # i,
                 \A c \in Stale(r) : tenants[c] # i
          PROVE  /\ service'[i].of \in Companies
                 /\ stop' = "none" => tenants'[service'[i].of] = i
      <3>1. /\ service[i].of \in Companies
            /\ stop = "none" => tenants[service[i].of] = i
        BY <2>1, <2>4 DEF IInv, Owned, Busy
      <3>2. stop' = stop
        BY DEF Apply
      <3>3. ASSUME stop = "none" PROVE tenants'[service[i].of] = i
        BY <1>2, <2>4, <3>1, <3>3, HostAssumption DEF Turn
      <3> QED BY <2>1, <2>4, <3>1, <3>2, <3>3
    <2> QED BY <1>2, <2>2, <2>3, <2>4 DEF Turn
  <1>6. AwaitedAreOff'
    <2> SUFFICES ASSUME NEW q \in Refreshes, NEW i \in refresh'[q].stale
                 PROVE  service'[i].active /\ ~service'[i].running
      BY DEF AwaitedAreOff
    <2>1. i \in Services
      BY <1>1 DEF TypeOK, Refresh
    <2>2. CASE i \in refresh[q].stale
      <3>1. service[i].active /\ ~service[i].running
        BY <2>2 DEF IInv, AwaitedAreOff
      <3>2. svc[i].active /\ ~svc[i].running
        <4>1. ASSUME NEW c \in Missing(r), newService[c] = i PROVE FALSE
          BY <3>1, <4>1 DEF Unused
        <4>2. ASSUME NEW c \in Stale(r), tenants[c] = i
              PROVE  svc[i].active /\ ~svc[i].running
          BY <3>1, <4>2, Touched
        <4> QED BY <2>1, <3>1, <4>1, <4>2 DEF Turn
      <3> QED BY <1>3, <2>1, <3>2
    <2>3. CASE i \notin refresh[q].stale
      <3> DEFINE waits == {c \in Stale(r) : service[tenants[c]].active}
      <3>1. waits # {}
        BY <2>3 DEF Apply, Ends, NoRefresh
      <3>2. refresh' = [refresh EXCEPT ![r].pc = "stopping", ![r].stale = Awaited(waits)]
        BY <3>1 DEF Apply
      <3>3. i \in Awaited(waits)
        <4> HIDE DEF waits
        <4> QED BY <2>3, <3>2 DEF IInv, TypeOK, Refresh
      <3>4. PICK c \in Stale(r) : service[tenants[c]].active /\ tenants[c] = i
        BY <3>3 DEF Awaited
      <3>5. svc[i].active /\ ~svc[i].running
        BY <3>4, Touched
      <3> QED BY <1>3, <2>1, <3>5
    <2> QED BY <2>2, <2>3
  <1> QED BY <1>1, <1>4, <1>5, <1>6 DEF IInv

(* Calls of refreshTenants begin and are answered: no service is touched,  *)
(* and no call awaits more services than before.                           *)
LEMMA QuietKeeps ==
  ASSUME IInv, TypeOK', UNCHANGED <<tenants, service, stop>>,
         \A r \in Refreshes : refresh'[r].stale \subseteq refresh[r].stale
  PROVE  IInv'
  BY DEF IInv, MapTrue, Hosted, Owned, Busy, AwaitedAreOff

LEMMA CallsKeep ==
  ASSUME IInv, NEW r \in Refreshes,
         StartHost(r) \/ TimerFires(r) \/ Answers(r)
  PROVE  IInv'
  <1>1. CASE StartHost(r) \/ TimerFires(r)
    <2>1. /\ UNCHANGED <<company, stop, timer, tenants, service>>
          /\ started' \in BOOLEAN
          /\ \E first \in BOOLEAN : StartRefresh(r, first)
      BY <1>1 DEF StartHost, TimerFires, IInv, TypeOK
    <2>2. PICK first \in BOOLEAN : StartRefresh(r, first)
      BY <2>1
    <2> DEFINE call == [NoRefresh EXCEPT !.pc = "querying", !.first = first]
    <2>3. call \in Refresh /\ call.stale = {}
      BY DEF NoRefresh, Refresh
    <2>4. refresh' = [refresh EXCEPT ![r] = call]
      BY <2>2 DEF StartRefresh
    <2> HIDE DEF call
    <2>5. TypeOK'
      BY <2>1, <2>3, <2>4 DEF IInv, TypeOK
    <2>6. \A q \in Refreshes : refresh'[q].stale \subseteq refresh[q].stale
      BY <2>3, <2>4 DEF IInv, TypeOK
    <2> QED BY <2>1, <2>5, <2>6, QuietKeeps
  <1>2. CASE ReadCompanies(r)
    <2>1. TypeOK'
      BY <1>2 DEF ReadCompanies, IInv, TypeOK, Refresh
    <2>2. \A q \in Refreshes : refresh'[q].stale \subseteq refresh[q].stale
      BY <1>2 DEF ReadCompanies, IInv, TypeOK, Refresh
    <2> QED BY <1>2, <2>1, <2>2, QuietKeeps DEF ReadCompanies
  <1>3. CASE ReadFails(r)
    <2>1. TypeOK'
      BY <1>3, NoRefreshType DEF ReadFails, IInv, TypeOK
    <2>2. \A q \in Refreshes : refresh'[q].stale \subseteq refresh[q].stale
      BY <1>3 DEF ReadFails, NoRefresh, IInv, TypeOK
    <2> QED BY <1>3, <2>1, <2>2, QuietKeeps DEF ReadFails
  <1> QED BY <1>1, <1>2, <1>3 DEF Answers

LEMMA TimerKeeps ==
  ASSUME IInv, NEW i \in Services, ServiceTimer(i)
  PROVE  IInv'
  <1>1. /\ service \in [Services -> Service] /\ service[i].running
        /\ service' = [service EXCEPT ![i].active = TRUE]
        /\ UNCHANGED <<company, started, stop, timer, refresh, tenants>>
    BY DEF ServiceTimer, IInv, TypeOK
  <1>2. \A j \in Services : /\ service'[j].of = service[j].of
                            /\ service'[j].running = service[j].running
                            /\ service[j].active => service'[j].active
                            /\ Busy(j)' => Busy(j)
    BY <1>1 DEF Service, Busy
  <1>3. TypeOK'
    BY <1>1 DEF IInv, TypeOK, Service
  <1>4. MapTrue'
    BY <1>1, <1>2 DEF IInv, TypeOK, MapTrue, Hosted
  <1>5. \A j \in Services : Owned(j)'
    BY <1>1, <1>2 DEF IInv, Owned
  <1>6. AwaitedAreOff'
    BY <1>1, <1>2 DEF IInv, TypeOK, Refresh, AwaitedAreOff
  <1> QED BY <1>3, <1>4, <1>5, <1>6 DEF IInv

(* A run ends: refreshes take the company out of the map only where they   *)
(* have switched the service off, and the map is cleared only by a stop.   *)
LEMMA RunEndKeeps ==
  ASSUME IInv, NEW i \in Services, RunEnds(i)
  PROVE  IInv'
  <1> DEFINE c     == service[i].of
             svc   == [service EXCEPT ![i].active = FALSE]
             goOn  == {r \in Refreshes : i \in refresh[r].stale}
             over  == {r \in goOn : refresh[r].stale = {i}}
             clear == stop = "waiting" /\ ~service[i].running
                      /\ \A d \in Hosted : ~svc[tenants[d]].active \/ svc[tenants[d]].running
             map   == [d \in Companies |->
                         IF clear \/ (d = c /\ goOn # {}) THEN NoService ELSE tenants[d]]
  <1>1. /\ service[i].active
        /\ tenants' = map
        /\ service' = Forget(svc, map)
        /\ refresh' = [r \in Refreshes |->
                         IF r \in over THEN NoRefresh
                         ELSE IF r \in goOn THEN [refresh[r] EXCEPT !.stale = @ \ {i}]
                         ELSE refresh[r]]
        /\ timer' = (timer \/ \E r \in over : refresh[r].first)
        /\ stop' = IF clear THEN "done" ELSE stop
        /\ UNCHANGED <<company, started>>
    BY DEF RunEnds
  <1>2. /\ service \in [Services -> Service]
        /\ refresh \in [Refreshes -> Refresh]
        /\ tenants \in [Companies -> Services \cup {NoService}]
    BY DEF IInv, TypeOK
  <1>3. /\ svc \in [Services -> Service]
        /\ ~svc[i].active /\ svc[i].running = service[i].running
        /\ \A j \in Services : svc[j].of = service[j].of
        /\ \A j \in Services : j # i => svc[j] = service[j]
    BY <1>2 DEF Service
  <1>4. \A d \in Companies : map[d] \in {tenants[d], NoService}
    OBVIOUS
  <1>5. stop' = "none" => /\ stop = "none"
                          /\ \A d \in Companies : d # c \/ goOn = {} => map[d] = tenants[d]
    BY <1>1
  <1>6. \A r \in Refreshes : /\ refresh'[r] \in Refresh
                             /\ refresh'[r].stale = refresh[r].stale \ {i}
    <2> TAKE r \in Refreshes
    <2>1. CASE r \in over
      BY <1>1, <2>1, NoRefreshType DEF NoRefresh
    <2>2. CASE r \in goOn /\ r \notin over
      <3>1. refresh'[r] = [refresh[r] EXCEPT !.stale = @ \ {i}]
        BY <1>1, <2>2
      <3> QED BY <1>2, <3>1 DEF Refresh
    <2>3. CASE r \notin goOn
      BY <1>1, <1>2, <2>3 DEF Refresh
    <2> QED BY <2>1, <2>2, <2>3
  <1>7. goOn # {} => ~service[i].running
    BY DEF IInv, AwaitedAreOff
  <1>8. stop' \in {"none", "waiting", "done"} /\ timer' \in BOOLEAN
    BY <1>1, <1>2 DEF IInv, TypeOK, Refresh
  <1>9. refresh' \in [Refreshes -> Refresh]
    BY <1>1, <1>6
  <1>10. map \in [Companies -> Services \cup {NoService}]
    BY <1>2
  <1> HIDE DEF map, svc, clear, goOn, over
  <1>11. /\ service' \in [Services -> Service]
         /\ \A j \in Services :
              \/ service'[j] = svc[j]
              \/ /\ service'[j] = Unused /\ ~svc[j].running /\ ~svc[j].active
                 /\ \A d \in Companies : tenants'[d] # j
    BY <1>1, <1>3, Forgetting
  <1>12. TypeOK'
    BY <1>1, <1>8, <1>9, <1>10, <1>11 DEF IInv, TypeOK
  <1>13. MapTrue'
    BY <1>1, <1>3, <1>4, <1>10, <1>11 DEF IInv, MapTrue, Hosted
  <1>14. ASSUME NEW j \in Services PROVE Owned(j)'
    <2> SUFFICES ASSUME Busy(j)'
                 PROVE  /\ service'[j].of \in Companies
                        /\ stop' = "none" => tenants'[service'[j].of] = j
      BY DEF Owned
    <2>1. service'[j] = svc[j] /\ (svc[j].running \/ svc[j].active)
      BY <1>11 DEF Busy, Unused
    <2>2. service'[j].of = service[j].of /\ Busy(j) /\ (j = i => goOn = {})
      BY <1>1, <1>3, <1>7, <2>1 DEF Busy
    <2>3. /\ service[j].of \in Companies
          /\ stop = "none" => tenants[service[j].of] = j
      BY <2>2 DEF IInv, Owned
    <2>4. c \in Companies /\ (stop = "none" => tenants[c] = i)
      BY <1>1 DEF IInv, Owned, Busy
    <2> QED BY <1>1, <1>5, <2>2, <2>3, <2>4
  <1>15. AwaitedAreOff'
    <2> SUFFICES ASSUME NEW r \in Refreshes, NEW j \in refresh'[r].stale
                 PROVE  service'[j].active /\ ~service'[j].running
      BY DEF AwaitedAreOff
    <2>1. j \in refresh[r].stale /\ j # i
      BY <1>6
    <2>2. j \in Services /\ service[j].active /\ ~service[j].running
      BY <1>2, <2>1 DEF IInv, AwaitedAreOff, Refresh
    <2> QED BY <1>3, <1>11, <2>1, <2>2
  <1> QED BY <1>12, <1>13, <1>14, <1>15 DEF IInv

(* stop switches the services in the map off and, unless one of them has a *)
(* run to end, clears the map.                                             *)
SwitchOff(svc) ==
  /\ svc \in [Services -> Service]
  /\ \A i \in Services : /\ svc[i].of = service[i].of
                         /\ svc[i].active => service[i].active
                         /\ service[i].active => svc[i].active
                         /\ svc[i].running => service[i].running
  /\ service' = Forget(svc, tenants')
  /\ tenants' \in [Companies -> Services \cup {NoService}]
  /\ \A c \in Companies : tenants'[c] \in {tenants[c], NoService}
  /\ stop' \in {"waiting", "done"}
  /\ UNCHANGED <<company, refresh>>

LEMMA StopSwitches ==
  ASSUME IInv, StopHost
  PROVE  \E svc : SwitchOff(svc)
  <1> DEFINE waits == \E c \in Hosted : service[tenants[c]].active
             map   == IF waits THEN tenants ELSE [c \in Companies |-> NoService]
             svc   == [i \in Services |-> IF i \in {tenants[c] : c \in Companies}
                                          THEN [service[i] EXCEPT !.running = FALSE]
                                          ELSE service[i]]
  <1>1. /\ tenants' = map
        /\ service' = Forget(svc, map)
        /\ stop' = IF waits THEN "waiting" ELSE "done"
        /\ UNCHANGED <<company, refresh>>
    BY DEF StopHost
  <1>2. /\ service \in [Services -> Service]
        /\ tenants \in [Companies -> Services \cup {NoService}]
    BY DEF IInv, TypeOK
  <1>3. ASSUME NEW i \in Services
        PROVE  /\ svc[i] \in Service
               /\ svc[i].of = service[i].of
               /\ svc[i].active => service[i].active
               /\ service[i].active => svc[i].active
               /\ svc[i].running => service[i].running
    <2>1. CASE i \in {tenants[c] : c \in Companies}
      <3>1. svc[i] = [service[i] EXCEPT !.running = FALSE]
        BY <2>1
      <3> HIDE DEF svc
      <3> QED BY <1>2, <3>1 DEF Service
    <2>2. CASE i \notin {tenants[c] : c \in Companies}
      <3>1. svc[i] = service[i]
        BY <2>2
      <3> HIDE DEF svc
      <3> QED BY <1>2, <3>1
    <2> QED BY <2>1, <2>2
  <1>4. svc \in [Services -> Service]
    BY <1>3
  <1>5. /\ map \in [Companies -> Services \cup {NoService}]
        /\ \A c \in Companies : map[c] \in {tenants[c], NoService}
    BY <1>2
  <1> HIDE DEF svc, map, waits
  <1>6. SwitchOff(svc)
    BY <1>1, <1>3, <1>4, <1>5 DEF SwitchOff
  <1> QED BY <1>6

LEMMA StopKeeps ==
  ASSUME IInv, StopHost
  PROVE  IInv'
  <1>1. PICK svc : SwitchOff(svc)
    BY StopSwitches
  <1>2. tenants \in [Companies -> Services \cup {NoService}]
    BY DEF IInv, TypeOK
  <1>3. /\ svc \in [Services -> Service]
        /\ \A i \in Services : /\ svc[i].of = service[i].of
                               /\ svc[i].active => service[i].active
                               /\ service[i].active => svc[i].active
                               /\ svc[i].running => service[i].running
    BY <1>1 DEF SwitchOff
  <1>4. /\ tenants' \in [Companies -> Services \cup {NoService}]
        /\ \A c \in Companies : tenants'[c] \in {tenants[c], NoService}
    BY <1>1 DEF SwitchOff
  <1>5. stop' \in {"waiting", "done"} /\ refresh' = refresh /\ company' = company
    BY <1>1 DEF SwitchOff
  <1>6. /\ service' \in [Services -> Service]
        /\ \A i \in Services :
             \/ service'[i] = svc[i]
             \/ /\ service'[i] = Unused /\ ~svc[i].running /\ ~svc[i].active
                /\ \A c \in Companies : tenants'[c] # i
    BY <1>1, Forgetting DEF SwitchOff
  <1>7. TypeOK'
    BY <1>4, <1>5, <1>6 DEF StopHost, IInv, TypeOK
  <1>8. MapTrue'
    <2> SUFFICES ASSUME NEW c \in Companies, tenants'[c] # NoService
                 PROVE  service'[tenants'[c]].of = c
      BY DEF MapTrue, Hosted
    <2>1. tenants'[c] = tenants[c] /\ tenants[c] \in Services
      BY <1>2, <1>4
    <2>2. service[tenants[c]].of = c
      BY <2>1 DEF IInv, MapTrue, Hosted
    <2>3. service'[tenants[c]] = svc[tenants[c]]
      BY <1>6, <2>1
    <2> QED BY <1>3, <2>1, <2>2, <2>3
  <1>9. ASSUME NEW i \in Services PROVE Owned(i)'
    <2> SUFFICES ASSUME Busy(i)' PROVE service'[i].of \in Companies
      BY <1>5 DEF Owned
    <2>1. service'[i] = svc[i]
      BY <1>6 DEF Busy, Unused
    <2>2. Busy(i)
      BY <1>3, <2>1 DEF Busy
    <2> QED BY <1>3, <2>1, <2>2 DEF IInv, Owned
  <1>10. AwaitedAreOff'
    <2> SUFFICES ASSUME NEW r \in Refreshes, NEW i \in refresh[r].stale
                 PROVE  service'[i].active /\ ~service'[i].running
      BY <1>5 DEF AwaitedAreOff
    <2>1. i \in Services /\ service[i].active /\ ~service[i].running
      BY DEF IInv, TypeOK, Refresh, AwaitedAreOff
    <2>2. svc[i].active /\ ~svc[i].running
      BY <1>3, <2>1
    <2>3. service'[i] = svc[i]
      BY <1>6, <2>1, <2>2
    <2> QED BY <2>2, <2>3
  <1> QED BY <1>7, <1>8, <1>9, <1>10 DEF IInv

LEMMA Initially == Init => IInv
  <1> SUFFICES ASSUME Init PROVE IInv
    OBVIOUS
  <1>1. TypeOK
    BY NoRefreshType DEF Init, TypeOK, Unused, Service
  <1>2. MapTrue /\ (\A i \in Services : Owned(i)) /\ AwaitedAreOff
    BY DEF Init, MapTrue, Hosted, Owned, Busy, AwaitedAreOff, Unused, NoRefresh
  <1> QED BY <1>1, <1>2 DEF IInv

LEMMA Inductive == IInv /\ [Next]_vars => IInv'
  <1> SUFFICES ASSUME IInv, [Next]_vars PROVE IInv'
    OBVIOUS
  <1>1. ASSUME NEW r \in Refreshes, ApplyRefresh(r) PROVE IInv'
    <2>1. PICK newService \in [Missing(r) -> {i \in Services : service[i] = Unused}] :
            /\ \A c, d \in Missing(r) : newService[c] = newService[d] => c = d
            /\ Apply(r, newService)
      BY <1>1 DEF ApplyRefresh
    <2>2. PICK svc : Turn(r, newService, svc)
      BY <2>1, Turns
    <2> QED BY <2>1, <2>2, TurnKeeps
  <1>2. CASE CompaniesChange \/ UNCHANGED vars
    <2>1. TypeOK' /\ UNCHANGED <<tenants, service, stop, refresh>>
      BY <1>2 DEF CompaniesChange, vars, IInv, TypeOK
    <2> QED BY <2>1, QuietKeeps
  <1> QED BY <1>1, <1>2, CallsKeep, TimerKeeps, RunEndKeeps, StopKeeps DEF Next

(* Types: calls of refreshTenants, the map and the services keep their     *)
(* shape, with overlapping refreshes and services that come and go.        *)
THEOREM TypeCorrect == Spec => []TypeOK
  <1>1. IInv => TypeOK
    BY DEF IInv
  <1> QED BY <1>1, Initially, Inductive, PTL DEF Spec

(* Until the host is stopped a company has one executive at most: only the *)
(* service in the map has its timer or a run, however many refreshes with  *)
(* older and newer lists overlap.                                          *)
THEOREM OneExecutive == Spec => []OneExecutivePerCompany
  <1>1. IInv => OneExecutivePerCompany
    BY DEF IInv, Owned, Busy, OneExecutivePerCompany
  <1> QED BY <1>1, Initially, Inductive, PTL DEF Spec
=============================================================================
