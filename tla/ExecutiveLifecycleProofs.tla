---------------------- MODULE ExecutiveLifecycleProofs ----------------------
(***************************************************************************)
(* Theorems about ExecutiveLifecycle for any number of runtimes, when the  *)
(* starts of one runtime do not overlap. With overlapping starts they are  *)
(* false: the run SingletonLost shows how.                                 *)
(***************************************************************************)
EXTENDS ExecutiveLifecycle, TLAPS

OneStartAtATime == \A c, d \in Calls : c = d

(* The inductive invariant: the three books that are kept about the lease, *)
(* the state, ownsLease and the lease itself, agree; the service runs only *)
(* while they say so; and a start under way finds the runtime STARTING, or *)
(* STOPPED by a stop that did not end the start.                           *)
Serving(r) == state[r] \in {"READY", "DEGRADED"}
Owner(r) == state[r] \in {"READY", "DEGRADED", "STOPPING"}

BooksAgree(r) ==
  /\ ownsLease[r] <=> Owner(r)
  /\ lease = r <=> Owner(r)
  /\ service[r].running <=> Serving(r)
  /\ service[r].active => Owner(r)
  /\ \A c \in Calls : starting[r][c] # "none" => state[r] \in {"STARTING", "STOPPED"}

IInv == TypeOK /\ \A r \in Runtimes : BooksAgree(r)

-----------------------------------------------------------------------------
LEMMA TypeStep == TypeOK /\ [Next]_vars => TypeOK'
  <1> SUFFICES ASSUME TypeOK, [Next]_vars PROVE TypeOK'
    OBVIOUS
  <1> USE DEF TypeOK, Service, State
  <1>1. ASSUME NEW r \in Runtimes, TimerFires(r) PROVE TypeOK'
    BY <1>1 DEF TimerFires
  <1>2. ASSUME NEW r \in Runtimes, RunEnds(r) PROVE TypeOK'
    BY <1>2 DEF RunEnds, Stopped, Release
  <1>3. ASSUME NEW r \in Runtimes, StopCalled(r) PROVE TypeOK'
    BY <1>3 DEF StopCalled, Stopped, Release
  <1>4. ASSUME NEW r \in Runtimes, NEW c \in Calls, StartCalled(r, c) PROVE TypeOK'
    BY <1>4 DEF StartCalled, Start
  <1>5. ASSUME NEW r \in Runtimes, NEW c \in Calls, CheckThrows(r, c) PROVE TypeOK'
    BY <1>5 DEF CheckThrows, Release, Start
  <1>6. ASSUME NEW r \in Runtimes, NEW c \in Calls, NEW worst \in Dependencies,
               Checked(r, c, worst)
        PROVE  TypeOK'
    BY <1>6 DEF Checked, Dependencies, Start
  <1>7. ASSUME NEW r \in Runtimes, NEW c \in Calls, Acquire(r, c) PROVE TypeOK'
    BY <1>7 DEF Acquire, ServiceStarts, Start
  <1>8. ASSUME NEW r \in Runtimes, NEW c \in Calls, AcquireRefused(r, c) PROVE TypeOK'
    BY <1>8 DEF AcquireRefused, Start
  <1>9. CASE UNCHANGED vars
    BY <1>9 DEF vars
  <1> QED BY <1>1, <1>2, <1>3, <1>4, <1>5, <1>6, <1>7, <1>8, <1>9 DEF Next

(* Types: states, calls, the lease and services keep their shape, also     *)
(* when starts overlap.                                                    *)
THEOREM TypeCorrect == Spec => []TypeOK
  <1>1. Init => TypeOK
    BY DEF Init, TypeOK, State, Start, Service
  <1> QED BY <1>1, TypeStep, PTL DEF Spec

-----------------------------------------------------------------------------
LEMMA Initially == Init => IInv
  <1> SUFFICES ASSUME Init PROVE IInv
    OBVIOUS
  <1>1. TypeOK
    BY DEF Init, TypeOK, State, Start, Service
  <1>2. ASSUME NEW r \in Runtimes PROVE BooksAgree(r)
    BY LifecycleAssumption DEF Init, BooksAgree, Serving, Owner
  <1> QED BY <1>1, <1>2 DEF IInv

(* A step of one runtime leaves the books of the others as they are, except*)
(* for the lease, which only passes between a runtime and nobody.          *)
LEMMA OthersKeep ==
  ASSUME TypeOK, NEW r \in Runtimes, NEW q \in Runtimes, q # r, BooksAgree(q),
         state'[q] = state[q], ownsLease'[q] = ownsLease[q],
         service'[q] = service[q],
         \A c \in Calls : starting'[q][c] = starting[q][c],
         \/ lease' = lease
         \/ lease' = r /\ lease \in {NoOwner, r}
         \/ lease' = NoOwner /\ lease = r
  PROVE  BooksAgree(q)'
  BY LifecycleAssumption DEF BooksAgree, Serving, Owner

LEMMA ServiceSteps ==
  ASSUME IInv, NEW r \in Runtimes, TimerFires(r) \/ RunEnds(r) \/ StopCalled(r)
  PROVE  \A q \in Runtimes : BooksAgree(q)'
  <1> USE DEF IInv
  <1>1. BooksAgree(r)
    OBVIOUS
  <1>2. CASE TimerFires(r)
    <2>1. BooksAgree(r)'
      BY <1>1, <1>2 DEF TimerFires, BooksAgree, Serving, Owner, TypeOK, Service
    <2>2. ASSUME NEW q \in Runtimes, q # r PROVE BooksAgree(q)'
      BY <1>2, <2>2, OthersKeep, LifecycleAssumption DEF TimerFires, TypeOK
    <2> QED BY <2>1, <2>2
  <1>3. CASE RunEnds(r)
    <2>1. BooksAgree(r)'
      BY <1>1, <1>3, LifecycleAssumption
      DEF RunEnds, Stopped, Release, BooksAgree, Serving, Owner, TypeOK, Service
    <2>2. ASSUME NEW q \in Runtimes, q # r PROVE BooksAgree(q)'
      BY <1>3, <2>2, OthersKeep, LifecycleAssumption DEF RunEnds, Stopped, Release, TypeOK
    <2> QED BY <2>1, <2>2
  <1>4. CASE StopCalled(r)
    <2>1. BooksAgree(r)'
      BY <1>1, <1>4, LifecycleAssumption
      DEF StopCalled, Stopped, Release, BooksAgree, Serving, Owner, TypeOK, Service
    <2>2. ASSUME NEW q \in Runtimes, q # r PROVE BooksAgree(q)'
      BY <1>4, <2>2, OthersKeep, LifecycleAssumption DEF StopCalled, Stopped, Release, TypeOK
    <2> QED BY <2>1, <2>2
  <1> QED BY <1>2, <1>3, <1>4

LEMMA StartSteps ==
  ASSUME OneStartAtATime, IInv, NEW r \in Runtimes, NEW c \in Calls,
         \/ StartCalled(r, c) \/ CheckThrows(r, c)
         \/ \E worst \in Dependencies : Checked(r, c, worst)
         \/ Acquire(r, c) \/ AcquireRefused(r, c)
  PROVE  \A q \in Runtimes : BooksAgree(q)'
  <1> USE DEF IInv
  <1>1. BooksAgree(r) /\ Calls = {c}
    BY DEF OneStartAtATime
  <1>2. CASE StartCalled(r, c)
    <2>1. BooksAgree(r)'
      BY <1>1, <1>2 DEF StartCalled, BooksAgree, Serving, Owner, TypeOK
    <2>2. ASSUME NEW q \in Runtimes, q # r PROVE BooksAgree(q)'
      BY <1>2, <2>2, OthersKeep, LifecycleAssumption DEF StartCalled, TypeOK
    <2> QED BY <2>1, <2>2
  <1>3. CASE CheckThrows(r, c)
    <2>1. BooksAgree(r)'
      BY <1>1, <1>3, LifecycleAssumption
      DEF CheckThrows, Release, BooksAgree, Serving, Owner, TypeOK
    <2>2. ASSUME NEW q \in Runtimes, q # r PROVE BooksAgree(q)'
      BY <1>3, <2>2, OthersKeep, LifecycleAssumption DEF CheckThrows, Release, TypeOK
    <2> QED BY <2>1, <2>2
  <1>4. CASE \E worst \in Dependencies : Checked(r, c, worst)
    <2> PICK worst \in Dependencies : Checked(r, c, worst)
      BY <1>4
    <2>1. BooksAgree(r)'
      BY <1>1 DEF Checked, BooksAgree, Serving, Owner, TypeOK
    <2>2. ASSUME NEW q \in Runtimes, q # r PROVE BooksAgree(q)'
      BY <2>2, OthersKeep, LifecycleAssumption DEF Checked, TypeOK
    <2> QED BY <2>1, <2>2
  <1>5. CASE Acquire(r, c)
    <2>1. BooksAgree(r)'
      BY <1>1, <1>5 DEF Acquire, ServiceStarts, BooksAgree, Serving, Owner, TypeOK
    <2>2. ASSUME NEW q \in Runtimes, q # r PROVE BooksAgree(q)'
      BY <1>5, <2>2, OthersKeep, LifecycleAssumption DEF Acquire, ServiceStarts, TypeOK
    <2> QED BY <2>1, <2>2
  <1>6. CASE AcquireRefused(r, c)
    <2>1. BooksAgree(r)'
      BY <1>1, <1>6 DEF AcquireRefused, BooksAgree, Serving, Owner, TypeOK
    <2>2. ASSUME NEW q \in Runtimes, q # r PROVE BooksAgree(q)'
      BY <1>6, <2>2, OthersKeep, LifecycleAssumption DEF AcquireRefused, TypeOK
    <2> QED BY <2>1, <2>2
  <1> QED BY <1>2, <1>3, <1>4, <1>5, <1>6

LEMMA Inductive == OneStartAtATime /\ IInv /\ [Next]_vars => IInv'
  <1> SUFFICES ASSUME OneStartAtATime, IInv, [Next]_vars PROVE IInv'
    OBVIOUS
  <1>1. TypeOK'
    BY TypeStep DEF IInv
  <1>2. \A q \in Runtimes : BooksAgree(q)'
    <2>1. CASE UNCHANGED vars
      BY <2>1 DEF vars, IInv, BooksAgree, Serving, Owner
    <2>2. CASE Next
      BY <2>2, ServiceSteps, StartSteps DEF Next
    <2> QED BY <2>1, <2>2
  <1> QED BY <1>1, <1>2 DEF IInv

LEMMA Implied == IInv => RunsUnderLease /\ HealthIsTrue
  BY DEF IInv, BooksAgree, Serving, Owner, RunsUnderLease, HealthIsTrue, TypeOK, Service

-----------------------------------------------------------------------------
(* Whoever has its timer or a run under way owns the lease: no two         *)
(* executives run at once, and the lease goes back after the last run.     *)
THEOREM RunningOwnsLease ==
  ASSUME OneStartAtATime PROVE Spec => []RunsUnderLease
  BY Initially, Inductive, Implied, PTL DEF Spec

(* READY and DEGRADED mean that the service is on and the lease owned,     *)
(* STOPPED and FAILED that nothing runs.                                   *)
THEOREM HealthTellsTruth ==
  ASSUME OneStartAtATime PROVE Spec => []HealthIsTrue
  BY Initially, Inductive, Implied, PTL DEF Spec
=============================================================================
