------------------------ MODULE ExecutiveLoopProofs ------------------------
(***************************************************************************)
(* Theorems about ExecutiveLoop, for any number of processes, intents and  *)
(* plans: what the checkpoint and the memory say was done was done and is  *)
(* not done again, the checkpoint is not lost, and only permitted plans    *)
(* become workflows.  The steps of the runtime inside a run are steps of   *)
(* V6Runtime, whose invariants (V6RuntimeProofs) hold here too.            *)
(***************************************************************************)
EXTENDS ExecutiveLoop, V6RuntimeProofs

(* What V6RuntimeProofs shows of types, ownership, effects and records.    *)
V6Inv == TypeInv /\ OwnInv /\ EffectInv /\ ActedInv

(* The steps that had an effect, and those whose row is failed for good.   *)
Effected == {s \in Steps : provider[s].effects > 0}
Closed == {s \in Steps : queue[s].status = "FAILED" /\ ~Held(s)}

(* Both sets only grow, and a step of theirs is not called again.          *)
Growth ==
  /\ Effected \subseteq Effected' /\ Closed \subseteq Closed'
  /\ \A s \in Quick \cap (Effected \cup Closed) : provider'[s].calls = provider[s].calls
-----------------------------------------------------------------------------
(* The runtime *)

LEMMA V6Init == Init => V6Inv
  BY TypeInit, OwnInit, EffectInit, ActedInit DEF V6Inv

LEMMA ClosedStays == ASSUME V6Inv, [Next]_vars PROVE Closed \subseteq Closed'
  <1> SUFFICES ASSUME NEW s \in Steps, queue[s].status = "FAILED", ~Held(s)
               PROVE  queue'[s].status = "FAILED" /\ ~Held(s)'
    BY DEF Closed
  <1>0. TypeInv /\ proc \in [Procs -> ShapedCycle] /\ queue \in [Steps -> QueueRow]
    BY DEF V6Inv, TypeInv, TypeOK
  <1>1. \A q \in Procs : ~Holds(q, s)
    BY DEF Held
  <1>2. ASSUME queue'[s].status = queue[s].status, \A q \in Procs : Holds(q, s)' => Holds(q, s)
        PROVE  queue'[s].status = "FAILED" /\ ~Held(s)'
    BY <1>1, <1>2 DEF Held
  <1>3. ASSUME NEW p \in Procs, KeepStep(p)
        PROVE  queue'[s].status = queue[s].status /\ \A q \in Procs : Holds(q, s)' => Holds(q, s)
    BY <1>0, <1>3, KeepSteps DEF KeepsHold, Holds
  <1>4. ASSUME NEW p \in Procs, ReleaseStep(p)
        PROVE  queue'[s].status = queue[s].status /\ \A q \in Procs : Holds(q, s)' => Holds(q, s)
    BY <1>0, <1>1, <1>4, ReleaseSteps DEF Releases, Holds
  <1>5. ASSUME NEW p \in Procs, RecoverStaleClaims(p)
        PROVE  queue'[s].status = queue[s].status /\ \A q \in Procs : Holds(q, s)' => Holds(q, s)
    BY <1>0, <1>5 DEF RecoverStaleClaims, RecoverRows, StaleClaims, Holds, HoldingPC, ShapedCycle, Cycle
  <1>6. ASSUME NEW p \in Procs, ScheduleStep(p)
        PROVE  queue'[s].status = queue[s].status /\ \A q \in Procs : Holds(q, s)' => Holds(q, s)
    <2>1. proc[p].row # s /\ queue'[s] = queue[s]
      BY <1>0, <1>6 DEF ScheduleStep, Enqueue
    <2> QED BY <1>0, <1>6, <2>1 DEF ScheduleStep, Holds, HoldingPC, ShapedCycle, Cycle
  <1>7. ASSUME NEW p \in Procs, ClaimNext(p)
        PROVE  queue'[s].status = queue[s].status /\ \A q \in Procs : Holds(q, s)' => Holds(q, s)
    <2>1. proc[p].row # s /\ queue'[s] = queue[s]
      BY <1>0, <1>7 DEF ClaimNext, ClaimRow, Claimable
    <2> QED BY <1>0, <1>7, <2>1 DEF ClaimNext, Holds, ShapedCycle, Cycle
  <1>8. ASSUME NEW r \in Steps, TimePasses(r) \/ ClaimOutlived(r)
        PROVE  queue'[s].status = queue[s].status /\ \A q \in Procs : Holds(q, s)' => Holds(q, s)
    BY <1>0, <1>8 DEF TimePasses, ClaimOutlived, Holds
  <1>9. CASE UNCHANGED vars
    BY <1>2, <1>9 DEF vars, Holds
  <1> QED
    BY <1>2, <1>3, <1>4, <1>5, <1>6, <1>7, <1>8, <1>9 DEF Next, CycleStep, KeepStep, ReleaseStep

(* A call is made by a process that holds the step, of a step without an   *)
(* effect.                                                                 *)
LEMMA RuntimeMoves == V6Inv /\ [Next]_vars => V6Inv' /\ Growth
  <1> SUFFICES ASSUME V6Inv, [Next]_vars PROVE V6Inv' /\ Growth
    OBVIOUS
  <1>1. V6Inv'
    BY TypeStep, OwnStep, EffectStep, ActedStep DEF V6Inv
  <1>2. TypeInv /\ provider \in [Steps -> ProviderRow] /\ proc \in [Procs -> ShapedCycle]
    BY DEF V6Inv, TypeInv, TypeOK
  <1>3. CASE UNCHANGED provider
    BY <1>1, <1>3, ClosedStays DEF Growth, Effected
  <1>4. ASSUME NEW p \in Procs, NEW acted \in BOOLEAN, NEW confirmed \in BOOLEAN, At(p, "dispatch"),
               Called(proc[p].step, acted, confirmed)
        PROVE  Growth
    <2>1. proc[p].step \in Steps /\ Holds(p, proc[p].step) /\ Held(proc[p].step)
      BY <1>2, <1>4 DEF At, Holds, Held, HoldingPC, ShapedCycle, CycleShape
    <2>2. proc[p].step \in Quick => provider[proc[p].step].effects = 0
      BY <1>4 DEF V6Inv, EffectInv, CycleEffect
    <2>3. \A s \in Steps : /\ provider[s].effects > 0 => provider'[s].effects > 0
                           /\ s # proc[p].step => provider'[s].calls = provider[s].calls
      BY <1>2, <1>4, <2>1 DEF Called, ProviderRow
    <2>4. proc[p].step \in Quick => proc[p].step \notin Effected \cup Closed
      BY <2>1, <2>2 DEF Effected, Closed
    <2> QED BY <2>3, <2>4, ClosedStays DEF Growth, Effected, Quick
  <1> QED BY <1>1, <1>2, <1>3, <1>4, ProviderSteps

(* What the executive does to the runtime's tables: it queues a step that  *)
(* has no row, it writes a workflow, and it may be interrupted.            *)
LEMMA OutsideMoves ==
  ASSUME V6Inv, UNCHANGED <<ledger, proc, provider>>,
         UNCHANGED queue \/ \E s \in Steps : Enqueue(s),
         store' \in [Workflows -> Workflow], faults' \in 0..MaxFaults
  PROVE  V6Inv' /\ Growth
  <1>1. /\ queue \in [Steps -> QueueRow] /\ queue' \in [Steps -> QueueRow]
        /\ \A s \in Steps : \/ queue'[s] = queue[s]
                            \/ queue[s].status = "ABSENT" /\ queue'[s].status = "QUEUED"
    BY QueueType DEF V6Inv, TypeInv, TypeOK, Enqueue
  <1>2. TypeInv'
    BY <1>1 DEF V6Inv, TypeInv, TypeOK
  <1>3. OwnInv'
    BY <1>1 DEF V6Inv, OwnInv, HeldRowsClaimed, ClaimExclusive, Holds, Quick
  <1>4. EffectInv'
    BY DEF V6Inv, EffectInv, LedgerRemembers, CycleEffect, At
  <1>5. ActedInv'
    BY <1>1 DEF V6Inv, ActedInv, Claims
  <1>6. Growth
    BY <1>1 DEF Growth, Effected, Closed, Held, Holds, Quick
  <1> QED BY <1>2, <1>3, <1>4, <1>5, <1>6 DEF V6Inv
-----------------------------------------------------------------------------
(* Runs *)

Busy(run) == run.pc \in {"lookup", "create", "continue", "queue", "schedule"}

(* What a run has to do and has done is permitted.                         *)
Permitted(run) ==
  /\ Busy(run) => /\ run.key \in Keys /\ ~run.paused
                  /\ RuleOf[PlanOf[run.key]] = "AUTONOMOUS"
  /\ ~Busy(run) => run.key = NoKey
  /\ run.paused => run.submitted = {}
  /\ \A k \in run.todo : \/ RuleOf[PlanOf[k]] = "none"
                         \/ ~run.paused /\ RuleOf[PlanOf[k]] = "AUTONOMOUS"

Listed(run) == run.completed \cup run.ended

(* What a run takes for done or ended is so: E had an effect, C is closed. *)
Proven(run, E, C) ==
  /\ \A k \in run.handled : StepsOf(PlanOf[k]) \cap E # {}
  /\ run.completed \subseteq E
  /\ run.ended \cap Quick \subseteq E \cup C
  /\ run.pc = "remember" => \A w \in run.torun : StepsOf(w) \cap Listed(run) # {}

(* A run that is not shared is alone, and its copy holds the checkpoint.   *)
Alone(l) ==
  Active(l) /\ ~loop[l].shared =>
    /\ \A m \in Procs \ {l} : ~Active(m)
    /\ ~LoopAt(l, "load") => checkpoint \subseteq loop[l].handled

Founded == \A w \in created : RuleOf[w] = "AUTONOMOUS"

(* So is what the runs have written.                                       *)
Written(keys, outcomes, E, C) ==
  /\ \A k \in keys : StepsOf(PlanOf[k]) \cap E # {}
  /\ \A w \in Workflows :
       /\ outcomes[w] = "success" => StepsOf(w) \cap E # {}
       /\ outcomes[w] = "failure" => StepsOf(w) \cap Quick \subseteq E \cup C

IInv ==
  /\ LoopTypeOK /\ V6Inv /\ Founded
  /\ Written(checkpoint, memory, Effected, Closed)
  /\ \A l \in Procs : Permitted(loop[l]) /\ Proven(loop[l], Effected, Closed) /\ Alone(l)

LEMMA ProvenStays ==
  ASSUME Growth, NEW run, Proven(run, Effected, Closed) PROVE Proven(run, Effected', Closed')
  BY DEF Growth, Proven

LEMMA WrittenStays ==
  ASSUME Growth, NEW keys, NEW outcomes, Written(keys, outcomes, Effected, Closed)
  PROVE  Written(keys, outcomes, Effected', Closed')
  BY DEF Growth, Written

(* A step moves a run to another record, which may be a finished run.      *)
Moves(l, run) ==
  /\ run \in Run /\ Goes(l, run)
  /\ Permitted(run) /\ Proven(run, Effected', Closed')
  /\ run.pc = "idle"
       \/ /\ run.pc # "load" /\ (run.shared <=> loop[l].shared)
          /\ LoopAt(l, "load") => checkpoint \subseteq run.handled
          /\ loop[l].handled \subseteq run.handled \/ LoopAt(l, "load")

LEMMA NoRunFits ==
  /\ NoRun \in Run /\ Permitted(NoRun) /\ NoRun.pc = "idle"
  /\ \A E, C : Proven(NoRun, E, C)
  BY ExecutiveLoopAssumption DEF NoRun, Run, RunPC, Permitted, Busy, Proven, Listed

LEMMA EndMoves == ASSUME NEW l \in Procs, Goes(l, NoRun) PROVE Moves(l, NoRun)
  BY NoRunFits DEF Moves
-----------------------------------------------------------------------------
(* The steps of a run, in the order of a cycle *)

LEMMA LoadMoves ==
  ASSUME IInv, Growth, NEW l \in Procs, LoadCheckpoint(l) PROVE \E run : Moves(l, run)
  <1> DEFINE run == [loop[l] EXCEPT !.pc = "observe", !.handled = checkpoint]
  <1>1. /\ loop[l] \in Run /\ Permitted(loop[l]) /\ Proven(loop[l], Effected, Closed)
        /\ checkpoint \subseteq Keys /\ loop[l].pc = "load"
    BY DEF IInv, LoopTypeOK, LoadCheckpoint, LoopAt
  <1>2. run \in Run
    BY <1>1 DEF Run, RunPC
  <1>3. /\ run.pc = "observe" /\ run.handled = checkpoint /\ run.paused = loop[l].paused
        /\ run.todo = loop[l].todo /\ run.key = loop[l].key /\ run.submitted = loop[l].submitted
        /\ run.completed = loop[l].completed /\ run.ended = loop[l].ended
        /\ run.shared = loop[l].shared
    BY <1>1 DEF Run
  <1>4. Goes(l, run)
    BY DEF LoadCheckpoint
  <1> HIDE DEF run
  <1>5. Permitted(run) /\ Proven(run, Effected, Closed)
    BY <1>1, <1>3 DEF Permitted, Busy, Proven, IInv, Written
  <1>6. Proven(run, Effected', Closed')
    BY <1>5, ProvenStays
  <1> QED BY <1>1, <1>2, <1>3, <1>4, <1>5, <1>6 DEF Moves, LoopAt

LEMMA ObserveMoves ==
  ASSUME IInv, Growth, NEW l \in Procs, Observe(l) PROVE \E run : Moves(l, run)
  <1> DEFINE paused == Pauses(open, waiting)
             todo == ToDo(open \ loop[l].handled, paused)
             run == [loop[l] EXCEPT !.pc = "cycle", !.paused = paused, !.submitted = {},
                                    !.completed = {}, !.ended = {}, !.todo = todo]
  <1>1. /\ loop[l] \in Run /\ Permitted(loop[l]) /\ Proven(loop[l], Effected, Closed)
        /\ open \subseteq Keys /\ loop[l].pc = "observe"
    BY DEF IInv, LoopTypeOK, Observable, Observe, LoopAt
  <1>2. paused \in BOOLEAN
    BY DEF Pauses
  <1>3. todo \subseteq Keys
        /\ \A k \in todo : \/ RuleOf[PlanOf[k]] = "none"
                           \/ ~paused /\ RuleOf[PlanOf[k]] = "AUTONOMOUS"
    BY <1>1 DEF ToDo, Unplannable, Decision
  <1>4. Goes(l, run)
    BY DEF Observe
  <1> HIDE DEF paused, todo
  <1>5. run \in Run
    BY <1>1, <1>2, <1>3 DEF Run, RunPC
  <1>6. /\ run.pc = "cycle" /\ run.handled = loop[l].handled /\ run.paused = paused
        /\ run.todo = todo /\ run.key = loop[l].key /\ run.submitted = {}
        /\ run.completed = {} /\ run.ended = {} /\ run.shared = loop[l].shared
    BY <1>1 DEF Run
  <1> HIDE DEF run
  <1>7. Permitted(run) /\ Proven(run, Effected, Closed)
    BY <1>1, <1>3, <1>6 DEF Permitted, Busy, Proven
  <1>8. Proven(run, Effected', Closed')
    BY <1>7, ProvenStays
  <1> QED BY <1>1, <1>4, <1>5, <1>6, <1>7, <1>8 DEF Moves, LoopAt

LEMMA IntentMoves ==
  ASSUME IInv, Growth, NEW l \in Procs, NextIntent(l) PROVE \E run : Moves(l, run)
  <1>1. /\ loop[l] \in Run /\ Permitted(loop[l]) /\ Proven(loop[l], Effected, Closed)
        /\ loop[l].pc = "cycle"
    BY DEF IInv, LoopTypeOK, NextIntent, LoopAt
  <1>2. PICK k \in loop[l].todo :
          Goes(l, IF Unplannable(PlanOf[k]) THEN NoRun
                  ELSE [loop[l] EXCEPT !.todo = @ \ {k}, !.pc = "lookup", !.key = k])
    BY DEF NextIntent
  <1> DEFINE run == [loop[l] EXCEPT !.todo = @ \ {k}, !.pc = "lookup", !.key = k]
  <1>3. k \in Keys
    BY <1>1 DEF Run
  <1>4. run \in Run
    BY <1>1, <1>3 DEF Run, RunPC
  <1>5. /\ run.pc = "lookup" /\ run.handled = loop[l].handled /\ run.paused = loop[l].paused
        /\ run.todo = loop[l].todo \ {k} /\ run.key = k /\ run.submitted = loop[l].submitted
        /\ run.completed = loop[l].completed /\ run.ended = loop[l].ended
        /\ run.shared = loop[l].shared
    BY <1>1 DEF Run
  <1>6. CASE Unplannable(PlanOf[k])
    BY <1>2, <1>6, EndMoves
  <1>7. CASE ~Unplannable(PlanOf[k])
    <2>1. Goes(l, run)
      BY <1>2, <1>7
    <2> HIDE DEF run
    <2>2. Permitted(run) /\ Proven(run, Effected, Closed)
      BY <1>1, <1>3, <1>5, <1>7 DEF Permitted, Busy, Proven, Unplannable
    <2>3. Proven(run, Effected', Closed')
      BY <2>2, ProvenStays
    <2> QED BY <1>1, <1>4, <1>5, <2>1, <2>2, <2>3 DEF Moves, LoopAt
  <1> QED BY <1>6, <1>7

(* Between an intent and its submission only the label moves.              *)
LEMMA LabelMoves ==
  ASSUME IInv, Growth, NEW l \in Procs, Busy(loop[l]),
         NEW label \in {"create", "continue", "queue", "schedule"},
         Goes(l, [loop[l] EXCEPT !.pc = label])
  PROVE  \E run : Moves(l, run)
  <1> DEFINE run == [loop[l] EXCEPT !.pc = label]
  <1>1. loop[l] \in Run /\ Permitted(loop[l]) /\ Proven(loop[l], Effected, Closed)
    BY DEF IInv, LoopTypeOK
  <1>2. run \in Run
    BY <1>1 DEF Run, RunPC
  <1>3. /\ run.pc = label /\ run.handled = loop[l].handled /\ run.paused = loop[l].paused
        /\ run.todo = loop[l].todo /\ run.key = loop[l].key /\ run.submitted = loop[l].submitted
        /\ run.completed = loop[l].completed /\ run.ended = loop[l].ended
        /\ run.shared = loop[l].shared
    BY <1>1 DEF Run
  <1>4. Goes(l, run)
    OBVIOUS
  <1> HIDE DEF run
  <1>5. Permitted(run) /\ Proven(run, Effected, Closed)
    BY <1>1, <1>3 DEF Permitted, Busy, Proven
  <1>6. Proven(run, Effected', Closed')
    BY <1>5, ProvenStays
  <1> QED BY <1>2, <1>3, <1>4, <1>5, <1>6 DEF Moves, LoopAt, Busy

LEMMA SubmittedMoves ==
  ASSUME IInv, Growth, NEW l \in Procs, Busy(loop[l]), Goes(l, Submitted(loop[l]))
  PROVE  \E run : Moves(l, run)
  <1> DEFINE run == Submitted(loop[l])
  <1>1. loop[l] \in Run /\ Permitted(loop[l]) /\ Proven(loop[l], Effected, Closed)
    BY DEF IInv, LoopTypeOK
  <1>2. loop[l].key \in Keys /\ PlanOf[loop[l].key] \in Workflows
    BY <1>1, ExecutiveLoopAssumption DEF Permitted
  <1>3. run \in Run
    BY <1>1, <1>2 DEF Run, RunPC, Submitted
  <1>4. /\ run.pc = "cycle" /\ run.handled = loop[l].handled /\ run.paused = loop[l].paused
        /\ run.todo = loop[l].todo /\ run.key = NoKey
        /\ run.completed = loop[l].completed /\ run.ended = loop[l].ended
        /\ run.shared = loop[l].shared
    BY <1>1 DEF Run, Submitted
  <1>5. Goes(l, run)
    OBVIOUS
  <1> HIDE DEF run
  <1>6. Permitted(run) /\ Proven(run, Effected, Closed)
    BY <1>1, <1>4 DEF Permitted, Busy, Proven
  <1>7. Proven(run, Effected', Closed')
    BY <1>6, ProvenStays
  <1> QED BY <1>3, <1>4, <1>5, <1>6, <1>7 DEF Moves, LoopAt, Busy

LEMMA SubmissionMoves ==
  ASSUME IInv, Growth, NEW l \in Procs,
         \/ LookUpPlan(l) \/ CreateWorkflow(l) \/ Continue(l)
         \/ LookUpQueued(l) \/ ScheduleWorkflow(l)
  PROVE  \E run : Moves(l, run)
  <1>1. Busy(loop[l])
    BY DEF LookUpPlan, CreateWorkflow, Continue, LookUpQueued, ScheduleWorkflow, LoopAt, Busy
  <1>2. \/ Goes(l, NoRun) \/ Goes(l, Submitted(loop[l]))
        \/ \E label \in {"create", "continue", "queue", "schedule"} : Goes(l, [loop[l] EXCEPT !.pc = label])
    BY DEF LookUpPlan, CreateWorkflow, Continue, LookUpQueued, ScheduleWorkflow
  <1> QED BY <1>1, <1>2, EndMoves, SubmittedMoves, LabelMoves
-----------------------------------------------------------------------------
(* The steps after the intents *)

AtWork == {"cycle", "running", "remember"}

(* A run that is not submitting moves on to a record with the same key,    *)
(* observation and copy.                                                   *)
SameWork(run, before) ==
  /\ run.paused = before.paused /\ run.todo = before.todo /\ run.key = before.key
  /\ run.submitted = before.submitted /\ (run.shared <=> before.shared)

LEMMA WorkMoves ==
  ASSUME IInv, Growth, NEW l \in Procs, loop[l].pc \in AtWork,
         NEW run \in Run, Goes(l, run), run.pc \in AtWork \cup {"observe"},
         SameWork(run, loop[l]),
         loop[l].handled \subseteq run.handled,
         \A k \in run.handled \ loop[l].handled : StepsOf(PlanOf[k]) \cap Effected' # {},
         run.completed \ loop[l].completed \subseteq Effected',
         (run.ended \ loop[l].ended) \cap Quick \subseteq Effected' \cup Closed',
         run.pc = "remember" => \A w \in run.torun : StepsOf(w) \cap Listed(run) # {}
  PROVE  Moves(l, run)
  <1>1. Permitted(loop[l]) /\ Proven(loop[l], Effected', Closed')
    BY ProvenStays DEF IInv
  <1>2. Permitted(run)
    BY <1>1 DEF Permitted, Busy, SameWork, AtWork
  <1>3. Proven(run, Effected', Closed')
    BY <1>1 DEF Proven
  <1> QED BY <1>2, <1>3 DEF Moves, LoopAt, SameWork, AtWork

(* What the runtime completes had an effect.                               *)
LEMMA CompletesEffected ==
  ASSUME V6Inv, Growth, NEW l \in Procs, CompleteClaim(l)
  PROVE  proc[l].step \in Effected'
  <1>1. proc[l].step \in Steps /\ Claims(proc[l])
    BY DEF V6Inv, TypeInv, ShapedCycle, CycleShape, HoldingPC, CompleteClaim, At, Claims
  <1> QED BY <1>1 DEF V6Inv, ActedInv, Effected, Growth

(* What it gives up is closed, unless another cycle outlived its claim.    *)
LEMMA EndsClosed ==
  ASSUME V6Inv, NEW l \in Procs, Ends(l)
  PROVE  proc[l].step \in Steps /\ (proc[l].step \in Quick => proc[l].step \in Closed')
  <1>1. TypeInv /\ ClaimExclusive /\ queue \in [Steps -> QueueRow] /\ Releases(l)
    BY ReleaseSteps DEF V6Inv, TypeInv, TypeOK, OwnInv, Ends, ReleaseStep
  <1>2. PICK s \in Steps : s = proc[l].step /\ Holds(l, s)
    BY <1>1 DEF Releases, Holds
  <1>3. SetStatus(s, "FAILED")
    BY <1>2 DEF Ends, RejectClaim, SettleFailure, FailRow
  <1>4. queue'[s].status = "FAILED"
    BY <1>1, <1>3 DEF SetStatus, QueueRow
  <1>5. ASSUME s \in Quick, NEW q \in Procs PROVE ~Holds(q, s)'
    <2>1. CASE q = l
      BY <1>1, <2>1 DEF Releases, Holds
    <2>2. CASE q # l
      <3>1. ~Holds(q, s) /\ proc'[q] = proc[q]
        BY <1>1, <1>2, <1>5, <2>2 DEF ClaimExclusive, Quick, Releases
      <3> QED BY <3>1 DEF Holds
    <2> QED BY <2>1, <2>2
  <1>6. s \in Quick => s \in Closed'
    BY <1>4, <1>5 DEF Closed, Held
  <1> QED BY <1>2, <1>6

LEMMA WorkflowMoves ==
  ASSUME IInv, Growth, NEW l \in Procs,
         \/ BeginRuntime(l) \/ RuntimeCompletes(l) \/ RuntimeEnds(l) \/ RuntimeReturns(l)
         \/ RuntimeThrows(l) \/ AgentThrows(l) \/ RuntimeGoesOn(l)
  PROVE  \E run : Moves(l, run)
  <1>1. /\ V6Inv /\ loop \in [Procs -> Run] /\ loop[l] \in Run /\ loop[l].pc \in AtWork
        /\ ~LoopAt(l, "remember")
    BY DEF IInv, LoopTypeOK, BeginRuntime, RuntimeCompletes, RuntimeEnds, RuntimeReturns,
           RuntimeThrows, AgentThrows, RuntimeGoesOn, LoopAt, AtWork
  <1> DEFINE Same(run) == /\ run \in Run /\ run.pc \in AtWork /\ run.pc # "remember"
                          /\ SameWork(run, loop[l]) /\ run.handled = loop[l].handled
  <1>2. ASSUME NEW run, Same(run), Goes(l, run),
               run.completed \ loop[l].completed \subseteq Effected',
               (run.ended \ loop[l].ended) \cap Quick \subseteq Effected' \cup Closed'
        PROVE  Moves(l, run)
    BY <1>1, <1>2, WorkMoves
  <1>3. CASE BeginRuntime(l)
    <2>1. PICK w \in loop[l].torun : Goes(l, [loop[l] EXCEPT !.pc = "running", !.torun = @ \ {w}])
      BY <1>3 DEF BeginRuntime
    <2> DEFINE run == [loop[l] EXCEPT !.pc = "running", !.torun = @ \ {w}]
    <2>2. Same(run) /\ run.completed = loop[l].completed /\ run.ended = loop[l].ended
      BY <1>1 DEF Run, RunPC, SameWork, AtWork
    <2> QED BY <1>2, <2>1, <2>2
  <1>4. CASE RuntimeCompletes(l)
    <2> DEFINE s == proc[l].step
               run == [loop[l] EXCEPT !.completed = @ \cup {s}]
    <2>1. s \in Effected' /\ Goes(l, run)
      BY <1>1, <1>4, CompletesEffected DEF RuntimeCompletes
    <2>2. s \in Steps
      BY <1>1, <1>4 DEF RuntimeCompletes, CompleteClaim, V6Inv, TypeInv, ShapedCycle, CycleShape, HoldingPC, At
    <2> HIDE DEF s
    <2>3. Same(run) /\ run.completed = loop[l].completed \cup {s} /\ run.ended = loop[l].ended
      BY <1>1, <2>2 DEF Run, RunPC, SameWork, AtWork, LoopAt
    <2> QED BY <1>2, <2>1, <2>3
  <1>5. CASE RuntimeEnds(l)
    <2> DEFINE s == proc[l].step
               run == [loop[l] EXCEPT !.ended = @ \cup {s}]
    <2>1. s \in Steps /\ (s \in Quick => s \in Closed') /\ Goes(l, run)
      BY <1>1, <1>5, EndsClosed DEF RuntimeEnds
    <2> HIDE DEF s
    <2>2. Same(run) /\ run.completed = loop[l].completed /\ run.ended = loop[l].ended \cup {s}
      BY <1>1, <2>1 DEF Run, RunPC, SameWork, AtWork, LoopAt
    <2> QED BY <1>2, <2>1, <2>2
  <1>6. CASE RuntimeReturns(l)
    <2> DEFINE run == [loop[l] EXCEPT !.pc = "cycle"]
    <2>1. Goes(l, run)
      BY <1>6 DEF RuntimeReturns
    <2>2. Same(run) /\ run.completed = loop[l].completed /\ run.ended = loop[l].ended
      BY <1>1 DEF Run, RunPC, SameWork, AtWork
    <2> QED BY <1>2, <2>1, <2>2
  <1>7. CASE RuntimeThrows(l) \/ AgentThrows(l)
    BY <1>7, EndMoves DEF RuntimeThrows, AgentThrows
  <1>8. CASE RuntimeGoesOn(l)
    <2>1. Goes(l, loop[l]) /\ Same(loop[l])
      BY <1>1, <1>8 DEF RuntimeGoesOn, Goes, SameWork, LoopAt
    <2> QED BY <1>2, <2>1
  <1> QED BY <1>3, <1>4, <1>5, <1>6, <1>7, <1>8

LEMMA OutcomeMoves ==
  ASSUME IInv, Growth, NEW l \in Procs, NextOutcome(l) \/ Remember(l) PROVE \E run : Moves(l, run)
  <1>1. LoopTypeOK /\ loop[l] \in Run /\ loop[l].pc \in AtWork
    BY DEF IInv, LoopTypeOK, NextOutcome, AllRun, Remember, LoopAt, AtWork
  <1> DEFINE Recorded(w) == [loop[l] EXCEPT !.pc = "remember", !.torun = {w}]
             Back == [loop[l] EXCEPT !.pc = "cycle", !.torun = {}]
             Same(run) == /\ run \in Run /\ run.pc \in AtWork
                          /\ SameWork(run, loop[l]) /\ run.handled = loop[l].handled
                          /\ run.completed = loop[l].completed /\ run.ended = loop[l].ended
                          /\ run.pc = "remember" => \A w \in run.torun : StepsOf(w) \cap Listed(run) # {}
  <1>2. ASSUME NEW run, Same(run), Goes(l, run) PROVE Moves(l, run)
    BY <1>1, <1>2, WorkMoves
  <1>3. CASE NextOutcome(l)
    <2>1. PICK w \in ToRemember(loop[l]) : Goes(l, Recorded(w))
      BY <1>3 DEF NextOutcome
    <2>2. w \in Workflows /\ StepsOf(w) \cap Listed(loop[l]) # {}
      BY <1>1, <2>1, ExecutiveLoopAssumption DEF ToRemember, Listed, Run
    <2>3. /\ Recorded(w) \in Run /\ Recorded(w).pc = "remember" /\ Recorded(w).torun = {w}
          /\ SameWork(Recorded(w), loop[l]) /\ Recorded(w).handled = loop[l].handled
          /\ Recorded(w).completed = loop[l].completed /\ Recorded(w).ended = loop[l].ended
      BY <1>1, <2>2 DEF Run, RunPC, SameWork
    <2> HIDE DEF Recorded
    <2>4. Same(Recorded(w))
      BY <2>2, <2>3 DEF AtWork, Listed
    <2> QED BY <1>2, <2>1, <2>4
  <1>4. CASE Remember(l)
    <2>1. Goes(l, Back) \/ Goes(l, NoRun)
      BY <1>4 DEF Remember
    <2>2. Same(Back)
      BY <1>1 DEF Run, RunPC, SameWork, AtWork
    <2> QED BY <1>2, <2>1, <2>2, EndMoves
  <1> QED BY <1>3, <1>4

(* What is saved was done, and is what the run goes on with.               *)
LEMMA SaveMoves ==
  ASSUME IInv, Growth, NEW l \in Procs, SaveCheckpoint(l)
  PROVE  /\ \E run : Moves(l, run) /\ (run.pc = "idle" \/ checkpoint' \subseteq run.handled)
         /\ checkpoint' \subseteq Keys
         /\ loop[l].handled \subseteq checkpoint'
         /\ \A k \in checkpoint' : StepsOf(PlanOf[k]) \cap Effected' # {}
  <1>1. /\ loop[l] \in Run /\ loop[l].pc = "cycle"
        /\ Proven(loop[l], Effected', Closed') /\ checkpoint' = Handled(loop[l])
    BY ProvenStays DEF IInv, LoopTypeOK, SaveCheckpoint, AllRun, LoopAt
  <1> DEFINE handled == Handled(loop[l])
  <1>2. /\ handled \subseteq Keys /\ loop[l].handled \subseteq handled
        /\ \A k \in handled : StepsOf(PlanOf[k]) \cap Effected' # {}
    BY <1>1 DEF Handled, CompletedKeys, Run, Proven
  <1>3. Goes(l, NoRun) \/ (/\ Goes(l, [loop[l] EXCEPT !.pc = "observe", !.handled = handled, !.cycle = @ + 1])
                           /\ loop[l].cycle + 1 # MaxCycles)
    BY DEF SaveCheckpoint
  <1>4. CASE Goes(l, NoRun)
    BY <1>1, <1>2, <1>4, EndMoves, NoRunFits
  <1> HIDE DEF handled
  <1>5. CASE /\ Goes(l, [loop[l] EXCEPT !.pc = "observe", !.handled = handled, !.cycle = @ + 1])
             /\ loop[l].cycle + 1 # MaxCycles
    <2> DEFINE run == [loop[l] EXCEPT !.pc = "observe", !.handled = handled, !.cycle = @ + 1]
    <2>1. loop[l].cycle \in 0..(MaxCycles - 1) /\ loop[l].cycle + 1 \in 0..(MaxCycles - 1)
      BY <1>1, <1>5, ExecutiveLoopAssumption DEF Run
    <2>2. run \in Run
      BY <1>1, <1>2, <2>1 DEF Run, RunPC
    <2>3. /\ run.pc = "observe" /\ SameWork(run, loop[l]) /\ run.handled = handled
          /\ run.completed = loop[l].completed /\ run.ended = loop[l].ended
      BY <1>1 DEF Run, SameWork
    <2>4. Goes(l, run)
      BY <1>5
    <2> HIDE DEF run
    <2>5. Moves(l, run)
      BY <1>1, <1>2, <2>2, <2>3, <2>4, WorkMoves DEF AtWork
    <2> QED BY <1>1, <1>2, <2>3, <2>5 DEF handled
  <1> QED BY <1>3, <1>4, <1>5
-----------------------------------------------------------------------------
(* The invariant *)

(* The steps that leave the runtime's tables alone.                        *)
Apart(l) ==
  \/ StartRun(l) \/ LoadCheckpoint(l) \/ Observe(l) \/ NextIntent(l) \/ LookUpPlan(l)
  \/ Continue(l) \/ LookUpQueued(l) \/ NextOutcome(l) \/ Remember(l) \/ SaveCheckpoint(l)

LEMMA TaskOfPlan ==
  ASSUME IInv, NEW l \in Procs, Busy(loop[l])
  PROVE  Plan(l) \in Workflows /\ RuleOf[Plan(l)] = "AUTONOMOUS" /\ TaskOf(Plan(l)) \in Steps
  <1>1. Plan(l) \in Workflows /\ RuleOf[Plan(l)] = "AUTONOMOUS"
    BY ExecutiveLoopAssumption DEF IInv, Permitted, Plan
  <1>2. PICK s \in Steps : StepsOf(Plan(l)) = {s}
    BY <1>1, ExecutiveLoopAssumption
  <1>3. WorkflowOf[s] = Plan(l)
    BY <1>2 DEF StepsOf
  <1> QED BY <1>1, <1>3 DEF TaskOf

(* Each step of the loop is one of the runtime, or one from outside it.    *)
LEMMA LoopRuntime == IInv /\ [LoopNext]_loopVars => V6Inv' /\ Growth
  <1> SUFFICES ASSUME IInv, [LoopNext]_loopVars PROVE V6Inv' /\ Growth
    OBVIOUS
  <1>0. V6Inv /\ LoopTypeOK /\ TypeOK
    BY DEF IInv, LoopTypeOK
  <1>1. CASE (\E l \in Procs : Apart(l)) \/ ObservedChanges \/ UNCHANGED loopVars
    <2>1. UNCHANGED vars
      BY <1>1 DEF Apart, StartRun, LoadCheckpoint, Observe, NextIntent, LookUpPlan, Continue,
             LookUpQueued, NextOutcome, Remember, SaveCheckpoint, ObservedChanges, loopVars
    <2> QED BY <1>0, <2>1, RuntimeMoves
  <1>2. ASSUME NEW l \in Procs, BeginRuntime(l) PROVE Next
    BY <1>0, <1>2 DEF BeginRuntime, LoopTypeOK, Run, Next
  <1>3. ASSUME NEW l \in Procs, RuntimeCompletes(l) \/ RuntimeEnds(l) \/ RuntimeReturns(l) \/ RuntimeThrows(l)
        PROVE  Next
    <2>1. CycleStep(l)
      BY <1>3 DEF RuntimeCompletes, RuntimeEnds, Ends, RuntimeReturns, RuntimeThrows, CycleStep
    <2> QED BY <2>1 DEF Next
  <1>4. ASSUME NEW l \in Procs, RuntimeGoesOn(l) PROVE Next
    <2>1. CycleStep(l)
      BY <1>4 DEF RuntimeGoesOn, CycleStep
    <2> QED BY <2>1 DEF Next
  <1>5. CASE (\E l \in Procs : AgentThrows(l)) \/ (\E s \in Steps : Clock(s))
    <2>1. Next
      BY <1>5 DEF AgentThrows, Clock, Next
    <2> QED BY <1>0, <2>1, RuntimeMoves
  <1>6. ASSUME NEW l \in Procs, CreateWorkflow(l) PROVE V6Inv' /\ Growth
    <2>1. Bridged \in Workflow
      BY DEF Bridged, Workflow, WorkflowStatus, StepStatus
    <2>2. store' \in [Workflows -> Workflow] /\ faults' \in 0..MaxFaults
      BY <1>0, <1>6, <2>1 DEF CreateWorkflow, SaveWorkflow, TypeOK
    <2> QED BY <1>0, <1>6, <2>2, OutsideMoves DEF CreateWorkflow
  <1>7. ASSUME NEW l \in Procs, ScheduleWorkflow(l) PROVE V6Inv' /\ Growth
    <2>1. TaskOf(Plan(l)) \in Steps
      BY <1>7, TaskOfPlan DEF ScheduleWorkflow, LoopAt, Busy
    <2>2. UNCHANGED queue \/ \E s \in Steps : Enqueue(s)
      BY <1>7, <2>1 DEF ScheduleWorkflow
    <2>3. store' \in [Workflows -> Workflow] /\ faults' \in 0..MaxFaults
      BY <1>0, <1>7 DEF ScheduleWorkflow, TypeOK
    <2> QED BY <1>0, <1>7, <2>2, <2>3, OutsideMoves DEF ScheduleWorkflow
  <1>8. ASSUME NEW l \in Procs, Interrupted(l) PROVE V6Inv' /\ Growth
    <2>1. CASE Crash(l)
      <3>1. Next
        BY <2>1 DEF Next
      <3> QED BY <1>0, <3>1, RuntimeMoves
    <2>2. CASE faults' = faults + 1 /\ UNCHANGED <<queue, ledger, store, proc, provider>>
      <3>1. faults < MaxFaults
        BY <1>8 DEF Interrupted
      <3>2. store' \in [Workflows -> Workflow] /\ faults' \in 0..MaxFaults
        BY <1>0, <2>2, <3>1, RuntimeAssumption DEF TypeOK
      <3> QED BY <1>0, <2>2, <3>2, OutsideMoves
    <2> QED BY <1>8, <2>1, <2>2 DEF Interrupted
  <1> QED
    BY <1>0, <1>1, <1>2, <1>3, <1>4, <1>5, <1>6, <1>7, <1>8, RuntimeMoves DEF LoopNext, LoopStep, Apart

LEMMA MovesKeep ==
  ASSUME IInv, V6Inv', Growth, NEW l \in Procs, NEW run, Moves(l, run), Active(l),
         open' \in Observable, waiting' \in BOOLEAN, created' \subseteq Workflows, Founded',
         memory' \in [Workflows -> {"none", "success", "failure"}], checkpoint' \subseteq Keys,
         Written(checkpoint', memory', Effected', Closed'),
         \/ checkpoint' = checkpoint
         \/ run.pc = "idle"
         \/ ~LoopAt(l, "load") /\ checkpoint' \subseteq run.handled
  PROVE  IInv'
  <1>0. /\ LoopTypeOK /\ loop \in [Procs -> Run]
        /\ \A m \in Procs : Permitted(loop[m]) /\ Proven(loop[m], Effected, Closed) /\ Alone(m)
    BY DEF IInv, LoopTypeOK
  <1>1. loop' \in [Procs -> Run] /\ loop'[l] = run /\ \A m \in Procs \ {l} : loop'[m] = loop[m]
    BY <1>0 DEF Moves, Goes
  <1>2. LoopTypeOK'
    BY <1>1 DEF LoopTypeOK, V6Inv, TypeInv
  <1>3. ASSUME NEW m \in Procs PROVE Permitted(loop'[m]) /\ Proven(loop'[m], Effected', Closed')
    <2>1. CASE m = l
      BY <1>1, <2>1 DEF Moves
    <2>2. CASE m # l
      <3>1. Permitted(loop[m]) /\ Proven(loop[m], Effected, Closed) /\ loop'[m] = loop[m]
        BY <1>0, <1>1, <2>2
      <3> QED BY <3>1, ProvenStays
    <2> QED BY <2>1, <2>2
  <1>4. ASSUME NEW m \in Procs PROVE Alone(m)'
    <2>1. CASE m = l
      <3>1. CASE run.pc = "idle"
        BY <1>1, <2>1, <3>1 DEF Alone, Active, LoopAt
      <3>2. CASE run.pc # "idle"
        <4>1. /\ run.pc # "load" /\ (run.shared <=> loop[l].shared)
              /\ LoopAt(l, "load") => checkpoint \subseteq run.handled
              /\ loop[l].handled \subseteq run.handled \/ LoopAt(l, "load")
          BY <3>2 DEF Moves
        <4>2. ~run.shared => /\ \A n \in Procs \ {l} : ~Active(n)
                             /\ checkpoint \subseteq run.handled
          BY <1>0, <4>1 DEF Alone
        <4>3. ~run.shared => checkpoint' \subseteq run.handled
          BY <3>2, <4>2
        <4> QED BY <1>1, <2>1, <4>2, <4>3 DEF Alone, Active, LoopAt
      <3> QED BY <3>1, <3>2
    <2>2. CASE m # l
      <3>1. Alone(m) /\ loop'[m] = loop[m]
        BY <1>0, <1>1, <2>2
      <3>2. Active(m)' => loop'[m].shared
        BY <1>0, <2>2, <3>1 DEF Alone, Active, LoopAt, Run
      <3> QED BY <3>2 DEF Alone
    <2> QED BY <2>1, <2>2
  <1> QED BY <1>2, <1>3, <1>4 DEF IInv

(* Only Remember writes to the memory, of a workflow that has ended.       *)
LEMMA RememberedKeeps ==
  ASSUME IInv, Growth, NEW l \in Procs, LoopStep(l) \/ AgentThrows(l) \/ Interrupted(l)
  PROVE  Written({}, memory', Effected', Closed')
  <1>1. CASE UNCHANGED memory
    <2>1. Written({}, memory, Effected, Closed)
      BY DEF IInv, Written
    <2> QED BY <1>1, <2>1, WrittenStays
  <1>2. CASE ~UNCHANGED memory
    <2>1. Remember(l)
      BY <1>2 DEF LoopStep, LoadCheckpoint, Observe, NextIntent, LookUpPlan, CreateWorkflow, Continue,
             LookUpQueued, ScheduleWorkflow, BeginRuntime, RuntimeCompletes, RuntimeEnds, RuntimeReturns,
             RuntimeThrows, RuntimeGoesOn, NextOutcome, SaveCheckpoint, AgentThrows, Interrupted
    <2>2. PICK w \in loop[l].torun :
            memory' = [memory EXCEPT ![w] =
                         IF StepsOf(w) \cap loop[l].completed # {} THEN "success" ELSE "failure"]
      BY <1>2, <2>1 DEF Remember
    <2>3. /\ loop[l] \in Run /\ memory \in [Workflows -> {"none", "success", "failure"}]
          /\ Written({}, memory, Effected', Closed')
          /\ Proven(loop[l], Effected', Closed')
      BY ProvenStays, WrittenStays DEF IInv, LoopTypeOK, Written
    <2>4. w \in Workflows /\ StepsOf(w) \cap Listed(loop[l]) # {}
      BY <2>1, <2>2, <2>3 DEF Run, Remember, LoopAt, Proven
    <2>5. PICK s \in Steps : StepsOf(w) = {s}
      BY <2>4, ExecutiveLoopAssumption
    <2>6. CASE s \in loop[l].completed
      <3>1. memory' = [memory EXCEPT ![w] = "success"] /\ s \in Effected'
        BY <2>2, <2>3, <2>5, <2>6 DEF Proven
      <3> QED BY <2>3, <2>4, <2>5, <3>1 DEF Written
    <2>7. CASE s \notin loop[l].completed
      <3>1. memory' = [memory EXCEPT ![w] = "failure"] /\ s \in loop[l].ended
        BY <2>2, <2>4, <2>5, <2>7 DEF Listed
      <3>2. {s} \cap Quick \subseteq Effected' \cup Closed'
        BY <2>3, <3>1 DEF Proven
      <3> QED BY <2>3, <2>4, <2>5, <3>1, <3>2 DEF Written
    <2> QED BY <2>6, <2>7
  <1> QED BY <1>1, <1>2

(* What a step of the loop does to the tables of the executive.            *)
LEMMA StepTables ==
  ASSUME IInv, NEW l \in Procs, LoopStep(l) \/ AgentThrows(l) \/ Interrupted(l)
  PROVE  /\ Active(l) /\ open' = open /\ waiting' = waiting
         /\ created' \subseteq Workflows /\ Founded'
         /\ memory' \in [Workflows -> {"none", "success", "failure"}]
         /\ SaveCheckpoint(l) \/ checkpoint' = checkpoint
  <1>1. Active(l) /\ open' = open /\ waiting' = waiting
    BY DEF LoopStep, LoadCheckpoint, Observe, NextIntent, LookUpPlan, CreateWorkflow, Continue,
           LookUpQueued, ScheduleWorkflow, BeginRuntime, RuntimeCompletes, RuntimeEnds, RuntimeReturns,
           RuntimeThrows, RuntimeGoesOn, NextOutcome, Remember, SaveCheckpoint, AllRun, AgentThrows,
           Interrupted, External, Active, LoopAt
  <1>2. ASSUME CreateWorkflow(l) PROVE created' \subseteq Workflows /\ Founded'
    <2>1. created' \subseteq created \cup {Plan(l)}
      BY <1>2 DEF CreateWorkflow
    <2>2. Plan(l) \in Workflows /\ RuleOf[Plan(l)] = "AUTONOMOUS"
      BY <1>2, TaskOfPlan DEF CreateWorkflow, LoopAt, Busy
    <2> QED BY <2>1, <2>2 DEF IInv, LoopTypeOK, Founded
  <1>3. ASSUME ~CreateWorkflow(l) PROVE created' \subseteq Workflows /\ Founded'
    <2>1. ASSUME LoopStep(l) PROVE created' = created
      BY <1>3, <2>1 DEF LoopStep, LoadCheckpoint, Observe, NextIntent, LookUpPlan, Continue, LookUpQueued,
             ScheduleWorkflow, BeginRuntime, RuntimeCompletes, RuntimeEnds, RuntimeReturns,
             RuntimeThrows, RuntimeGoesOn, NextOutcome, Remember, SaveCheckpoint
    <2>2. ASSUME AgentThrows(l) \/ Interrupted(l) PROVE created' = created
      BY <2>2 DEF AgentThrows, Interrupted
    <2> QED BY <2>1, <2>2 DEF IInv, LoopTypeOK, Founded
  <1>4. created' \subseteq Workflows /\ Founded'
    BY <1>2, <1>3
  <1>5. memory' \in [Workflows -> {"none", "success", "failure"}]
    BY DEF LoopStep, LoadCheckpoint, Observe, NextIntent, LookUpPlan, CreateWorkflow, Continue,
           LookUpQueued, ScheduleWorkflow, BeginRuntime, RuntimeCompletes, RuntimeEnds, RuntimeReturns,
           RuntimeThrows, RuntimeGoesOn, NextOutcome, Remember, SaveCheckpoint, AgentThrows, Interrupted,
           IInv, LoopTypeOK
  <1>6. SaveCheckpoint(l) \/ checkpoint' = checkpoint
    BY DEF LoopStep, LoadCheckpoint, Observe, NextIntent, LookUpPlan, CreateWorkflow, Continue,
           LookUpQueued, ScheduleWorkflow, BeginRuntime, RuntimeCompletes, RuntimeEnds, RuntimeReturns,
           RuntimeThrows, RuntimeGoesOn, NextOutcome, Remember, AgentThrows, Interrupted
  <1> QED BY <1>1, <1>4, <1>5, <1>6

LEMMA StepKeeps ==
  ASSUME IInv, NEW l \in Procs, LoopStep(l) \/ AgentThrows(l) \/ Interrupted(l) PROVE IInv'
  <1>1. V6Inv' /\ Growth
    BY LoopRuntime DEF LoopNext
  <1>2. Written({}, memory', Effected', Closed')
    BY <1>1, RememberedKeeps
  <1>3. open' \in Observable /\ waiting' \in BOOLEAN
    BY StepTables DEF IInv, LoopTypeOK
  <1>4. CASE SaveCheckpoint(l)
    <2>1. ~LoopAt(l, "load")
      BY <1>4 DEF SaveCheckpoint, AllRun, LoopAt
    <2>2. PICK run : Moves(l, run) /\ (run.pc = "idle" \/ checkpoint' \subseteq run.handled)
      BY <1>1, <1>4, SaveMoves
    <2>3. checkpoint' \subseteq Keys /\ Written(checkpoint', memory', Effected', Closed')
      BY <1>1, <1>2, <1>4, SaveMoves DEF Written
    <2> QED BY <1>1, <1>3, <2>1, <2>2, <2>3, StepTables, MovesKeep
  <1>5. CASE ~SaveCheckpoint(l)
    <2>1. checkpoint' = checkpoint /\ checkpoint' \subseteq Keys
      BY <1>5, StepTables DEF IInv, LoopTypeOK
    <2>2. Written(checkpoint', memory', Effected', Closed')
      BY <1>1, <1>2, <2>1 DEF IInv, Written, Growth
    <2>3. PICK run : Moves(l, run)
      <3>1. CASE Interrupted(l)
        BY <3>1, EndMoves DEF Interrupted
      <3>2. CASE LoopStep(l) \/ AgentThrows(l)
        BY <1>1, <1>5, <3>2, LoadMoves, ObserveMoves, IntentMoves, SubmissionMoves, WorkflowMoves,
           OutcomeMoves DEF LoopStep
      <3> QED BY <3>1, <3>2
    <2> QED BY <1>1, <1>3, <2>1, <2>2, <2>3, StepTables, MovesKeep
  <1> QED BY <1>4, <1>5

LEMMA StartKeeps ==
  ASSUME IInv, NEW l \in Procs, StartRun(l) PROVE IInv'
  <1> DEFINE others == {m \in Procs \ {l} : Active(m)}
             run == [NoRun EXCEPT !.pc = "load", !.shared = others # {}]
  <1>0. /\ V6Inv' /\ Growth /\ LoopTypeOK /\ loop \in [Procs -> Run]
        /\ \A m \in Procs : Permitted(loop[m]) /\ Proven(loop[m], Effected', Closed') /\ Alone(m)
    BY LoopRuntime, ProvenStays DEF LoopNext, IInv, LoopTypeOK
  <1>1. /\ loop' = [m \in Procs |-> IF m = l THEN run
                                    ELSE IF m \in others THEN [loop[m] EXCEPT !.shared = TRUE] ELSE loop[m]]
        /\ UNCHANGED <<External, created, checkpoint, memory>>
    BY DEF StartRun
  <1>2. /\ run \in Run /\ Permitted(run) /\ Proven(run, Effected', Closed') /\ run.pc = "load"
        /\ (run.shared <=> others # {})
    <2>1. (others # {}) \in BOOLEAN
      OBVIOUS
    <2> HIDE DEF others
    <2>2. NoRun \in Run
      BY NoRunFits
    <2>3. run \in Run
      BY <2>1, <2>2 DEF Run, RunPC
    <2>4. /\ run.pc = "load" /\ run.handled = {} /\ run.completed = {} /\ run.ended = {}
          /\ run.todo = {} /\ run.key = NoKey /\ run.submitted = {} /\ run.shared = (others # {})
      BY <2>2 DEF NoRun
    <2> QED BY <2>3, <2>4 DEF Permitted, Busy, Proven
  <1>3. ASSUME NEW m \in Procs \ {l}
        PROVE  /\ loop'[m] \in Run /\ Permitted(loop'[m]) /\ Proven(loop'[m], Effected', Closed')
               /\ loop'[m].pc = loop[m].pc
               /\ Active(m) => loop'[m].shared
    <2>1. loop[m] \in Run /\ Permitted(loop[m]) /\ Proven(loop[m], Effected', Closed')
      BY <1>0, <1>3
    <2>2. CASE m \in others
      <3> DEFINE marked == [loop[m] EXCEPT !.shared = TRUE]
      <3>1. loop'[m] = marked
        BY <1>1, <1>3, <2>2
      <3>2. marked \in Run
        BY <2>1 DEF Run
      <3>3. /\ marked.pc = loop[m].pc /\ marked.key = loop[m].key /\ marked.paused = loop[m].paused
            /\ marked.todo = loop[m].todo /\ marked.submitted = loop[m].submitted
            /\ marked.handled = loop[m].handled /\ marked.completed = loop[m].completed
            /\ marked.ended = loop[m].ended /\ marked.torun = loop[m].torun
            /\ marked.shared
        BY <2>1 DEF Run
      <3> HIDE DEF marked
      <3> QED BY <2>1, <3>1, <3>2, <3>3 DEF Permitted, Busy, Proven, Listed
    <2>3. CASE m \notin others
      BY <1>1, <1>3, <2>1, <2>3
    <2> QED BY <2>2, <2>3
  <1>4. loop'[l] = run
    BY <1>1
  <1>5. others = {m \in Procs \ {l} : Active(m)}
    OBVIOUS
  <1>6. loop' = [m \in Procs |-> loop'[m]]
    BY <1>1
  <1> HIDE DEF others, run
  <1>7. LoopTypeOK'
    <2>1. \A m \in Procs : loop'[m] \in Run
      BY <1>2, <1>3, <1>4
    <2>2. loop' \in [Procs -> Run]
      BY <1>6, <2>1
    <2> QED BY <1>0, <1>1, <2>2 DEF LoopTypeOK, External, V6Inv, TypeInv
  <1>8. Founded' /\ Written(checkpoint', memory', Effected', Closed')
    BY <1>0, <1>1, WrittenStays DEF IInv, Founded
  <1>9. \A m \in Procs : Permitted(loop'[m]) /\ Proven(loop'[m], Effected', Closed')
    BY <1>2, <1>3, <1>4
  <1>10. ASSUME NEW m \in Procs PROVE Alone(m)'
    <2>1. CASE m = l
      BY <1>2, <1>3, <1>4, <1>5, <2>1 DEF Alone, Active, LoopAt
    <2>2. CASE m # l
      BY <1>3, <2>2 DEF Alone, Active, LoopAt
    <2> QED BY <2>1, <2>2
  <1> QED BY <1>0, <1>7, <1>8, <1>9, <1>10 DEF IInv

LEMMA LoopInitKeeps == LoopInit => IInv
  <1> SUFFICES ASSUME LoopInit PROVE IInv
    OBVIOUS
  <1>1. V6Inv /\ TypeOK
    BY V6Init DEF LoopInit, V6Inv, TypeInv
  <1>2. \A l \in Procs : loop[l] = NoRun /\ loop[l].pc = "idle"
    BY DEF LoopInit, NoRun
  <1>3. LoopTypeOK
    <2>1. {} \in Observable
      BY FS_EmptySet, ExecutiveLoopAssumption DEF Observable
    <2> QED BY <1>1, <2>1, NoRunFits, ExecutiveLoopAssumption DEF LoopInit, LoopTypeOK
  <1>4. Founded /\ Written(checkpoint, memory, Effected, Closed)
    BY DEF LoopInit, Founded, Written
  <1> QED BY <1>1, <1>2, <1>3, <1>4, NoRunFits DEF IInv, Alone, Active, LoopAt

LEMMA LoopKeeps == IInv /\ [LoopNext]_loopVars => IInv'
  <1> SUFFICES ASSUME IInv, [LoopNext]_loopVars PROVE IInv'
    OBVIOUS
  <1>1. CASE \E l \in Procs : StartRun(l) \/ LoopStep(l) \/ AgentThrows(l) \/ Interrupted(l)
    BY <1>1, StartKeeps, StepKeeps
  <1>2. CASE (\E s \in Steps : Clock(s)) \/ ObservedChanges \/ UNCHANGED loopVars
    <2>1. /\ UNCHANGED <<created, checkpoint, memory, loop>>
          /\ open' \in Observable /\ waiting' \in BOOLEAN
      BY <1>2 DEF loopVars, ObservedChanges, Clock, External, IInv, LoopTypeOK
    <2>2. V6Inv' /\ Growth
      BY LoopRuntime
    <2>3. LoopTypeOK'
      BY <2>1, <2>2 DEF IInv, LoopTypeOK, V6Inv, TypeInv
    <2>4. Founded' /\ Written(checkpoint', memory', Effected', Closed')
      BY <2>1, <2>2, WrittenStays DEF IInv, Founded
    <2>5. ASSUME NEW l \in Procs
          PROVE  Permitted(loop'[l]) /\ Proven(loop'[l], Effected', Closed') /\ Alone(l)'
      <3>1. Permitted(loop[l]) /\ Proven(loop[l], Effected', Closed') /\ Alone(l)
        BY <2>2, ProvenStays DEF IInv
      <3> QED BY <2>1, <3>1 DEF Alone, Active, LoopAt
    <2> QED BY <2>2, <2>3, <2>4, <2>5 DEF IInv
  <1> QED BY <1>1, <1>2 DEF LoopNext

LEMMA Invariance == LoopSpec => []IInv
  BY LoopInitKeeps, LoopKeeps, PTL DEF LoopSpec
-----------------------------------------------------------------------------
(* Types: tables and runs keep their declared shape.                       *)
THEOREM LoopTypesCorrect == LoopSpec => []LoopTypeOK
  BY Invariance, PTL DEF IInv

(* The checkpoint only names intents whose workflow had an effect, and a   *)
(* success is only remembered of a workflow that had one.                  *)
THEOREM WrittenWorkWasDone == LoopSpec => []WrittenWasDone
  <1>1. IInv => WrittenWasDone
    BY DEF IInv, Written, Effected, WrittenWasDone, HadEffect
  <1> QED BY <1>1, Invariance, PTL

(* A workflow that is remembered or checkpointed is not dispatched again.  *)
(* What had an effect is not called again, nor is a step whose row is      *)
(* failed and held by nobody; the one step of such a workflow is either.   *)
THEOREM RememberedWorkIsOver == LoopSpec => RememberedIsOver
  <1>1. ASSUME IInv, [LoopNext]_loopVars, NEW s \in Quick, Over(WorkflowOf[s])
        PROVE  provider'[s].calls = provider[s].calls
    <2>1. Growth
      BY <1>1, LoopRuntime
    <2>2. s \in Steps /\ WorkflowOf[s] \in Workflows /\ s \in StepsOf(WorkflowOf[s])
      BY EngineAssumption DEF Quick, StepsOf
    <2>3. PICK t \in Steps : StepsOf(WorkflowOf[s]) = {t}
      BY <2>2, ExecutiveLoopAssumption
    <2>4. StepsOf(WorkflowOf[s]) = {s}
      BY <2>2, <2>3
    <2>5. s \in Effected \cup Closed
      <3>1. CASE memory[WorkflowOf[s]] # "none"
        BY <1>1, <2>2, <2>4, <3>1 DEF IInv, LoopTypeOK, Written
      <3>2. CASE \E k \in checkpoint : PlanOf[k] = WorkflowOf[s]
        BY <1>1, <2>4, <3>2 DEF IInv, Written
      <3> QED BY <1>1, <3>1, <3>2 DEF Over
    <2> QED BY <2>1, <2>5 DEF Growth
  <1>2. IInv /\ [LoopNext]_loopVars =>
          [\A s \in Steps \ SlowSteps :
             Over(WorkflowOf[s]) => provider'[s].calls = provider[s].calls]_loopVars
    BY <1>1 DEF Quick
  <1> QED BY <1>2, Invariance, PTL DEF LoopSpec, RememberedIsOver

(* A plan that needs the founder never becomes a workflow, and a cycle     *)
(* that saw an approval waiting submits nothing.                           *)
THEOREM OnlyPermittedWork == LoopSpec => []NoUnapprovedWork
  <1>1. IInv => NoUnapprovedWork
    BY DEF IInv, Founded, Permitted, NoUnapprovedWork
  <1> QED BY <1>1, Invariance, PTL

(* A run that overlapped no other drops no key of the checkpoint.          *)
THEOREM CheckpointGrows == LoopSpec => KeysKept
  <1>1. IInv /\ [LoopNext]_loopVars =>
          [\A l \in Procs : loop'[l] # loop[l] /\ ~loop[l].shared => checkpoint \subseteq checkpoint']_loopVars
    <2> SUFFICES ASSUME IInv, LoopNext, NEW l \in Procs, loop'[l] # loop[l], ~loop[l].shared
                 PROVE  checkpoint \subseteq checkpoint'
      OBVIOUS
    <2>1. CASE \E m \in Procs : SaveCheckpoint(m)
      <3>1. PICK m \in Procs : SaveCheckpoint(m)
        BY <2>1
      <3>2. m = l
        <4>1. \E run : Goes(m, run)
          BY <3>1 DEF SaveCheckpoint
        <4> QED BY <4>1 DEF Goes, IInv, LoopTypeOK
      <3>3. Active(l) /\ ~LoopAt(l, "load")
        BY <3>1, <3>2 DEF SaveCheckpoint, AllRun, Active, LoopAt
      <3>4. loop[l].handled \subseteq checkpoint'
        BY <3>1, <3>2 DEF SaveCheckpoint, Handled
      <3> QED BY <3>3, <3>4 DEF IInv, Alone
    <2>2. CASE ~\E m \in Procs : SaveCheckpoint(m)
      <3>1. CASE \E m \in Procs : LoopStep(m) \/ AgentThrows(m) \/ Interrupted(m)
        BY <2>2, <3>1, StepTables
      <3>2. CASE (\E m \in Procs : StartRun(m)) \/ (\E s \in Steps : Clock(s)) \/ ObservedChanges
        BY <3>2 DEF StartRun, Clock, ObservedChanges
      <3> QED BY <3>1, <3>2 DEF LoopNext
    <2> QED BY <2>1, <2>2
  <1> QED BY <1>1, Invariance, PTL DEF LoopSpec, KeysKept
=============================================================================
