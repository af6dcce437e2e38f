----------------------------- MODULE QueueStore -----------------------------
(***************************************************************************)
(* The durable execution queue of one ownership scope (PrismaQueueStore,   *)
(* and InMemoryQueueStore where they agree). There is one row per step:    *)
(* its id is workflowId:stepId.                                            *)
(*                                                                         *)
(* "ripe" abstracts the row's dates. On a QUEUED row it says availableAt   *)
(* has been reached, on a CLAIMED row that updatedAt lies at or before     *)
(* now - queueClaimStaleAfterMs. Time passing is the environment's action. *)
(***************************************************************************)
EXTENDS WorkflowEngine

VARIABLE queue

QueueStatus == {"ABSENT", "QUEUED", "CLAIMED", "COMPLETED", "FAILED"}
QueueRow == [status : QueueStatus, attempts : Nat, ripe : BOOLEAN]
NoRow == [status |-> "ABSENT", attempts |-> 0, ripe |-> FALSE]

QueueInit == queue = [s \in Steps |-> NoRow]

Claimable == {s \in Steps : queue[s].status = "QUEUED" /\ queue[s].ripe}
StaleClaims == {s \in Steps : queue[s].status = "CLAIMED" /\ queue[s].ripe}

SetStatus(s, status) ==
  queue' = [queue EXCEPT ![s].status = status, ![s].ripe = FALSE]

(* scheduler.schedule -> enqueue of a row whose id is not in the table.    *)
Enqueue(s) ==
  /\ queue[s].status = "ABSENT"
  /\ queue' = [queue EXCEPT ![s] =
                 [status |-> "QUEUED", attempts |-> 0, ripe |-> TRUE]]

(* Mutation: the claim updates the row by its id alone.                    *)
ClaimRowById(s) ==
  queue' = [queue EXCEPT ![s].status = "CLAIMED",
                         ![s].attempts = @ + 1,
                         ![s].ripe = FALSE]

(* The guarded updateMany of claimNext: count is 1.                        *)
ClaimRow(s) ==
  /\ s \in Claimable
  /\ queue' = [queue EXCEPT ![s].status = "CLAIMED",
                            ![s].attempts = @ + 1,
                            ![s].ripe = FALSE]

(* Mutation: a row that cannot go on is settled like one that is done.     *)
SettleAsDone(s) == SetStatus(s, "COMPLETED")

(* complete and fail update the row whatever its status is.                *)
CompleteRow(s) == SetStatus(s, "COMPLETED")
FailRow(s) == SetStatus(s, "FAILED")

(* retry is guarded: only a CLAIMED or FAILED row goes back, with a        *)
(* backoff that still has to elapse.                                       *)
Retryable(s) == queue[s].status \in {"CLAIMED", "FAILED"}
RetryRow(s) == Retryable(s) /\ SetStatus(s, "QUEUED")

(* Mutation: stale claims are left alone.                                  *)
RecoverNothing == UNCHANGED queue

(* recoverStaleClaims: one query, then one guarded update per row. Its     *)
(* guard repeats the query's condition and rows ripen independently, so    *)
(* the loop is one step.                                                   *)
RecoverRows ==
  queue' = [s \in Steps |->
              IF s \in StaleClaims THEN [queue[s] EXCEPT !.status = "QUEUED"]
              ELSE queue[s]]
=============================================================================
