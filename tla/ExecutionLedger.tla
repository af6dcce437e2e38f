-------------------------- MODULE ExecutionLedger --------------------------
(***************************************************************************)
(* The durable V6 execution ledger: one row per workflow step, found by    *)
(* the idempotency key luuku:v6:workflow:<id>:step:<id>. begin is a read   *)
(* followed, in some cases, by a separate write; both are definitions of   *)
(* their own because another process may act between them.                 *)
(***************************************************************************)
EXTENDS WorkflowEngine

VARIABLE ledger

LedgerStatus ==
  {"absent", "executing", "completed", "unknown", "failed", "blocked", "planned"}
LedgerRow == [status : LedgerStatus, executed : BOOLEAN, verified : BOOLEAN]
NoExecution == [status |-> "absent", executed |-> FALSE, verified |-> FALSE]

LedgerInit == ledger = [s \in Steps |-> NoExecution]

(* Mutation: an unresolved execution is started again like a failed one.   *)
BeginAgain(s) ==
  LET row == ledger[s]
  IN  CASE row.status = "absent" -> "create"
        [] row.executed          -> "recover"
        [] OTHER                 -> "reset"

(* Mutation: a recorded result is not recovered.                           *)
BeginForgetful(s) ==
  LET row == ledger[s]
  IN  CASE row.status = "absent" -> "create"
        [] row.status = "failed" -> "reset"
        [] OTHER                 -> "unresolved"

(* The answer of begin's findUnique, by the branch it selects.             *)
Begin(s) ==
  LET row == ledger[s]
  IN  CASE row.status = "absent" -> "create"
        [] row.executed          -> "recover"
        [] row.status = "failed" -> "reset"
        [] OTHER                 -> "unresolved"

(* The result begin rebuilds from an executed row.                         *)
Recovered(s) == IF ledger[s].verified THEN "verified" ELSE "unverified"

CreateRow(s) ==
  /\ ledger[s].status = "absent"
  /\ ledger' = [ledger EXCEPT ![s].status = "executing"]

(* The update on a failed row: by id, whatever the row holds by now, and   *)
(* only its status.                                                        *)
ResetRow(s) == ledger' = [ledger EXCEPT ![s].status = "executing"]

(* Mutation: the outcome is stored as the agent reported it.               *)
LedgerStatusAsReported(result) == result

(* executionStatus ?? (success ? completed : failed).                      *)
LedgerStatusOf(result) ==
  CASE result = "verified"     -> "completed"
    [] result = "unverified"   -> "unknown"
    [] result = "inconclusive" -> "planned"
    [] OTHER                   -> result

(* ledger.complete overwrites the outcome, whatever the row holds.         *)
CompleteExecution(s, result) ==
  ledger' = [ledger EXCEPT ![s] =
               [status   |-> LedgerStatusOf(result),
                executed |-> Executed(result),
                verified |-> result = "verified"]]
=============================================================================
