----------------------- MODULE MCCommunicationRouter -----------------------
(***************************************************************************)
(* Small instances of CommunicationRouter: attempts a1..a3, reviews r1 and *)
(* r2. The same requester asks for two other reviews, one of them for the  *)
(* same task.                                                              *)
(***************************************************************************)
EXTENDS CommunicationRouter, TLC

CONSTANTS a1, a2, a3, r1, r2

OtherRequests == {{"action", "requester"}, {"action", "requester", "task"}}

Interchangeable == Permutations({a1, a2, a3}) \cup Permutations({r1, r2})
=============================================================================
