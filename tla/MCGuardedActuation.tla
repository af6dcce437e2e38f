------------------------- MODULE MCGuardedActuation -------------------------
(***************************************************************************)
(* A small instance of GuardedActuation: dispatches a1 and a2 in server n1 *)
(* and b1 in server n2, all for the same key.                              *)
(***************************************************************************)
EXTENDS GuardedActuation, TLC

CONSTANTS n1, n2, a1, a2, b1

TwoServers == (a1 :> n1) @@ (a2 :> n1) @@ (b1 :> n2)
=============================================================================
