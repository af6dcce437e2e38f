--------------------------- MODULE MCExecutiveLoop ---------------------------
(* A small company: k1, of w1, is a failure that the executive may recover,  *)
(* k2, of w2, an objective for which the founder is asked.                   *)
EXTENDS ExecutiveLoop

CONSTANTS l1, l2, k1, k2, w1, w2, s1, s2

MCPlanOf == [k \in Keys |-> IF k = k1 THEN w1 ELSE w2]
Rules == [w \in Workflows |-> IF w = w1 THEN "AUTONOMOUS" ELSE "FOUNDER_APPROVAL"]
Owners == [s \in Steps |-> IF s = s1 THEN w1 ELSE w2]
NoDeps == [s \in Steps |-> {}]
=============================================================================
