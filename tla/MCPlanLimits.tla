--------------------------- MODULE MCPlanLimits ---------------------------
(* Instances of PlanLimits for TLC: two plans, a MiB of two bytes and      *)
(* integers of five bits.  7 is the largest number of MiB that fits, and   *)
(* the product of 17 wraps to a small limit.                               *)
EXTENDS PlanLimits, TLC
Numbers == {-2, -1, 0, 2, 7, 8, 17}
Amounts == {0, 4, 5, 12, 14, 15}
=============================================================================
