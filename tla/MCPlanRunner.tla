---------------------------- MODULE MCPlanRunner ----------------------------
(* Instances of PlanRunner for TLC. *)
EXTENDS PlanRunner
CONSTANTS m1, m2, t1, t2
TwoMachines == {m1, m2}
OnlyM1 == {m1}
TwoTesters == {t1, t2}
=============================================================================
