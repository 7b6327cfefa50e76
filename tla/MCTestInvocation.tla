-------------------------- MODULE MCTestInvocation --------------------------
(* Instances of TestInvocation for TLC. *)
EXTENDS TestInvocation
CONSTANTS c1, c2, p1, p2
TwoCallers == {c1, c2}
OnePlan == {p1}
TwoPlans == {p1, p2}
Hanging == {p2}
=============================================================================
