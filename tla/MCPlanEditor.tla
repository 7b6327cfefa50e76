----------------------------- MODULE MCPlanEditor -----------------------------
(* Two plans, of which one is empty, and a third to create. *)
EXTENDS PlanEditor

CONSTANTS planA, planB, planC, undefined, addnew

MCPlans == {planA, planB, planC}
MCStored == (planA :> "old") @@ (planB :> "empty")
MCNoText == Blank
=============================================================================
