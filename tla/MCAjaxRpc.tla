----------------------------- MODULE MCAjaxRpc -----------------------------
(* Instances of AjaxRpc for TLC. *)
EXTENDS AjaxRpc
CONSTANTS x1, x2
TwoCalls == {x1, x2}
OnlySecond == {x2}
=============================================================================
