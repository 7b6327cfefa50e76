---------------------------- MODULE MCResultsView ----------------------------
(* The instance of ResultsView that TLC checks. *)
EXTENDS ResultsView
=============================================================================
