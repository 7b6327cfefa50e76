--------------------------- MODULE MCResultStore ---------------------------
(* Instances of ResultStore for TLC. *)
EXTENDS ResultStore
CONSTANTS k1, k2
OneKey == {k1}
TwoKeys == {k1, k2}
=============================================================================
