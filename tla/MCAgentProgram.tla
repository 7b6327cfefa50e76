--------------------------- MODULE MCAgentProgram ---------------------------
(* Instances of AgentProgram for TLC. *)
EXTENDS AgentProgram
CONSTANTS a, b
TwoPrograms == {a, b}
TwoPids == {1, 2}
OnlyB == {b}
=============================================================================
