--------------------------- MODULE MCToolAgentTurn ---------------------------
(***************************************************************************)
(* ToolAgentTurn for TLC.                                                  *)
(***************************************************************************)
EXTENDS ToolAgentTurn, TLC

Symmetry == Permutations(Run) \cup Permutations(Payload)
=============================================================================
