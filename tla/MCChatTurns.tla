----------------------------- MODULE MCChatTurns -----------------------------
(***************************************************************************)
(* ChatTurns for TLC, which first evaluates the contract of the knowledge  *)
(* server for all requests within the bounds.                              *)
(***************************************************************************)
EXTENDS ChatTurns, KnowledgeSearch, TLC

CONSTANTS kb1, kb2, k1, k2

TwoBases == kb1 :> {k1, k2} @@ kb2 :> {}

ASSUME ContractKept == SearchContract

Symmetry == Permutations(CallId) \cup Permutations(Doc) \cup Permutations(Behaviour)
=============================================================================
