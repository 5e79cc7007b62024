---------------------------- MODULE MCChatSession ----------------------------
(***************************************************************************)
(* ChatSession for TLC: of the tabs, those in Heard have searches that     *)
(* reach the server, and those of the others are lost before anything else *)
(* happens.  Every step is one of ChatSession.                             *)
(***************************************************************************)
EXTENDS ChatSession, TLC

CONSTANT Heard

Unheard == {i \in DOMAIN ops : ops[i].kind = "search" /\ ops[i].tab \notin Heard}

MCNext == IF Unheard = {} THEN SessionNext ELSE \E i \in Unheard : OpLost(i)

MCSpec == SessionInit /\ [][MCNext]_sessionVars /\ SessionFairness
=============================================================================
