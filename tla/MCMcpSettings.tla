---------------------------- MODULE MCMcpSettings ----------------------------
(***************************************************************************)
(* McpSettings for TLC.                                                    *)
(***************************************************************************)
EXTENDS McpSettings, TLC

CONSTANTS github, files, s0

\* One server with a secret and one without.
SeedServers ==
  <<[key |-> github, enabled |-> TRUE, type |-> "bearer", secret |-> s0],
    [key |-> files, enabled |-> FALSE, type |-> "none", secret |-> NoSecret]>>
=============================================================================
