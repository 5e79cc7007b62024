--------------------------- MODULE McpServerStore ---------------------------
(***************************************************************************)
(* The store of the MCP servers that the settings page manages             *)
(* (src/rag_agent/infrastructure/mcp_config_store.py) and what the routes  *)
(* of config_route.py do to it.  The servers are a list in one file, which *)
(* is replaced as a whole; until it is written for the first time the      *)
(* environment's MCP_SERVERS_CONFIG stands in for it.                      *)
(*                                                                         *)
(* The Agent Server is one process and a handler does not await between    *)
(* its reads and its write, so each is one step.  Urls, transports and the *)
(* other fields that are copied from a request to the file are left out;   *)
(* of the two secrets (bearer_token, client_secret) a server has the one   *)
(* of its authentication type.                                             *)
(***************************************************************************)
EXTENDS Naturals, Sequences, SequencesExt

CONSTANTS
  Key,
  AuthType,   \* "none" and kinds of authentication that have a secret
  Secret, NoSecret,
  Base,       \* MCP_SERVERS_CONFIG: a sequence of servers
  NoFile      \* what the store is before the first write

NoAuth == "none"
WithSecret == AuthType \ {NoAuth}

Server == [key : Key, enabled : BOOLEAN, type : AuthType,
           secret : Secret \cup {NoSecret}]
\* What a request and a draft carry: a secret for each kind, or none.
Auth == [type : AuthType, secrets : [WithSecret -> Secret \cup {NoSecret}]]
\* What the server tells of itself: whether it has a secret, not which.
Shown == [key : Key, enabled : BOOLEAN, type : AuthType, set : BOOLEAN]

HasUniqueKeys(s) ==
  \A i, j \in DOMAIN s : s[i].key = s[j].key => i = j

ASSUME StoreConstants ==
  /\ NoAuth \in AuthType /\ NoSecret \notin Secret
  /\ NoFile \notin Seq(Server)
  /\ Base \in Seq(Server) /\ HasUniqueKeys(Base)
  /\ \A i \in DOMAIN Base : Base[i].type = NoAuth => Base[i].secret = NoSecret

VARIABLE file \* the servers, or NoFile

Holds(servers, k) == \E i \in DOMAIN servers : servers[i].key = k
Position(servers, k) == CHOOSE i \in DOMAIN servers : servers[i].key = k
At(servers, k) == servers[Position(servers, k)]
\* A list holds a key once, so the filter drops one server at most.
Without(servers, k) ==
  IF Holds(servers, k) THEN RemoveAt(servers, Position(servers, k)) ELSE servers

Materialized == IF file = NoFile THEN Base ELSE file

Response(s) == [key |-> s.key, enabled |-> s.enabled, type |-> s.type,
                set |-> s.secret # NoSecret]

Listing == [i \in DOMAIN Materialized |-> Response(Materialized[i])]

UpsertedAtTheEnd(server) == Append(Without(Materialized, server.key), server)
UpsertedAnew(server) == Append(Materialized, server)
Upserted(server) ==
  LET kept == Without(Materialized, server.key)
  IN IF Holds(Materialized, server.key)
     THEN InsertAt(kept, Position(Materialized, server.key), server)
     ELSE Append(kept, server)

\* The secret of a request that has none is the stored one of the same kind.
WrittenSecretOfRequest(k, auth) ==
  IF auth.type = NoAuth THEN NoSecret ELSE auth.secrets[auth.type]
WrittenSecret(k, auth) ==
  LET given == IF auth.type = NoAuth THEN NoSecret ELSE auth.secrets[auth.type]
  IN IF given = NoSecret /\ Holds(Materialized, k)
       /\ At(Materialized, k).type = auth.type
     THEN At(Materialized, k).secret ELSE given

StoreInit == file = NoFile

Put(k, on, auth) ==
  file' = Upserted([key |-> k, enabled |-> on, type |-> auth.type,
                    secret |-> WrittenSecret(k, auth)])

Patch(k, on) ==
  /\ Holds(Materialized, k)
  /\ file' = Upserted([At(Materialized, k) EXCEPT !.enabled = on])

Delete(k) == file' = Without(Materialized, k)

\* What get_mcp_servers_config gives a chat run.
Resolved ==
  LET usable == {i \in DOMAIN Materialized : Materialized[i].enabled}
  IN [k \in {Materialized[i].key : i \in usable} |->
        LET s == Materialized[CHOOSE i \in usable : Materialized[i].key = k]
        IN [type |-> s.type, secret |-> s.secret]]

StoreTypeOK == file = NoFile \/ (file \in Seq(Server) /\ HasUniqueKeys(file))
=============================================================================
