--------------------------- MODULE ServerRegistry ---------------------------
(***************************************************************************)
(* What the settings of the MCP servers promise, whatever stores them: a   *)
(* register of servers by key, each changed by one operation at a time.    *)
(* A server keeps its secret until an operation gives another one, changes *)
(* the kind of its authentication, or removes the server; chat is offered  *)
(* exactly the servers that are enabled.  McpSettings is shown to          *)
(* implement it.                                                           *)
(***************************************************************************)
CONSTANTS
  Key, AuthType, Secret,
  NoServer, NoSecret, \* what an absent server and an absent secret are
  Seed                \* the registry at first, of the environment's settings

VARIABLES
  registry, \* key -> [enabled, type, secret] or NoServer
  offered   \* key -> [type, secret] or NoServer: what a chat run may use

NoAuth == "none"

ServersOffered(r) ==
  [k \in Key |-> IF r[k] # NoServer /\ r[k].enabled
                 THEN [type |-> r[k].type, secret |-> r[k].secret]
                 ELSE NoServer]

RegistryInit == registry = Seed /\ offered = ServersOffered(Seed)

\* What a server may become.  Without a new secret it keeps the one it has of
\* the same kind.
Entered(k) ==
  LET kept(t) == IF registry[k] # NoServer /\ registry[k].type = t
                 THEN registry[k].secret ELSE NoSecret
  IN [enabled : BOOLEAN, type : {NoAuth}, secret : {NoSecret}]
     \cup UNION {[enabled : BOOLEAN, type : {t}, secret : Secret \cup {kept(t)}]
                : t \in AuthType \ {NoAuth}}

\* One server is entered or changed, or removed; enabling one is a change that
\* keeps its authentication.
Change(k) ==
  /\ \A other \in Key \ {k} : registry'[other] = registry[other]
  /\ registry'[k] \in Entered(k) \cup {NoServer}

RegistryNext ==
  /\ \E k \in Key : Change(k)
  /\ offered' = ServersOffered(registry')

RegistrySpec == RegistryInit /\ [][RegistryNext]_<<registry, offered>>
=============================================================================
