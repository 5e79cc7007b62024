------------------------------ MODULE McpClients ------------------------------
(***************************************************************************)
(* How a process gets MCP tools: load_adapter_tools of                     *)
(* src/rag_agent/infrastructure/mcp_adapter_runtime.py with its caches of  *)
(* adapters and tools, and the OAuth provider of mcp_oauth.py that gives   *)
(* the load its bearer token.  Loads are coroutines of one event loop: a   *)
(* step runs from one await to the next.  Taking a lock is a step of its   *)
(* own, contended or not.                                                  *)
(*                                                                         *)
(* One provider identity is modelled, as providers share nothing, with     *)
(* loads of several servers that use it.  A load of a server without       *)
(* client credentials is one that has its token at once.  The token        *)
(* endpoint and the MCP servers are external: they answer, fail, or never  *)
(* answer.                                                                 *)
(***************************************************************************)
EXTENDS Integers, FiniteSets

CONSTANTS
  Load,       \* coroutines that call load_adapter_tools once each
  Test,       \* the ones that are connection tests, which have a timeout
  Server,     \* MCP servers behind the same OAuth client
  Secret,     \* its client secrets over time
  NoSecret,   \* no load has made the provider yet
  Skew,       \* refresh_skew_seconds
  Lifetimes,  \* expires_in of the tokens the endpoint issues
  MaxNow      \* bound: the clock stops here

Free == "free"    \* nobody holds the lock
None == 0         \* no token, no adapter

ASSUME ClientConstants ==
  /\ Free \notin Load /\ Test \subseteq Load
  /\ NoSecret \notin Secret
  /\ Skew \in Nat /\ MaxNow \in Nat
  /\ Lifetimes \subseteq Nat \ {0}

VARIABLES
  now,
  cred,        \* the provider's secret and _credential_generation
  cached,      \* the provider's _cached_token
  refreshing,  \* the load that holds the provider's refresh lock
  load,        \* what each load is doing
  loading,     \* the load that holds _client_lock
  clients,     \* _client_cache: the adapter of each key
  tools,       \* _tool_cache: the adapter whose tools are cached for each key
  open,        \* adapters that were created and not closed
  served,      \* history: adapters whose tools some load returned
  closing,     \* adapters clear_adapter_runtime_cache took and has to close
  cleared,     \* history: every adapter it ever took
  abandoned,   \* history: adapters whose closing was cancelled
  issued,      \* how many tokens were issued: names them
  created      \* how many adapters were created: names them

provider == <<cred, cached, refreshing>>
caches == <<loading, clients, tools, open, served, closing, cleared, abandoned, created>>
vars == <<now, provider, load, caches, issued>>

Cred == [secret : Secret \cup {NoSecret}, gen : Nat]
NoCred == [secret |-> NoSecret, gen |-> 0]

Token == [id : Nat \ {0}, secret : Secret, expires : Nat]
NoToken == [id |-> None, secret |-> NoSecret, expires |-> 0]

\* _connections_cache_key: the connection holds the bearer token, and nothing
\* else of the credentials.
Key == Server \X (Nat \ {0})

\* Where a load is suspended, and how it may end.
Suspended == {"headers", "request", "lock", "list", "evict"}

PC == {"idle", "done", "failed"} \cup Suspended

Idle == [pc |-> "idle", server |-> None, cred |-> NoCred,
         token |-> NoToken, client |-> None]

KeyOf(l) == <<load[l].server, load[l].token.id>>

LoadState == [pc : PC, server : Server \cup {None}, cred : Cred,
              token : Token \cup {NoToken}, client : Nat]

\* A cache is a function from the keys it has.
NoCache == [k \in {} |-> None]

At(cache, k) == IF k \in DOMAIN cache THEN cache[k] ELSE None

With(cache, k, n) == [i \in DOMAIN cache \cup {k} |-> IF i = k THEN n ELSE cache[i]]

Pop(cache, k) == [i \in DOMAIN cache \ {k} |-> cache[i]]

Cached(cache) == {cache[k] : k \in DOMAIN cache}

Init ==
  /\ now = 0
  /\ cred = NoCred /\ cached = NoToken /\ refreshing = Free
  /\ load = [l \in Load |-> Idle]
  /\ loading = Free /\ clients = NoCache /\ tools = NoCache
  /\ open = {} /\ served = {} /\ closing = {} /\ cleared = {} /\ abandoned = {}
  /\ issued = 0 /\ created = 0

Tick ==
  /\ now < MaxNow /\ now' = now + 1
  /\ UNCHANGED <<provider, load, caches, issued>>

-----------------------------------------------------------------------------
(***************************************************************************)
(* The bearer token.                                                       *)
(***************************************************************************)
\* A token that does not expire within the skew, after a faulty definition that
\* has the comparison the wrong way round.
Stale(token) == now >= token.expires - Skew

Fresh(token) == token # NoToken /\ now < token.expires - Skew

\* Another secret makes the provider forget the token of the last one.
UpdateCredentials(x) ==
  IF x = cred.secret THEN UNCHANGED <<cred, cached>>
  ELSE cred' = [secret |-> x, gen |-> cred.gen + 1] /\ cached' = NoToken

\* build_oauth_headers_supplier: make the provider, or hand it the secret of
\* this load's configuration.
UseCredentials(x) ==
  IF cred.secret = NoSecret
  THEN cred' = [secret |-> x, gen |-> 0] /\ cached' = NoToken
  ELSE UpdateCredentials(x)

Start(l, s, x) ==
  /\ load[l].pc = "idle"
  /\ UseCredentials(x)
  /\ load' = [load EXCEPT ![l].pc = "headers", ![l].server = s]
  /\ UNCHANGED <<now, refreshing, caches, issued>>

\* get_headers, before and again under the refresh lock: a fresh token will do.
UseCached(l) ==
  /\ load[l].pc = "headers" /\ Fresh(cached)
  /\ load' = [load EXCEPT ![l].pc = "lock", ![l].token = cached]
  /\ UNCHANGED <<now, provider, caches, issued>>

Request(l) ==
  /\ load[l].pc = "headers" /\ ~Fresh(cached) /\ refreshing = Free
  /\ refreshing' = l
  /\ load' = [load EXCEPT ![l].pc = "request", ![l].cred = cred]
  /\ UNCHANGED <<now, cred, cached, caches, issued>>

\* The credentials are still the ones the request was made with.  The first
\* definition is a faulty one that takes whatever token comes.
AnyToken(l) == TRUE

StillCurrent(l) == load[l].cred.gen = cred.gen

\* parse_token_response
Parsed(l, lifetime) ==
  [id |-> issued + 1, secret |-> load[l].cred.secret, expires |-> now + lifetime]

\* The token arrives: keep it, or ask again with the credentials of now.
Answered(l, lifetime) ==
  LET token == Parsed(l, lifetime)
  IN  /\ load[l].pc = "request"
      /\ issued' = issued + 1 /\ refreshing' = Free
      /\ IF StillCurrent(l)
         THEN cached' = token /\ load' = [load EXCEPT ![l].pc = "lock", ![l].token = token]
         ELSE UNCHANGED cached /\ load' = [load EXCEPT ![l].pc = "headers"]
      /\ UNCHANGED <<now, cred, caches>>

\* Load l ends without tools before it has the client lock, and lets go of the
\* refresh lock if it has that.
GiveUp(l) ==
  /\ load' = [load EXCEPT ![l] = [Idle EXCEPT !.pc = "failed"]]
  /\ refreshing' = IF refreshing = l THEN Free ELSE refreshing
  /\ UNCHANGED <<now, cred, cached, caches, issued>>

\* MCPAuthError.
Denied(l) == load[l].pc = "request" /\ GiveUp(l)

-----------------------------------------------------------------------------
(***************************************************************************)
(* The adapter, under _client_lock.                                        *)
(***************************************************************************)
End(l, result) == load' = [load EXCEPT ![l] = [Idle EXCEPT !.pc = result]]

\* The client lock may be taken, after a faulty definition without a lock.
LockIgnored == TRUE

LockFree == loading = Free

\* The tools are cached: their adapter stays as it is.
Reuse(l) ==
  /\ load[l].pc = "lock" /\ LockFree
  /\ At(tools, KeyOf(l)) # None
  /\ served' = served \cup {At(tools, KeyOf(l))}
  /\ End(l, "done")
  /\ UNCHANGED <<now, provider, loading, clients, tools, open, closing, cleared, abandoned, created, issued>>

\* Take the cached adapter or make one, and await list_tools, which connects it.
Connect(l) ==
  LET k == KeyOf(l)
      n == IF At(clients, k) # None THEN At(clients, k) ELSE created + 1
  IN  /\ load[l].pc = "lock" /\ LockFree
      /\ At(tools, k) = None
      /\ loading' = l
      /\ clients' = With(clients, k, n)
      /\ open' = open \cup {n} /\ created' = IF n > created THEN n ELSE created
      /\ load' = [load EXCEPT ![l].pc = "list", ![l].client = n]
      /\ UNCHANGED <<now, provider, tools, served, closing, cleared, abandoned, issued>>

Listed(l) ==
  /\ load[l].pc = "list"
  /\ tools' = With(tools, KeyOf(l), load[l].client)
  /\ served' = served \cup {load[l].client}
  /\ loading' = Free
  /\ End(l, "done")
  /\ UNCHANGED <<now, provider, clients, open, closing, cleared, abandoned, created, issued>>

\* What _evict_failed_client leaves in the caches, after a faulty version that
\* leaves the adapter.
EvictTools(k) == tools' = Pop(tools, k) /\ UNCHANGED clients

EvictBoth(k) == tools' = Pop(tools, k) /\ clients' = Pop(clients, k)

\* _evict_failed_client, up to the await of its close.
Evict(l) ==
  /\ EvictBoth(KeyOf(l))
  /\ load' = [load EXCEPT ![l].pc = "evict"]
  /\ UNCHANGED <<now, provider, loading, open, served, closing, cleared, abandoned, created, issued>>

ListFails(l) == load[l].pc = "list" /\ Evict(l)

\* The adapter is closed, after a faulty version that forgets to: the exception
\* of list_tools goes on.
JustRaise(l) == UNCHANGED open

Close(l) == open' = open \ {load[l].client}

Evicted(l) ==
  /\ load[l].pc = "evict"
  /\ Close(l)
  /\ loading' = Free
  /\ End(l, "failed")
  /\ UNCHANGED <<now, provider, clients, tools, served, closing, cleared, abandoned, created, issued>>

\* clear_adapter_runtime_cache: the caches are emptied under the lock, the
\* adapters closed one by one without it.
Clear ==
  /\ LockFree /\ closing = {} /\ DOMAIN clients # {}
  /\ closing' = Cached(clients) /\ cleared' = cleared \cup Cached(clients)
  /\ clients' = NoCache /\ tools' = NoCache
  /\ UNCHANGED <<now, provider, load, loading, open, served, abandoned, created, issued>>

CloseCleared ==
  /\ \E n \in closing : closing' = closing \ {n} /\ open' = open \ {n}
  /\ UNCHANGED <<now, provider, load, loading, clients, tools, served, cleared, abandoned, created, issued>>

-----------------------------------------------------------------------------
(***************************************************************************)
(* Cancellation: of a run's load when the run is cancelled or loses its    *)
(* lease, of a connection test also by its timeout.  While it lists tools, *)
(* the adapter is evicted; while that is being closed, a second            *)
(* cancellation leaves it as it is.                                        *)
(***************************************************************************)
\* What a timeout interrupts, after a faulty version that does not interrupt the
\* wait for the lock.
InterruptibleCalls == {"headers", "request", "list"}

Interruptible == {"headers", "request", "lock", "list"}

Interrupt(l) ==
  /\ load[l].pc \in Interruptible
  /\ IF load[l].pc = "list" THEN Evict(l) ELSE GiveUp(l)

InterruptClose(l) ==
  /\ load[l].pc = "evict"
  /\ abandoned' = abandoned \cup {load[l].client}
  /\ loading' = Free
  /\ End(l, "failed")
  /\ UNCHANGED <<now, provider, clients, tools, open, served, closing, cleared, created, issued>>

Next ==
  \/ Tick \/ Clear \/ CloseCleared
  \/ \E l \in Load :
       \/ \E s \in Server, x \in Secret : Start(l, s, x)
       \/ UseCached(l) \/ Request(l) \/ Denied(l)
       \/ \E lifetime \in Lifetimes : Answered(l, lifetime)
       \/ Reuse(l) \/ Connect(l) \/ Listed(l) \/ ListFails(l) \/ Evicted(l)
       \/ Interrupt(l) \/ InterruptClose(l)

Spec == Init /\ [][Next]_vars

(***************************************************************************)
(* Timeouts of connection tests fire and closing an adapter ends.  Nothing *)
(* obliges a token endpoint or an MCP server to answer.                    *)
(***************************************************************************)
FairSpec ==
  /\ Spec
  /\ \A l \in Load : WF_vars(Evicted(l))
  /\ \A l \in Test : WF_vars(Interrupt(l))

-----------------------------------------------------------------------------
ClientsTypeOK ==
  /\ now \in 0..MaxNow
  /\ cred \in Cred
  /\ cached \in Token \cup {NoToken}
  /\ refreshing \in Load \cup {Free} /\ loading \in Load \cup {Free}
  /\ load \in [Load -> LoadState]
  /\ DOMAIN clients \subseteq Key /\ DOMAIN tools \subseteq Key
  /\ UNION {open, served, closing, cleared, abandoned, Cached(clients), Cached(tools)}
       \subseteq 1..created
  /\ issued \in Nat /\ created \in Nat

CurrentHeaders ==
  /\ cached' # NoToken => cached'.secret = cred'.secret
  /\ \A l \in Load : load[l].pc # "lock" /\ load'[l].pc = "lock" =>
       load'[l].token.secret = cred'.secret

\* The token a load leaves get_headers with, and the one the provider keeps, was
\* issued for the secret the provider has at that moment, although the secret
\* may change while a token request is under way, and change back.
HeadersAreCurrent == [][CurrentHeaders]_vars

\* "A partially started client cannot be reused by a later tool load": while
\* nobody loads, every cached adapter is open and has its tools cached.
CachedClientsWork ==
  loading = Free => clients = tools /\ Cached(clients) \subseteq open

\* The adapter behind the tools a load was given is closed by nobody but
\* clear_adapter_runtime_cache, whichever loads of the same key fail or are
\* cancelled meanwhile.
ServedStayOpen == served \subseteq open \cup cleared

\* No adapter leaks: one that is open is cached, or being closed, or the closing
\* was itself cancelled.
OpenIsOwned ==
  open \subseteq UNION {Cached(clients), closing, abandoned,
                       {load[l].client : l \in {m \in Load : load[m].pc = "evict"}}}

\* A connection test ends, also when the server never answers and when another
\* load holds the lock for ever.
TestsEnd == \A l \in Test : load[l].pc \in Suspended ~> load[l].pc \notin Suspended
=============================================================================
