--------------------------- MODULE McpClients_proofs ---------------------------
(***************************************************************************)
(* The OAuth provider never hands out or keeps a token of credentials it   *)
(* no longer has, and the adapter cache holds open adapters only and leaks *)
(* none.                                                                   *)
(***************************************************************************)
EXTENDS McpClients, TLAPS

\* Facts about the caches as functions.
LEMMA AtCached ==
  ASSUME NEW cache, NEW k
  PROVE  /\ At(cache, k) \in Cached(cache) \cup {None}
         /\ k \notin DOMAIN cache => At(cache, k) = None
         /\ None \notin Cached(cache) /\ At(cache, k) = None => k \notin DOMAIN cache
  BY DEF At, Cached

LEMMA WithCached ==
  ASSUME NEW cache, NEW k, NEW n
  PROVE  /\ DOMAIN With(cache, k, n) = DOMAIN cache \cup {k}
         /\ Cached(With(cache, k, n)) \subseteq Cached(cache) \cup {n}
         /\ n \in Cached(With(cache, k, n))
         /\ k \notin DOMAIN cache => Cached(cache) \subseteq Cached(With(cache, k, n))
  BY DEF With, Cached

LEMMA PopCached ==
  ASSUME NEW cache, NEW k
  PROVE  /\ DOMAIN Pop(cache, k) = DOMAIN cache \ {k}
         /\ Cached(Pop(cache, k)) \subseteq Cached(cache)
  BY DEF Pop, Cached

\* Eviction undoes what the load did to the caches.
LEMMA PopWith ==
  ASSUME NEW cache, NEW k, NEW n, k \notin DOMAIN cache
  PROVE  /\ Pop(With(cache, k, n), k) = Pop(cache, k)
         /\ Cached(Pop(cache, k)) = Cached(cache)
  BY DEF Pop, With, Cached

LEMMA NoneCached == DOMAIN NoCache = {} /\ Cached(NoCache) = {}
  BY DEF NoCache, Cached

-----------------------------------------------------------------------------
(***************************************************************************)
(* Types.  A load's key is one only once it has a token, its adapter is    *)
(* one that was created, and the provider has a secret from the first load *)
(* on.                                                                     *)
(***************************************************************************)
LoadsKnown ==
  \A l \in Load :
    /\ load[l].pc \in Suspended => load[l].server \in Server /\ cred.secret \in Secret
    /\ load[l].pc = "request" => load[l].cred.secret \in Secret
    /\ load[l].pc \in {"lock", "list", "evict"} => load[l].token \in Token
    /\ load[l].pc \in {"list", "evict"} => load[l].client \in 1..created

TypesOK == ClientsTypeOK /\ LoadsKnown

LEMMA IdleType == \A pc \in {"idle", "done", "failed"} : [Idle EXCEPT !.pc = pc] \in LoadState
  BY DEF Idle, LoadState, None, PC, NoCred, Cred

\* What the steps of a load change of it.
LEMMA LoadMoves ==
  ASSUME load \in [Load -> LoadState], NEW l \in Load, NEW pc \in PC
  PROVE  /\ [load EXCEPT ![l].pc = pc] \in [Load -> LoadState]
         /\ \A s \in Server : [load EXCEPT ![l].pc = pc, ![l].server = s] \in [Load -> LoadState]
         /\ \A t \in Token : [load EXCEPT ![l].pc = pc, ![l].token = t] \in [Load -> LoadState]
         /\ \A c \in Cred :
              [load EXCEPT ![l].pc = pc, ![l].cred = c] \in [Load -> LoadState]
         /\ \A n \in Nat : [load EXCEPT ![l].pc = pc, ![l].client = n] \in [Load -> LoadState]
<1>1. [load EXCEPT ![l].pc = pc] \in [Load -> LoadState]
  BY DEF LoadState
<1>2. \A s \in Server : [load EXCEPT ![l].pc = pc, ![l].server = s] \in [Load -> LoadState]
  BY DEF LoadState
<1>3. \A t \in Token : [load EXCEPT ![l].pc = pc, ![l].token = t] \in [Load -> LoadState]
  BY DEF LoadState
<1>4. \A c \in Cred :
        [load EXCEPT ![l].pc = pc, ![l].cred = c] \in [Load -> LoadState]
  BY DEF LoadState
<1>5. \A n \in Nat : [load EXCEPT ![l].pc = pc, ![l].client = n] \in [Load -> LoadState]
  BY DEF LoadState
<1> QED  BY <1>1, <1>2, <1>3, <1>4, <1>5

LEMMA SuspendedPC == Suspended \subseteq PC
  BY DEF PC

LEMMA KeyType ==
  ASSUME TypesOK, NEW l \in Load, load[l].pc \in {"lock", "list", "evict"}
  PROVE  KeyOf(l) \in Key
  BY DEF TypesOK, LoadsKnown, ClientsTypeOK, LoadState, Token, KeyOf, Key, Suspended

LEMMA InitTypes == Init => TypesOK
  BY ClientConstants, NoneCached
     DEF Init, TypesOK, ClientsTypeOK, LoadsKnown, Idle, LoadState, NoCred, Cred, None, PC, Suspended

LEMMA NextTypes == TypesOK /\ [Next]_vars => TypesOK'
<1> SUFFICES ASSUME TypesOK, [Next]_vars PROVE TypesOK'
  OBVIOUS
<1> USE DEF TypesOK, ClientsTypeOK, provider, caches
<1>1. ASSUME UNCHANGED vars PROVE TypesOK'
  BY <1>1 DEF vars, Cached, Token, LoadsKnown
<1>2. ASSUME Tick PROVE TypesOK'
  BY <1>2, ClientConstants DEF Tick, Cached, LoadsKnown
<1>3. ASSUME Clear PROVE TypesOK'
  BY <1>3, NoneCached DEF Clear, Cached, LoadsKnown
<1>4. ASSUME CloseCleared PROVE TypesOK'
  BY <1>4 DEF CloseCleared, Cached, LoadsKnown
<1>5. ASSUME NEW l \in Load, NEW s \in Server, NEW x \in Secret, Start(l, s, x) PROVE TypesOK'
  <2>1. cred' \in [secret : Secret, gen : Nat] /\ cached' \in Token \cup {NoToken}
    BY <1>5, ClientConstants DEF Start, UseCredentials, UpdateCredentials, Cred
  <2>2. load' \in [Load -> LoadState]
    BY <1>5, LoadMoves, SuspendedPC DEF Start, Suspended
  <2>3. LoadsKnown'
    BY <1>5, <2>1 DEF Start, LoadsKnown, LoadState, Suspended
  <2> QED  BY <1>5, <2>1, <2>2, <2>3 DEF Start, Cached, Cred
<1>6. ASSUME NEW l \in Load, UseCached(l) PROVE TypesOK'
  <2>1. cached \in Token
    BY <1>6 DEF UseCached, Fresh
  <2>2. load' \in [Load -> LoadState]
    BY <1>6, <2>1, LoadMoves, SuspendedPC DEF UseCached, Suspended
  <2>3. LoadsKnown'
    BY <1>6, <2>1 DEF UseCached, LoadsKnown, LoadState, Suspended
  <2> QED  BY <1>6, <2>2, <2>3 DEF UseCached, Cached
<1>7. ASSUME NEW l \in Load, Request(l) PROVE TypesOK'
  <2>1. cred.secret \in Secret /\ cred \in Cred
    BY <1>7 DEF Request, LoadsKnown, Suspended
  <2>2. load' \in [Load -> LoadState]
    BY <1>7, <2>1, LoadMoves, SuspendedPC DEF Request, Suspended
  <2>3. LoadsKnown'
    BY <1>7, <2>1 DEF Request, LoadsKnown, LoadState, Suspended
  <2> QED  BY <1>7, <2>2, <2>3 DEF Request, Cached
<1>8. ASSUME NEW l \in Load, GiveUp(l) PROVE TypesOK'
  BY <1>8, IdleType DEF GiveUp, Idle, Cached, LoadsKnown, Suspended
<1>9. ASSUME NEW l \in Load, NEW lifetime \in Lifetimes, Answered(l, lifetime) PROVE TypesOK'
  <2> DEFINE token == [id |-> issued + 1, secret |-> load[l].cred.secret, expires |-> now + lifetime]
  <2>1. token \in Token
    BY <1>9, ClientConstants DEF Answered, Token, LoadsKnown
  <2>2. \/ cached' = token /\ load' = [load EXCEPT ![l].pc = "lock", ![l].token = token]
        \/ UNCHANGED cached /\ load' = [load EXCEPT ![l].pc = "headers"]
    BY <1>9 DEF Answered, Parsed
  <2>3. load[l].pc = "request" /\ issued' = issued + 1 /\ refreshing' = Free
        /\ UNCHANGED <<now, cred, caches>>
    BY <1>9 DEF Answered
  <2> HIDE DEF token
  <2>4. load' \in [Load -> LoadState]
    <3>1. CASE load' = [load EXCEPT ![l].pc = "lock", ![l].token = token]
      BY <2>1, <3>1, LoadMoves, SuspendedPC DEF Suspended
    <3>2. CASE load' = [load EXCEPT ![l].pc = "headers"]
      BY <3>2, LoadMoves, SuspendedPC DEF Suspended
    <3> QED  BY <2>2, <3>1, <3>2
  <2>5. LoadsKnown'
    BY <2>1, <2>2, <2>3 DEF LoadsKnown, LoadState, Suspended
  <2> QED  BY <2>1, <2>2, <2>3, <2>4, <2>5 DEF Cached
<1>10. ASSUME NEW l \in Load, Reuse(l) PROVE TypesOK'
  BY <1>10, IdleType, AtCached DEF Reuse, End, Idle, Cached, LoadsKnown, Suspended
<1>11. ASSUME NEW l \in Load, Connect(l) PROVE TypesOK'
  <2> DEFINE k == KeyOf(l)
             n == IF At(clients, k) # None THEN At(clients, k) ELSE created + 1
  <2>1. k \in Key
    BY <1>11, KeyType DEF Connect
  <2>2. n \in 1..created' /\ created' \in Nat /\ created <= created'
    BY <1>11, AtCached DEF Connect
  <2>3. Cached(clients') \subseteq Cached(clients) \cup {n} /\ DOMAIN clients' = DOMAIN clients \cup {k}
    BY <1>11, WithCached DEF Connect
  <2>4. /\ load' = [load EXCEPT ![l].pc = "list", ![l].client = n] /\ load[l].pc = "lock"
        /\ open' = open \cup {n} /\ loading' = l
        /\ UNCHANGED <<now, provider, tools, served, closing, cleared, abandoned, issued>>
    BY <1>11 DEF Connect
  <2> HIDE DEF n, k
  <2>5. load' \in [Load -> LoadState]
    <3>1. "list" \in PC /\ n \in Nat
      BY <2>2, SuspendedPC DEF Suspended
    <3>2. [load EXCEPT ![l].pc = "list", ![l].client = n] \in [Load -> LoadState]
      BY <3>1, LoadMoves
    <3> QED  BY <2>4, <3>2
  <2>6. LoadsKnown'
    BY <2>2, <2>4 DEF LoadsKnown, LoadState, Suspended
  <2>7. UNION {open, served, closing, cleared, abandoned, Cached(clients), Cached(tools)}' \subseteq 1..created'
    BY <2>2, <2>3, <2>4 DEF Cached
  <2> QED  BY <2>1, <2>2, <2>3, <2>4, <2>5, <2>6, <2>7
<1>12. ASSUME NEW l \in Load, Listed(l) PROVE TypesOK'
  <2>1. load[l].pc = "list" /\ KeyOf(l) \in Key /\ load[l].client \in 1..created
    BY <1>12, KeyType DEF Listed, LoadsKnown
  <2>2. tools' = With(tools, KeyOf(l), load[l].client)
    BY <1>12 DEF Listed
  <2>3. DOMAIN tools' \subseteq Key /\ Cached(tools') \subseteq 1..created
    <3>1. DOMAIN tools' = DOMAIN tools \cup {KeyOf(l)} /\ Cached(tools') \subseteq Cached(tools) \cup {load[l].client}
      BY <2>2, WithCached
    <3> QED  BY <2>1, <3>1
  <2>4. load' \in [Load -> LoadState] /\ LoadsKnown'
    BY <1>12, IdleType DEF Listed, End, Idle, LoadsKnown, Suspended
  <2>5. UNION {open, served, closing, cleared, abandoned, Cached(clients), Cached(tools)}' \subseteq 1..created'
    BY <1>12, <2>1, <2>3 DEF Listed, Cached
  <2> QED  BY <1>12, <2>3, <2>4, <2>5 DEF Listed
<1>13. ASSUME NEW l \in Load, load[l].pc = "list", Evict(l) PROVE TypesOK'
  <2>1. /\ tools' = Pop(tools, KeyOf(l)) /\ clients' = Pop(clients, KeyOf(l))
        /\ load' = [load EXCEPT ![l].pc = "evict"]
        /\ UNCHANGED <<now, provider, loading, open, served, closing, cleared, abandoned, created, issued>>
    BY <1>13 DEF Evict, EvictBoth
  <2>2. /\ DOMAIN tools' \subseteq Key /\ Cached(tools') \subseteq Cached(tools)
        /\ DOMAIN clients' \subseteq Key /\ Cached(clients') \subseteq Cached(clients)
    <3>1. /\ DOMAIN tools' = DOMAIN tools \ {KeyOf(l)} /\ Cached(tools') \subseteq Cached(tools)
          /\ DOMAIN clients' = DOMAIN clients \ {KeyOf(l)} /\ Cached(clients') \subseteq Cached(clients)
      BY <2>1, PopCached
    <3> QED  BY <3>1
  <2>3. load' \in [Load -> LoadState]
    BY <2>1, LoadMoves, SuspendedPC DEF Suspended
  <2>4. LoadsKnown'
    BY <1>13, <2>1 DEF LoadsKnown, LoadState, Suspended
  <2>5. UNION {open, served, closing, cleared, abandoned, Cached(clients), Cached(tools)}' \subseteq 1..created'
    BY <2>1, <2>2 DEF Cached
  <2> QED  BY <2>1, <2>2, <2>3, <2>4, <2>5
<1>14. ASSUME NEW l \in Load, Evicted(l) PROVE TypesOK'
  BY <1>14, IdleType DEF Evicted, Close, End, Idle, Cached, LoadsKnown, Suspended
<1>15. ASSUME NEW l \in Load, InterruptClose(l) PROVE TypesOK'
  BY <1>15, IdleType DEF InterruptClose, End, Idle, Cached, LoadsKnown, Suspended
<1> QED
  BY <1>1, <1>2, <1>3, <1>4, <1>5, <1>6, <1>7, <1>8, <1>9, <1>10, <1>11, <1>12, <1>13, <1>14, <1>15
     DEF Next, Denied, ListFails, Interrupt, Interruptible

\* The clients of MCP servers are type correct.
THEOREM ClientsTypeCorrect == Spec => []ClientsTypeOK
<1>1. Spec => []TypesOK
  BY InitTypes, NextTypes, PTL DEF Spec
<1>2. TypesOK => ClientsTypeOK
  BY DEF TypesOK
<1> QED  BY <1>1, <1>2, PTL

-----------------------------------------------------------------------------
(***************************************************************************)
(* The provider's token is of the provider's secret, and the generation    *)
(* tells a request of the present secret from one of an earlier secret,    *)
(* even when the secrets are the same again.                               *)
(***************************************************************************)
CredentialsOK ==
  /\ cached # NoToken => cached.secret = cred.secret
  /\ \A l \in Load : load[l].pc = "request" =>
       /\ load[l].cred.gen <= cred.gen
       /\ load[l].cred.gen = cred.gen => load[l].cred.secret = cred.secret

LEMMA InitCredentials == Init => CredentialsOK
  BY DEF Init, CredentialsOK, Idle

LEMMA NextCredentials ==
  TypesOK /\ CredentialsOK /\ [Next]_vars => CredentialsOK' /\ (UNCHANGED vars \/ CurrentHeaders)
<1> SUFFICES ASSUME TypesOK, CredentialsOK, [Next]_vars
             PROVE  CredentialsOK' /\ (UNCHANGED vars \/ CurrentHeaders)
  OBVIOUS
<1> USE DEF CredentialsOK, CurrentHeaders, provider, caches
<1>0. /\ load \in [Load -> LoadState] /\ cred \in Cred
      /\ cached \in Token \cup {NoToken} /\ issued \in Nat
      /\ \A l \in Load : load[l].pc \in Suspended => cred.secret \in Secret
  BY DEF TypesOK, ClientsTypeOK, LoadsKnown
<1>1. ASSUME UNCHANGED vars PROVE CredentialsOK' /\ (UNCHANGED vars \/ CurrentHeaders)
  BY <1>1 DEF vars
<1>2. ASSUME NEW l \in Load, NEW s \in Server, NEW x \in Secret, Start(l, s, x)
      PROVE  CredentialsOK' /\ CurrentHeaders
  <2>1. load' = [load EXCEPT ![l].pc = "headers", ![l].server = s]
    BY <1>2 DEF Start
  <2>2. \A m \in Load : /\ load'[m].cred = load[m].cred
                        /\ load'[m].pc = load[m].pc \/ load'[m].pc = "headers"
    BY <1>0, <2>1 DEF LoadState
  <2>3. CASE x = cred.secret
    BY <1>2, <2>2, <2>3, ClientConstants DEF Start, UseCredentials, UpdateCredentials
  <2>4. CASE x # cred.secret
    <3>1. cached' = NoToken
      BY <1>2, <2>4 DEF Start, UseCredentials, UpdateCredentials
    <3>2. CASE cred.secret = NoSecret
      BY <1>0, <2>2, <3>1, <3>2, ClientConstants DEF Suspended
    <3>3. CASE cred.secret # NoSecret
      <4>1. cred' = [secret |-> x, gen |-> cred.gen + 1]
        BY <1>2, <2>4, <3>3 DEF Start, UseCredentials, UpdateCredentials
      <4>2. \A m \in Load : load[m].cred.gen \in Nat
        BY <1>0 DEF LoadState, Cred
      <4> QED  BY <1>0, <2>2, <3>1, <4>1, <4>2 DEF Cred
    <3> QED  BY <3>2, <3>3
  <2> QED  BY <2>3, <2>4
<1>3. ASSUME NEW l \in Load, UseCached(l) PROVE CredentialsOK' /\ CurrentHeaders
  <2>1. load' = [load EXCEPT ![l].pc = "lock", ![l].token = cached] /\ cached # NoToken
        /\ UNCHANGED <<cred, cached>>
    BY <1>3 DEF UseCached, Fresh
  <2> QED  BY <1>0, <2>1 DEF LoadState
<1>4. ASSUME NEW l \in Load, Request(l) PROVE CredentialsOK' /\ CurrentHeaders
  <2>1. /\ load' = [load EXCEPT ![l].pc = "request", ![l].cred = cred]
        /\ UNCHANGED <<cred, cached>>
    BY <1>4 DEF Request
  <2> QED  BY <1>0, <2>1 DEF LoadState, Cred
<1>5. ASSUME NEW l \in Load, NEW lifetime \in Lifetimes, Answered(l, lifetime)
      PROVE  CredentialsOK' /\ CurrentHeaders
  <2> DEFINE token == [id |-> issued + 1, secret |-> load[l].cred.secret, expires |-> now + lifetime]
  <2>1. /\ load[l].pc = "request" /\ UNCHANGED cred /\ token.secret = load[l].cred.secret
        /\ \/ /\ load[l].cred.gen = cred.gen
              /\ cached' = token /\ load' = [load EXCEPT ![l].pc = "lock", ![l].token = token]
           \/ UNCHANGED cached /\ load' = [load EXCEPT ![l].pc = "headers"]
    BY <1>5 DEF Answered, Parsed, StillCurrent
  <2> HIDE DEF token
  <2> QED  BY <1>0, <2>1 DEF LoadState
<1>6. ASSUME NEW l \in Load, UNCHANGED <<cred, cached>>,
             \A m \in Load : load'[m] = load[m] \/ load'[m].pc \in {"list", "evict", "done", "failed"}
      PROVE  CredentialsOK' /\ CurrentHeaders
  BY <1>6
<1>7. ASSUME NEW l \in Load,
             \/ GiveUp(l) \/ Reuse(l) \/ Connect(l) \/ Listed(l) \/ Evict(l) \/ Evicted(l) \/ InterruptClose(l)
      PROVE  CredentialsOK' /\ CurrentHeaders
  <2>1. UNCHANGED <<cred, cached>>
    BY <1>7 DEF GiveUp, Reuse, Connect, Listed, Evict, Evicted, InterruptClose
  <2>2. \A m \in Load : load'[m] = load[m] \/ load'[m].pc \in {"list", "evict", "done", "failed"}
    BY <1>0, <1>7 DEF GiveUp, Reuse, Connect, Listed, Evict, Evicted, InterruptClose, End, Idle, LoadState
  <2> QED  BY <1>6, <2>1, <2>2
<1>8. ASSUME Tick \/ Clear \/ CloseCleared PROVE CredentialsOK' /\ CurrentHeaders
  BY <1>8 DEF Tick, Clear, CloseCleared
<1> QED
  BY <1>1, <1>2, <1>3, <1>4, <1>5, <1>7, <1>8 DEF Next, Denied, ListFails, Interrupt

\* The token a load leaves get_headers with, and the one the provider keeps, was
\* issued for the secret the provider has at that moment, however the secrets
\* change while requests are under way.
THEOREM HeadersAlwaysCurrent == Spec => HeadersAreCurrent
<1>1. Init => TypesOK /\ CredentialsOK
  BY InitTypes, InitCredentials
<1>2. TypesOK /\ CredentialsOK /\ [Next]_vars => (TypesOK /\ CredentialsOK)'
  BY NextTypes, NextCredentials
<1>3. TypesOK /\ CredentialsOK /\ [Next]_vars => [CurrentHeaders]_vars
  BY NextCredentials
<1> QED  BY <1>1, <1>2, <1>3, PTL DEF Spec, HeadersAreCurrent

-----------------------------------------------------------------------------
(***************************************************************************)
(* The caches.  Only the load that has the client lock is between listing  *)
(* tools and the end, and the one entry by which the two caches differ     *)
(* then is its own, of an adapter nobody else knows.  So evicting that     *)
(* entry makes the caches the same again, and closing the adapter closes   *)
(* it under nobody.                                                        *)
(***************************************************************************)
Loading(l) == load[l].pc \in {"list", "evict"}

CachesOK ==
  /\ \A l \in Load : Loading(l) <=> loading = l
  /\ loading = Free => clients = tools
  /\ \A l \in Load :
       /\ load[l].pc = "list" =>
            KeyOf(l) \notin DOMAIN tools /\ clients = With(tools, KeyOf(l), load[l].client)
       /\ load[l].pc = "evict" => clients = tools
       /\ Loading(l) => /\ load[l].client \in open
                        /\ load[l].client \notin served \cup cleared \cup Cached(tools)
  /\ Cached(tools) \subseteq open /\ Cached(tools) \cap cleared = {}
  /\ closing \subseteq cleared
  /\ ServedStayOpen
  /\ OpenIsOwned

LEMMA InitCaches == Init => CachesOK
  BY ClientConstants, NoneCached
     DEF Init, CachesOK, Idle, Loading, ServedStayOpen, OpenIsOwned

\* A step of a load up to the client lock.
LEMMA BeforeLock ==
  ASSUME TypesOK, CachesOK, UNCHANGED caches, NEW l \in Load,
         ~Loading(l), ~Loading(l)', \A m \in Load \ {l} : load'[m] = load[m]
  PROVE  CachesOK'
<1>1. \A m \in Load : /\ Loading(m)' = Loading(m)
                      /\ Loading(m) => load'[m] = load[m]
  BY DEF Loading
<1> QED
  BY <1>1 DEF CachesOK, Loading, caches, KeyOf, ServedStayOpen, OpenIsOwned, Cached

LEMMA NextCaches == TypesOK /\ CachesOK /\ [Next]_vars => CachesOK'
<1> SUFFICES ASSUME TypesOK, CachesOK, [Next]_vars PROVE CachesOK'
  OBVIOUS
<1> USE DEF CachesOK, ServedStayOpen, OpenIsOwned
<1>0. /\ load \in [Load -> LoadState] /\ created \in Nat
      /\ Cached(tools) \subseteq 1..created /\ Cached(clients) \subseteq 1..created
      /\ open \cup served \cup closing \cup cleared \cup abandoned \subseteq 1..created
      /\ None \notin Cached(tools)
  BY DEF TypesOK, ClientsTypeOK, None
<1>1. ASSUME UNCHANGED <<load, caches>> PROVE CachesOK'
  BY <1>1 DEF caches, Loading, KeyOf, Cached
<1>2. ASSUME NEW l \in Load,
             \/ \E s \in Server, x \in Secret : Start(l, s, x)
             \/ UseCached(l) \/ Request(l)
             \/ \E lifetime \in Lifetimes : Answered(l, lifetime)
             \/ load[l].pc \in {"headers", "request", "lock"} /\ GiveUp(l)
      PROVE  CachesOK'
  <2>1. UNCHANGED caches /\ ~Loading(l) /\ \A m \in Load \ {l} : load'[m] = load[m]
    BY <1>0, <1>2 DEF Start, UseCached, Request, Answered, GiveUp, Loading
  <2>2. load'[l].pc \in {"headers", "request", "lock", "failed"}
    BY <1>0, <1>2 DEF Start, UseCached, Request, Answered, GiveUp, LoadState, Idle
  <2> QED  BY <2>1, <2>2, BeforeLock DEF Loading
<1>3. ASSUME NEW l \in Load, Reuse(l) PROVE CachesOK'
  <2>1. At(tools, KeyOf(l)) \in Cached(tools) /\ loading = Free /\ \A m \in Load : ~Loading(m)
    BY <1>3, AtCached, ClientConstants DEF Reuse, LockFree
  <2>2. \A m \in Load : ~Loading(m)'
    BY <1>0, <1>3, <2>1 DEF Reuse, End, Idle, Loading
  <2> QED  BY <1>3, <2>1, <2>2, ClientConstants DEF Reuse, Loading, Cached
<1>4. ASSUME NEW l \in Load, Connect(l) PROVE CachesOK'
  <2> DEFINE k == KeyOf(l)
             n == created + 1
  <2>1. loading = Free /\ clients = tools /\ k \notin DOMAIN tools /\ \A m \in Load : ~Loading(m)
    BY <1>0, <1>4, AtCached, ClientConstants DEF Connect, LockFree
  <2>2. At(clients, k) = None
    BY <2>1, AtCached
  <2>3. /\ clients' = With(tools, k, n) /\ open' = open \cup {n} /\ loading' = l
        /\ UNCHANGED <<tools, served, closing, cleared, abandoned>>
    BY <1>4, <2>1, <2>2 DEF Connect
  <2>4. load' = [load EXCEPT ![l].pc = "list", ![l].client = n]
    BY <1>4, <2>2 DEF Connect
  <2>5. /\ load'[l].pc = "list" /\ load'[l].client = n /\ KeyOf(l)' = k
        /\ \A m \in Load \ {l} : load'[m] = load[m]
    BY <1>0, <2>4 DEF LoadState, KeyOf
  <2>6. \A m \in Load : Loading(m)' <=> m = l
    BY <2>1, <2>5 DEF Loading
  <2>7. n \notin 1..created
    BY <1>0
  <2>8. n \notin open \cup served \cup cleared \cup Cached(tools)
    BY <1>0, <2>7
  <2>9. Cached(tools) \cup {n} \subseteq Cached(clients')
    BY <2>1, <2>3, WithCached
  <2>10. OpenIsOwned'
    <3> SUFFICES ASSUME NEW a \in open'
                 PROVE  a \in Cached(clients') \cup closing \cup abandoned
      BY <2>3
    <3> QED  BY <2>1, <2>3, <2>9 DEF Loading
  <2> HIDE DEF k, n
  <2> QED  BY <2>1, <2>3, <2>5, <2>6, <2>8, <2>10, ClientConstants DEF Loading, Cached
<1>5. ASSUME NEW l \in Load, Listed(l) PROVE CachesOK'
  <2>1. /\ load[l].pc = "list" /\ loading = l /\ loading' = Free
        /\ clients = With(tools, KeyOf(l), load[l].client) /\ tools' = clients /\ clients' = clients
        /\ served' = served \cup {load[l].client}
        /\ UNCHANGED <<open, closing, cleared, abandoned>>
    BY <1>5 DEF Listed, Loading
  <2>2. Cached(tools') \subseteq Cached(tools) \cup {load[l].client}
    <3>1. tools' = With(tools, KeyOf(l), load[l].client)
      BY <2>1
    <3> QED  BY <3>1, WithCached
  <2>3. \A m \in Load : ~Loading(m)' /\ (load[m].pc # "evict")
    BY <1>0, <1>5, <2>1 DEF Listed, End, Idle, Loading
  <2>4. Cached(clients') = Cached(clients)
    BY <2>1
  <2>5. OpenIsOwned'
    BY <2>1, <2>3, <2>4
  <2> QED  BY <2>1, <2>2, <2>3, <2>5, ClientConstants DEF Loading
<1>6. ASSUME NEW l \in Load, load[l].pc = "list", Evict(l) PROVE CachesOK'
  <2> DEFINE k == KeyOf(l)
             n == load[l].client
  <2>1. /\ loading = l /\ k \notin DOMAIN tools /\ clients = With(tools, k, n)
        /\ \A m \in Load : Loading(m) <=> m = l
    BY <1>6 DEF Loading
  <2>2. /\ tools' = Pop(tools, k) /\ clients' = Pop(clients, k)
        /\ UNCHANGED <<loading, open, served, closing, cleared, abandoned>>
        /\ load' = [load EXCEPT ![l].pc = "evict"]
    BY <1>6 DEF Evict, EvictBoth
  <2> HIDE DEF k, n
  <2>3. clients' = tools' /\ Cached(tools') = Cached(tools) /\ Cached(clients') = Cached(tools)
    BY <2>1, <2>2, PopWith
  <2>4. Cached(clients) \subseteq Cached(tools) \cup {n}
    BY <2>1, WithCached
  <2>5. /\ load'[l].pc = "evict" /\ load'[l].client = n
        /\ \A m \in Load \ {l} : load'[m] = load[m]
    BY <1>0, <2>2 DEF LoadState, n
  <2>6. \A m \in Load : Loading(m)' <=> m = l
    BY <2>1, <2>5 DEF Loading
  <2>7. n \in open /\ n \notin served \cup cleared \cup Cached(tools)
    BY <2>1 DEF n
  <2>8. OpenIsOwned'
    <3> SUFFICES ASSUME NEW a \in open
                 PROVE  a \in Cached(clients') \cup closing \cup abandoned \cup {load'[l].client}
      BY <2>2, <2>5
    <3>1. \A m \in Load : load[m].pc # "evict"
      BY <1>6, <2>1 DEF Loading
    <3> QED  BY <2>3, <2>4, <2>5, <3>1
  <2> QED  BY <2>1, <2>2, <2>3, <2>5, <2>6, <2>7, <2>8, ClientConstants DEF Loading
<1>7. ASSUME NEW l \in Load, Evicted(l) PROVE CachesOK'
  <2>1. /\ load[l].pc = "evict" /\ loading = l /\ loading' = Free /\ clients = tools
        /\ UNCHANGED <<clients, tools, served, closing, cleared, abandoned>>
        /\ open' = open \ {load[l].client}
    BY <1>7 DEF Evicted, Close, Loading
  <2>2. \A m \in Load : ~Loading(m)' /\ (m # l => ~Loading(m))
    BY <1>0, <1>7, <2>1 DEF Evicted, End, Idle, Loading
  <2>3. Cached(tools') = Cached(tools) /\ Cached(clients') = Cached(clients)
    BY <2>1
  <2>4. OpenIsOwned'
    BY <2>1, <2>2, <2>3 DEF Loading
  <2> QED  BY <2>1, <2>2, <2>3, <2>4, ClientConstants DEF Loading
<1>8. ASSUME NEW l \in Load, InterruptClose(l) PROVE CachesOK'
  <2>1. /\ load[l].pc = "evict" /\ loading = l /\ loading' = Free /\ clients = tools
        /\ UNCHANGED <<clients, tools, open, served, closing, cleared>>
        /\ abandoned' = abandoned \cup {load[l].client}
    BY <1>8 DEF InterruptClose, Loading
  <2>2. \A m \in Load : ~Loading(m)' /\ (m # l => ~Loading(m))
    BY <1>0, <1>8, <2>1 DEF InterruptClose, End, Idle, Loading
  <2>3. Cached(tools') = Cached(tools) /\ Cached(clients') = Cached(clients)
    BY <2>1
  <2>4. OpenIsOwned'
    BY <2>1, <2>2, <2>3 DEF Loading
  <2> QED  BY <2>1, <2>2, <2>3, <2>4, ClientConstants DEF Loading
<1>9. ASSUME Clear PROVE CachesOK'
  <2>1. /\ loading = Free /\ clients = tools /\ closing = {}
        /\ closing' = Cached(clients) /\ cleared' = cleared \cup Cached(clients)
        /\ Cached(clients') = {} /\ Cached(tools') = {} /\ clients' = tools'
        /\ UNCHANGED <<load, loading, open, served, abandoned>>
    BY <1>9, NoneCached DEF Clear, LockFree
  <2>2. \A m \in Load : ~Loading(m)' /\ ~Loading(m)
    BY <2>1, ClientConstants DEF Loading
  <2> QED  BY <2>1, <2>2, ClientConstants DEF Loading
<1>10. ASSUME CloseCleared PROVE CachesOK'
  <2>1. PICK n \in closing : closing' = closing \ {n} /\ open' = open \ {n}
    BY <1>10 DEF CloseCleared
  <2>2. UNCHANGED <<load, loading, clients, tools, served, cleared, abandoned>>
    BY <1>10 DEF CloseCleared
  <2>3. n \in cleared /\ n \notin Cached(tools) /\ \A m \in Load : Loading(m) => load[m].client # n
    BY <2>1
  <2>4. Cached(tools') = Cached(tools) /\ Cached(clients') = Cached(clients)
        /\ \A m \in Load : (Loading(m)' <=> Loading(m)) /\ KeyOf(m)' = KeyOf(m)
    BY <2>2 DEF Loading, KeyOf
  <2>5. OpenIsOwned'
    BY <2>1, <2>2, <2>4
  <2> QED  BY <2>1, <2>2, <2>3, <2>4, <2>5
<1> QED
  BY <1>1, <1>2, <1>3, <1>4, <1>5, <1>6, <1>7, <1>8, <1>9, <1>10
     DEF Next, Tick, vars, Denied, ListFails, Interrupt, Interruptible, caches

LEMMA CachesAlwaysOK == Spec => [](TypesOK /\ CachesOK)
<1>1. Init => TypesOK /\ CachesOK
  BY InitTypes, InitCaches
<1>2. TypesOK /\ CachesOK /\ [Next]_vars => (TypesOK /\ CachesOK)'
  BY NextTypes, NextCaches
<1> QED  BY <1>1, <1>2, PTL DEF Spec

\* While nobody loads, every cached adapter is open and has its tools cached: a
\* partially started one is never left for a later load.
THEOREM CachedClientsAlwaysWork == Spec => []CachedClientsWork
<1>1. CachesOK => CachedClientsWork
  BY DEF CachesOK, CachedClientsWork
<1> QED  BY <1>1, CachesAlwaysOK, PTL

\* Nobody but clear_adapter_runtime_cache closes an adapter whose tools a load
\* was given.
THEOREM ServedAlwaysOpen == Spec => []ServedStayOpen
<1>1. CachesOK => ServedStayOpen
  BY DEF CachesOK
<1> QED  BY <1>1, CachesAlwaysOK, PTL

\* No open adapter is forgotten, but one whose closing was itself cancelled.
THEOREM OpenAlwaysOwned == Spec => []OpenIsOwned
<1>1. CachesOK => OpenIsOwned
  BY DEF CachesOK
<1> QED  BY <1>1, CachesAlwaysOK, PTL
=============================================================================
