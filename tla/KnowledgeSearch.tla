---------------------------- MODULE KnowledgeSearch ----------------------------
(***************************************************************************)
(* What the Oracle knowledge MCP server answers                            *)
(* (src/mcp_servers/oracle_knowledge.py over OracleKnowledgeService).      *)
(*                                                                         *)
(* A search depends on its request and on what its providers do: the       *)
(* embedding, the vector store and the reranker may each fail or hang, and *)
(* a deadline ends the whole.  ServedSearch is the set of results that a   *)
(* request may have, SearchContract what a client may rely on.             *)
(***************************************************************************)
EXTENDS Naturals, Sequences

CONSTANTS
  Chunk,           \* what collections hold
  Name,            \* knowledge bases that requests may name
  NoName,          \* no knowledge base named, or none shown
  KnowledgeBase,   \* the allowed ones
  Default,         \* _default_key
  Holdings,        \* the chunks in the collection of each allowed one
  ResultLimit, CandidateLimit, DefaultCandidates, HardLimit, \* bounds of requests
  EnableReranker, AllowOverride

ASSUME SearchConstants ==
  /\ KnowledgeBase \subseteq Name /\ NoName \notin Name /\ Default \in KnowledgeBase
  /\ Holdings \in [KnowledgeBase -> SUBSET Chunk]
  /\ {ResultLimit, CandidateLimit, DefaultCandidates, HardLimit} \subseteq Nat \ {0}
  /\ {EnableReranker, AllowOverride} \subseteq BOOLEAN

\* candidates = 0 stands for a request that leaves candidate_limit open; long, for
\* a query beyond max_query_length.
Request ==
  [kb : Name \cup {NoName}, limit : 0..HardLimit + 1, candidates : 0..HardLimit + 1,
   rerank : {"unset", "on", "off"}, long : BOOLEAN,
   filters : {"none", "allowed", "unsupported", "too_many"}]

\* The checks of SearchKnowledgeRequest, made before the service is asked.
Valid(req) == req.limit \in 1..HardLimit /\ req.candidates <= HardLimit

Selected(kb) == IF kb = NoName THEN Default ELSE kb
Public(kb) == IF Selected(kb) \in KnowledgeBase THEN Selected(kb) ELSE NoName

Exceeds(req) ==
  \/ req.long \/ req.limit > ResultLimit \/ req.candidates > CandidateLimit
  \/ req.filters = "too_many"

Refused(outcome, kb) ==
  [outcome |-> outcome, kb |-> kb, reranking |-> "disabled", evidence |-> <<>>]

\* What retrieve and rerank return: some of the chunks in some order.
Rankings(chunks, n) ==
  UNION {{s \in [1..m -> chunks] : \A i, j \in 1..m : s[i] = s[j] => i = j} : m \in 0..n}
ChunksOf(s) == {s[i] : i \in DOMAIN s}

Larger(a, b) == IF a < b THEN b ELSE a
Retrieved(req) ==
  Rankings(Holdings[Selected(req.kb)],
           Larger(req.limit, IF req.candidates = 0 THEN DefaultCandidates ELSE req.candidates))

\* A failed reranking leaves the order of the retrieval.
Reranks(req) == IF req.rerank = "unset" THEN EnableReranker ELSE req.rerank = "on"
Orders(req, found) ==
  IF Reranks(req) /\ found # <<>>
  THEN [status : {"applied"}, docs : Rankings(ChunksOf(found), Len(found))]
         \cup {[status |-> "failed", docs |-> found]}
  ELSE {[status |-> "disabled", docs |-> found]}

\* _evidence: at most limit results, numbered from 1.
Ranks(req, docs) ==
  [i \in 1..(IF Len(docs) < req.limit THEN Len(docs) ELSE req.limit) |->
     [chunk |-> docs[i], rank |-> i]]

Answered(req, r) ==
  [outcome |-> IF Ranks(req, r.docs) = <<>> THEN "no_hits" ELSE "success",
   kb |-> Selected(req.kb), reranking |-> r.status, evidence |-> Ranks(req, r.docs)]

\* search: the refusals in their order; whatever a provider does to the rest, and
\* the deadline, end it as a backend error or with an answer.
Search(req) ==
  IF Exceeds(req) THEN {Refused("invalid_request", Public(req.kb))}
  ELSE IF Selected(req.kb) \notin KnowledgeBase THEN {Refused("forbidden", NoName)}
  ELSE IF req.filters = "unsupported" \/ (req.rerank # "unset" /\ ~AllowOverride)
  THEN {Refused("invalid_request", Selected(req.kb))}
  ELSE {Refused("backend_error", Public(req.kb))}
         \cup UNION {{Answered(req, r) : r \in Orders(req, found)} : found \in Retrieved(req)}

\* search_knowledge
ServedSearch(req) ==
  IF Valid(req) THEN Search(req)
  ELSE {Refused("invalid_request", IF req.kb \in KnowledgeBase THEN req.kb ELSE NoName)}

\* list_documents
Listings(kb) ==
  IF Selected(kb) \notin KnowledgeBase
  THEN {[outcome |-> "forbidden", kb |-> NoName, documents |-> {}]}
  ELSE {[outcome |-> "backend_error", kb |-> Selected(kb), documents |-> {}],
        [outcome |-> IF Holdings[Selected(kb)] = {} THEN "no_hits" ELSE "success",
         kb |-> Selected(kb), documents |-> Holdings[Selected(kb)]]}

-----------------------------------------------------------------------------
\* Evidence is what a success has and nothing else does; it comes from the one
\* collection the result names, which is allowed and the one asked for, without
\* repetition, ranked from 1, and within the limit of the request and of the
\* deployment.  A name that is not allowed is never echoed.
ContractOf(req, r) ==
  /\ r.outcome = "success" <=> r.evidence # <<>>
  /\ r.kb \in KnowledgeBase \cup {NoName} /\ (r.kb # NoName => r.kb = Selected(req.kb))
  /\ r.evidence # <<>> =>
       /\ r.kb # NoName /\ ~Exceeds(req)
       /\ Len(r.evidence) <= req.limit /\ Len(r.evidence) <= ResultLimit
       /\ \A i \in DOMAIN r.evidence :
            /\ r.evidence[i].rank = i /\ r.evidence[i].chunk \in Holdings[r.kb]
            /\ \A j \in DOMAIN r.evidence :
                 r.evidence[i].chunk = r.evidence[j].chunk => i = j

\* What a client of search_knowledge and list_documents may rely on, whatever
\* the providers do.
SearchContract ==
  /\ \A req \in Request : \A r \in ServedSearch(req) : ContractOf(req, r)
  /\ \A kb \in Name \cup {NoName} : \A r \in Listings(kb) :
       /\ r.documents # {} => r.outcome = "success" /\ r.documents = Holdings[r.kb]
       /\ r.kb \in KnowledgeBase \cup {NoName} /\ (r.kb # NoName => r.kb = Selected(kb))
=============================================================================
