--------------------------- MODULE McpSettings_proofs ---------------------------
(***************************************************************************)
(* Proofs about McpSettings: for every set of servers, pages and secrets,  *)
(* every environment's MCP_SERVERS_CONFIG and every number of requests     *)
(* under way, the pages show what is stored and the store implements       *)
(* ServerRegistry.                                                         *)
(***************************************************************************)
EXTENDS McpSettings, SequenceTheorems, FiniteSetTheorems, TLAPS

-----------------------------------------------------------------------------
\* Sequences.

LEMMA DomainOfSeq ==
  ASSUME NEW S, NEW s \in Seq(S)
  PROVE  DOMAIN s = 1 .. Len(s) /\ Len(s) \in Nat
  BY LenProperties

\* Removing an element moves what follows it forward by one.
LEMMA RemoveAtFacts ==
  ASSUME NEW S, NEW s \in Seq(S), NEW i \in 1 .. Len(s)
  PROVE  /\ RemoveAt(s, i) \in Seq(S)
         /\ Len(RemoveAt(s, i)) = Len(s) - 1
         /\ \A k \in 1 .. Len(s) - 1 :
              RemoveAt(s, i)[k] = IF k < i THEN s[k] ELSE s[k + 1]
<1> DEFINE front == SubSeq(s, 1, i - 1)
           back  == SubSeq(s, i + 1, Len(s))
<1>0. Len(s) \in Nat /\ \A k \in 1 .. Len(s) : s[k] \in S
  BY LenProperties, ElementOfSeq
<1>1. /\ front \in Seq(S) /\ Len(front) = i - 1
      /\ \A k \in 1 .. i - 1 : front[k] = s[k]
  BY <1>0, SubSeqProperties, Z3
<1>2. /\ back \in Seq(S) /\ Len(back) = Len(s) - i
      /\ \A k \in 1 .. Len(s) - i : back[k] = s[i + k]
  BY <1>0, SubSeqProperties, Z3
<1>3. /\ front \o back \in Seq(S) /\ Len(front \o back) = Len(s) - 1
      /\ \A k \in 1 .. Len(s) - 1 :
           (front \o back)[k] = IF k <= i - 1 THEN front[k] ELSE back[k - (i - 1)]
  <2> HIDE DEF front, back
  <2> QED BY <1>0, <1>1, <1>2, ConcatProperties
<1>4. RemoveAt(s, i) = front \o back
  BY DEF RemoveAt
<1> HIDE DEF front, back
<1> QED BY <1>0, <1>1, <1>2, <1>3, <1>4

\* What is left of a sequence keeps its order, and nothing else is lost.
LEMMA RemoveAtKeeps ==
  ASSUME NEW S, NEW s \in Seq(S), NEW i \in DOMAIN s, NEW t, t = RemoveAt(s, i)
  PROVE  /\ t \in Seq(S)
         /\ \A k \in DOMAIN t :
              LET j == IF k < i THEN k ELSE k + 1
              IN  j \in DOMAIN s /\ j # i /\ t[k] = s[j]
         /\ \A j \in DOMAIN s : j # i =>
              LET k == IF j < i THEN j ELSE j - 1
              IN  k \in DOMAIN t /\ t[k] = s[j]
<1>1. DOMAIN s = 1 .. Len(s) /\ Len(s) \in Nat
  BY LenProperties
<1>2. /\ t \in Seq(S) /\ Len(t) = Len(s) - 1
      /\ \A k \in 1 .. Len(s) - 1 : t[k] = IF k < i THEN s[k] ELSE s[k + 1]
  BY <1>1, RemoveAtFacts
<1>3. DOMAIN t = 1 .. Len(s) - 1
  BY <1>1, <1>2, LenProperties
<1>4. ASSUME NEW k \in DOMAIN t
      PROVE  LET j == IF k < i THEN k ELSE k + 1
             IN  j \in DOMAIN s /\ j # i /\ t[k] = s[j]
  BY <1>1, <1>2, <1>3
<1>5. ASSUME NEW j \in DOMAIN s, j # i
      PROVE  LET k == IF j < i THEN j ELSE j - 1
             IN  k \in DOMAIN t /\ t[k] = s[j]
  BY <1>1, <1>2, <1>3, <1>5
<1> QED BY <1>2, <1>4, <1>5

LEMMA AppendFacts ==
  ASSUME NEW S, NEW s \in Seq(S), NEW e \in S
  PROVE  /\ Append(s, e) \in Seq(S)
         /\ DOMAIN s = 1 .. Len(s) /\ Len(s) \in Nat
         /\ DOMAIN Append(s, e) = 1 .. Len(s) + 1
         /\ \A k \in 1 .. Len(s) : Append(s, e)[k] = s[k]
         /\ Append(s, e)[Len(s) + 1] = e
  BY AppendProperties, LenProperties

LEMMA MappedSeq ==
  ASSUME NEW S, NEW n \in Nat, NEW f \in [1 .. n -> S]
  PROVE  f \in Seq(S) /\ Len(f) = n
  OBVIOUS

\* The sequence of the elements of a finite set holds each once.
LEMMA SetToSeqFacts ==
  ASSUME NEW S, IsFiniteSet(S), NEW s, s = SetToSeq(S)
  PROVE  /\ s \in Seq(S)
         /\ \A i, j \in DOMAIN s : s[i] = s[j] => i = j
<1>1. /\ Cardinality(S) \in Nat
      /\ \E f \in [1 .. Cardinality(S) -> S] : IsInjective(f)
  BY FS_CardinalityType DEF ExistsBijection, Bijection, Injection, IsInjective
<1>2. s \in [1 .. Cardinality(S) -> S] /\ IsInjective(s)
  BY <1>1 DEF SetToSeq
<1> QED BY <1>1, <1>2, MappedSeq DEF IsInjective

LEMMA LookupFacts ==
  ASSUME NEW s, HasUniqueKeys(s), NEW k
  PROVE  /\ Holds(s, k) => Position(s, k) \in DOMAIN s /\ At(s, k).key = k
         /\ \A i \in DOMAIN s : s[i].key = k =>
              Holds(s, k) /\ Position(s, k) = i /\ At(s, k) = s[i]
<1>1. ASSUME Holds(s, k) PROVE Position(s, k) \in DOMAIN s /\ At(s, k).key = k
  <2>1. \E i \in DOMAIN s : s[i].key = k
    BY <1>1 DEF Holds
  <2>2. Position(s, k) \in DOMAIN s /\ s[Position(s, k)].key = k
    BY <2>1 DEF Position
  <2> QED BY <2>2 DEF At
<1>2. ASSUME NEW i \in DOMAIN s, s[i].key = k
      PROVE  Holds(s, k) /\ Position(s, k) = i /\ At(s, k) = s[i]
  <2>1. Holds(s, k)
    BY <1>2 DEF Holds
  <2>2. s[Position(s, k)].key = k /\ Position(s, k) \in DOMAIN s
    BY <1>1, <2>1 DEF At
  <2>3. Position(s, k) = i
    BY <1>2, <2>2 DEF HasUniqueKeys
  <2> QED BY <2>1, <2>3 DEF At
<1> QED BY <1>1, <1>2

\* The filter drops the server of the key, and only that.
LEMMA WithoutFacts ==
  ASSUME NEW S, NEW s \in Seq(S), HasUniqueKeys(s), NEW k, NEW t, t = Without(s, k)
  PROVE  /\ t \in Seq(S) /\ HasUniqueKeys(t) /\ ~Holds(t, k)
         /\ \A other : other # k =>
              /\ Holds(t, other) <=> Holds(s, other)
              /\ Holds(s, other) => At(t, other) = At(s, other)
         /\ \A i \in DOMAIN t : \E j \in DOMAIN s : t[i] = s[j]
<1>1. CASE ~Holds(s, k)
  BY <1>1 DEF Without
<1>2. CASE Holds(s, k)
  <2> DEFINE n == Position(s, k)
             from(i) == IF i < n THEN i ELSE i + 1
  <2>1. n \in DOMAIN s /\ s[n].key = k /\ \A j \in DOMAIN s : s[j].key = k => j = n
    BY <1>2, LookupFacts DEF At
  <2>2. t = RemoveAt(s, n)
    BY <1>2 DEF Without
  <2> HIDE DEF n
  <2>3. /\ t \in Seq(S) /\ DOMAIN t \subseteq Int /\ DOMAIN s \subseteq Int
        /\ \A i \in DOMAIN t : from(i) \in DOMAIN s /\ from(i) # n /\ t[i] = s[from(i)]
        /\ \A j \in DOMAIN s : j # n => \E i \in DOMAIN t : t[i] = s[j]
    <3>1. t \in Seq(S)
      BY <2>1, <2>2, RemoveAtKeeps
    <3>2. DOMAIN t \subseteq Int /\ DOMAIN s \subseteq Int
      BY <3>1, DomainOfSeq
    <3>3. \A j \in DOMAIN s : j # n =>
            LET i == IF j < n THEN j ELSE j - 1
            IN  i \in DOMAIN t /\ t[i] = s[j]
      BY <2>1, <2>2, RemoveAtKeeps
    <3>4. \A i \in DOMAIN t : from(i) \in DOMAIN s /\ from(i) # n /\ t[i] = s[from(i)]
      BY <2>1, <2>2, RemoveAtKeeps
    <3> QED BY <3>1, <3>2, <3>3, <3>4
  <2>4. HasUniqueKeys(t)
    <3> SUFFICES ASSUME NEW i \in DOMAIN t, NEW j \in DOMAIN t, t[i].key = t[j].key
                 PROVE  i = j
      BY DEF HasUniqueKeys
    <3>1. from(i) = from(j)
      <4> HIDE DEF from
      <4> QED BY <2>3 DEF HasUniqueKeys
    <3> QED BY <2>1, <2>3, <3>1
  <2>5. \A i \in DOMAIN t : t[i].key # k /\ \E j \in DOMAIN s : t[i] = s[j]
    <3> HIDE DEF from
    <3> QED BY <2>1, <2>3
  <2>6. ASSUME NEW other, other # k
        PROVE  /\ Holds(t, other) <=> Holds(s, other)
               /\ Holds(s, other) => At(t, other) = At(s, other)
    <3>1. ASSUME Holds(t, other) PROVE Holds(s, other)
      BY <2>5, <3>1 DEF Holds
    <3>2. ASSUME Holds(s, other) PROVE Holds(t, other) /\ At(t, other) = At(s, other)
      <4>1. PICK j \in DOMAIN s : s[j].key = other
        BY <3>2 DEF Holds
      <4>2. At(s, other) = s[j]
        BY <4>1, LookupFacts
      <4>3. PICK i \in DOMAIN t : t[i] = s[j]
        BY <2>1, <2>3, <2>6, <4>1
      <4> QED BY <2>4, <4>1, <4>2, <4>3, LookupFacts
    <3> QED BY <3>1, <3>2
  <2> QED BY <2>3, <2>4, <2>5, <2>6 DEF Holds
<1> QED BY <1>1, <1>2

-----------------------------------------------------------------------------
(***************************************************************************)
(* The inductive invariant, as predicates of a page, of a request and of   *)
(* the servers that are stored.                                            *)
(*                                                                         *)
(* An answered save, toggle or deletion is known to the server and not yet *)
(* to its page.  A page without doubt that has none of these shows what is *)
(* stored; one that has a single request shows it as soon as the answer    *)
(* arrives.  A test that is running pins the draft it was started with     *)
(* unless the page is marked as touched.                                   *)
(***************************************************************************)
Tried == [of : Draft, secret : Secret \cup {NoSecret}]
Answer == {NoResult} \cup Seq(Shown) \cup Shown \cup Tried
PageType ==
  [servers : Seq(Shown), selected : Key \cup {NoKey}, draft : Draft,
   saving : BOOLEAN, testing : BOOLEAN, result : Answer, pending : SUBSET Key,
   doubt : BOOLEAN, touched : BOOLEAN]
RequestType ==
  [page : Page, kind : Kind, draft : Draft, list : Seq(Shown),
   stage : {"sent", "probing", "answered", "failed"}, answer : Answer,
   alone : BOOLEAN]

\* What the file of M holds, as a page is told of it.
Told(M) == [i \in DOMAIN M |-> Response(M[i])]

\* The secret that M has for a draft without one, and the tested configuration.
SecretOf(M, k, auth) ==
  LET given == IF auth.type = NoAuth THEN NoSecret ELSE auth.secrets[auth.type]
  IN IF given = NoSecret /\ Holds(M, k) /\ At(M, k).type = auth.type
     THEN At(M, k).secret ELSE given
TriedOf(M, d) == [of |-> d, secret |-> SecretOf(M, d.key, d.auth)]

\* A list that the page shows once the answer is applied.
Applied(servers, req) ==
  CASE req.kind = "save"   -> IF Holds(servers, req.answer.key)
                              THEN Replaced(servers, req.answer)
                              ELSE Append(servers, req.answer)
    [] req.kind = "toggle" -> Replaced(servers, req.answer)
    [] req.kind = "delete" -> Without(req.list, req.draft.key)

ServersOK(M) ==
  /\ M \in Seq(Server) /\ HasUniqueKeys(M)
  /\ \A i \in DOMAIN M : M[i].type = NoAuth => M[i].secret = NoSecret

Reached(req) == req.kind \in Changing /\ req.stage = "answered"
AllSeen(rs, p) == \A i \in DOMAIN rs : rs[i].page = p => ~Reached(rs[i])
Fresh(page, rs, p) == ~page.doubt /\ AllSeen(rs, p)

PageOK(page, fresh, M) ==
  /\ HasUniqueKeys(page.servers)
  /\ fresh => page.servers = Told(M)
  /\ page.result # NoResult /\ ~page.touched =>
       page.result.of = page.draft /\ (fresh => page.result = TriedOf(M, page.draft))

ChangeOK(req, page, M) ==
  /\ req.kind \in {"save", "toggle"} =>
       req.draft.key \in Key /\ (req.stage = "answered" => req.answer \in Shown)
  /\ req.kind = "delete" =>
       HasUniqueKeys(req.list) /\ (req.alone => req.list = page.servers)
  /\ req.alone /\ Reached(req) /\ ~page.doubt =>
       Applied(page.servers, req) = Told(M)

LoadOK(req, M) ==
  req.kind = "load" /\ req.stage = "answered" =>
    /\ req.answer \in Seq(Shown) /\ HasUniqueKeys(req.answer)
    /\ req.alone => req.answer = Told(M)

TestOK(req, page, fresh, M) ==
  IF req.kind # "test" THEN req.stage # "probing"
  ELSE /\ req.stage # "failed" /\ page.testing
       /\ ~page.touched => req.draft = page.draft
       /\ req.stage # "sent" =>
            /\ req.answer \in Tried /\ req.answer.of = req.draft
            /\ ~page.touched /\ fresh => req.answer = TriedOf(M, req.draft)

RequestOK(req, page, fresh, M) ==
  ChangeOK(req, page, M) /\ LoadOK(req, M) /\ TestOK(req, page, fresh, M)

\* A request that is alone is the only one of its page but for a test, and a
\* page has one test at a time.
Alone(rs) ==
  \A i, j \in DOMAIN rs :
    rs[i].page = rs[j].page /\ rs[i].kind # "test" /\ rs[j].kind # "test"
      /\ rs[i].alone => i = j
OneTest(rs) ==
  \A i, j \in DOMAIN rs :
    rs[i].page = rs[j].page /\ rs[i].kind = "test" /\ rs[j].kind = "test" => i = j

TypesOK ==
  /\ file = NoFile \/ file \in Seq(Server)
  /\ ServersOK(Materialized)
  /\ pages \in [Page -> PageType] /\ requests \in Seq(RequestType)
PagesOK ==
  \A p \in Page : PageOK(pages[p], Fresh(pages[p], requests, p), Materialized)
RequestsOK ==
  \A r \in DOMAIN requests :
    LET p == requests[r].page
    IN RequestOK(requests[r], pages[p], Fresh(pages[p], requests, p), Materialized)

SettingsInv == TypesOK /\ PagesOK /\ RequestsOK /\ Alone(requests) /\ OneTest(requests)

-----------------------------------------------------------------------------
\* The file.

\* What is removed is put back in its place.
LEMMA PutBack ==
  ASSUME NEW S, NEW s \in Seq(S), NEW i \in DOMAIN s, NEW e \in S
  PROVE  InsertAt(RemoveAt(s, i), i, e) = [s EXCEPT ![i] = e]
<1>1. DOMAIN s = 1 .. Len(s) /\ Len(s) \in Nat
  BY LenProperties
<1>2. PICK t : t = RemoveAt(s, i)
  OBVIOUS
<1>3. /\ t \in Seq(S) /\ Len(t) = Len(s) - 1
      /\ \A k \in 1 .. Len(s) - 1 : t[k] = IF k < i THEN s[k] ELSE s[k + 1]
  BY <1>1, <1>2, RemoveAtFacts
<1>4. \A k \in 1 .. Len(s) - 1 : t[k] \in S
  BY <1>3, ElementOfSeq
<1> DEFINE front == SubSeq(t, 1, i - 1)
           back  == SubSeq(t, i, Len(t))
<1>5. /\ front \in Seq(S) /\ Len(front) = i - 1
      /\ \A k \in 1 .. i - 1 : front[k] = t[k]
  BY <1>1, <1>3, <1>4, SubSeqProperties, Z3
<1>6. /\ back \in Seq(S) /\ Len(back) = Len(s) - i
      /\ \A k \in 1 .. Len(s) - i : back[k] = t[i + k - 1]
  BY <1>1, <1>3, <1>4, SubSeqProperties, Z3
<1>7. <<e>> \in Seq(S) /\ Len(<<e>>) = 1 /\ <<e>>[1] = e
  OBVIOUS
<1> HIDE DEF front, back
<1>8. /\ front \o <<e>> \in Seq(S) /\ Len(front \o <<e>>) = i
      /\ \A k \in 1 .. i : (front \o <<e>>)[k] = IF k <= i - 1 THEN front[k] ELSE e
  <2>1. PICK one : one = <<e>>
    OBVIOUS
  <2>2. one \in Seq(S) /\ Len(one) = 1 /\ one[1] = e
    BY <1>7, <2>1
  <2>3. /\ front \o one \in Seq(S) /\ Len(front \o one) = Len(front) + Len(one)
        /\ \A k \in 1 .. Len(front) + Len(one) :
             (front \o one)[k] = IF k <= Len(front) THEN front[k] ELSE one[k - Len(front)]
    BY <1>5, <2>2, ConcatProperties
  <2>4. (i - 1) + 1 = i /\ \A k \in 1 .. i : ~(k <= i - 1) => k - (i - 1) = 1
    BY <1>1
  <2> QED BY <1>5, <2>1, <2>2, <2>3, <2>4
<1>9. PICK begin : begin = front \o <<e>>
  OBVIOUS
<1>10. /\ begin \o back \in Seq(S) /\ Len(begin \o back) = Len(s)
       /\ \A k \in 1 .. Len(s) :
            (begin \o back)[k] = IF k <= i THEN begin[k] ELSE back[k - i]
  <2>1. begin \in Seq(S) /\ Len(begin) = i
    BY <1>8, <1>9
  <2>2. /\ begin \o back \in Seq(S) /\ Len(begin \o back) = Len(begin) + Len(back)
        /\ \A k \in 1 .. Len(begin) + Len(back) :
             (begin \o back)[k] = IF k <= Len(begin) THEN begin[k] ELSE back[k - Len(begin)]
    BY <1>6, <2>1, ConcatProperties
  <2>3. i + (Len(s) - i) = Len(s)
    BY <1>1
  <2> QED BY <1>6, <2>1, <2>2, <2>3
<1>11. InsertAt(t, i, e) = begin \o back
  BY <1>9 DEF InsertAt, front, back
<1>14. PICK r : r = [s EXCEPT ![i] = e]
  OBVIOUS
<1>12. /\ r \in Seq(S) /\ Len(r) = Len(s)
       /\ \A k \in 1 .. Len(s) : r[k] = IF k = i THEN e ELSE s[k]
  BY <1>1, <1>14, ExceptSeq
<1>13. \A k \in 1 .. Len(s) : (begin \o back)[k] = r[k]
  <2> SUFFICES ASSUME NEW k \in 1 .. Len(s)
               PROVE  (begin \o back)[k] = r[k]
    OBVIOUS
  <2>0. i \in 1 .. Len(s) /\ Len(s) \in Nat
    BY <1>1
  <2>1. CASE k < i
    <3>1. (begin \o back)[k] = begin[k] /\ begin[k] = front[k]
      BY <1>8, <1>9, <1>10, <2>0, <2>1
    <3>2. front[k] = t[k] /\ t[k] = s[k]
      BY <1>3, <1>5, <2>0, <2>1
    <3> QED BY <1>12, <2>1, <3>1, <3>2
  <2>2. CASE k = i
    <3>1. (begin \o back)[k] = begin[k] /\ ~(k <= i - 1) /\ k \in 1 .. i
      BY <1>10, <2>0, <2>2
    <3>2. begin[k] = e
      BY <1>8, <1>9, <3>1
    <3> QED BY <1>12, <2>2, <3>1, <3>2
  <2>3. CASE k > i
    <3>1. (begin \o back)[k] = back[k - i]
      BY <1>10, <2>0, <2>3
    <3>2. k - i \in 1 .. Len(s) - i
      BY <2>0, <2>3
    <3>3. back[k - i] = t[i + (k - i) - 1]
      BY <1>6, <3>2
    <3>4. i + (k - i) - 1 = k - 1 /\ k - 1 \in 1 .. Len(s) - 1 /\ ~(k - 1 < i)
      BY <2>0, <2>3
    <3>5. t[k - 1] = s[(k - 1) + 1]
      BY <1>3, <3>4
    <3>6. (k - 1) + 1 = k /\ k # i
      BY <2>0, <2>3
    <3>7. t[i + (k - i) - 1] = t[k - 1] /\ s[(k - 1) + 1] = s[k]
      BY <3>4, <3>6
    <3>8. r[k] = s[k]
      BY <1>12, <3>6
    <3> QED BY <3>1, <3>3, <3>5, <3>7, <3>8
  <2>4. k < i \/ k = i \/ k > i
    BY <2>0
  <2> QED BY <2>1, <2>2, <2>3, <2>4
<1> QED BY <1>2, <1>10, <1>11, <1>12, <1>13, <1>14, SeqEqual

UpsertedIn(M, server) ==
  IF Holds(M, server.key)
  THEN InsertAt(Without(M, server.key), Position(M, server.key), server)
  ELSE Append(Without(M, server.key), server)

\* One server is written and nothing else.
LEMMA UpsertedFacts ==
  ASSUME NEW M, ServersOK(M), NEW server \in Server,
         server.type = NoAuth => server.secret = NoSecret,
         NEW k, k = server.key, NEW t, t = UpsertedIn(M, server)
  PROVE  /\ ServersOK(t) /\ Holds(t, k) /\ At(t, k) = server
         /\ \A other : other # k =>
              /\ Holds(t, other) <=> Holds(M, other)
              /\ Holds(M, other) => At(t, other) = At(M, other)
         /\ t = IF Holds(M, k) THEN [M EXCEPT ![Position(M, k)] = server]
                ELSE Append(M, server)
<1>1. /\ M \in Seq(Server) /\ HasUniqueKeys(M) /\ DOMAIN M = 1 .. Len(M) /\ Len(M) \in Nat
  BY DomainOfSeq DEF ServersOK
<1>2. CASE Holds(M, k)
  <2>1. PICK n : n = Position(M, k)
    OBVIOUS
  <2>2. n \in DOMAIN M /\ M[n].key = k /\ \A j \in DOMAIN M : M[j].key = k => j = n
    BY <1>1, <1>2, <2>1, LookupFacts DEF At
  <2>3. t = [M EXCEPT ![n] = server]
    <3>1. t = InsertAt(RemoveAt(M, n), n, server)
      BY <1>2, <2>1 DEF UpsertedIn, Without
    <3> QED BY <1>1, <2>2, <3>1, PutBack
  <2>4. /\ DOMAIN t = DOMAIN M /\ t[n] = server /\ t \in Seq(Server)
        /\ \A j \in DOMAIN M : j # n => t[j] = M[j]
    BY <1>1, <2>2, <2>3, ExceptSeq
  <2>5. HasUniqueKeys(t)
    BY <1>1, <2>2, <2>4 DEF HasUniqueKeys
  <2>6. Holds(t, k) /\ At(t, k) = server
    BY <2>2, <2>4, <2>5, LookupFacts
  <2>7. ASSUME NEW other, other # k
        PROVE  /\ Holds(t, other) <=> Holds(M, other)
               /\ Holds(M, other) => At(t, other) = At(M, other)
    <3>1. ASSUME Holds(t, other) PROVE Holds(M, other)
      BY <2>2, <2>4, <2>7, <3>1 DEF Holds
    <3>2. ASSUME Holds(M, other) PROVE Holds(t, other) /\ At(t, other) = At(M, other)
      <4>1. PICK j \in DOMAIN M : M[j].key = other
        BY <3>2 DEF Holds
      <4>2. At(M, other) = M[j] /\ t[j] = M[j]
        BY <1>1, <2>2, <2>4, <2>7, <4>1, LookupFacts
      <4> QED BY <2>4, <2>5, <4>1, <4>2, LookupFacts
    <3> QED BY <3>1, <3>2
  <2>8. ServersOK(t)
    BY <2>4, <2>5 DEF ServersOK
  <2> QED BY <1>2, <2>1, <2>3, <2>6, <2>7, <2>8
<1>3. CASE ~Holds(M, k)
  <2>1. t = Append(M, server)
    BY <1>3 DEF UpsertedIn, Without
  <2>2. /\ t \in Seq(Server) /\ DOMAIN t = 1 .. Len(M) + 1
        /\ \A j \in 1 .. Len(M) : t[j] = M[j]
        /\ t[Len(M) + 1] = server
    BY <1>1, <2>1, AppendFacts
  <2>3. \A j \in DOMAIN M : M[j].key # k
    BY <1>3 DEF Holds
  <2>4. HasUniqueKeys(t)
    BY <1>1, <2>2, <2>3 DEF HasUniqueKeys
  <2>5. Holds(t, k) /\ At(t, k) = server
    BY <1>1, <2>2, <2>4, LookupFacts
  <2>6. ASSUME NEW other, other # k
        PROVE  /\ Holds(t, other) <=> Holds(M, other)
               /\ Holds(M, other) => At(t, other) = At(M, other)
    <3>1. ASSUME Holds(t, other) PROVE Holds(M, other)
      BY <1>1, <2>2, <2>6, <3>1 DEF Holds
    <3>2. ASSUME Holds(M, other) PROVE Holds(t, other) /\ At(t, other) = At(M, other)
      <4>1. PICK j \in DOMAIN M : M[j].key = other
        BY <3>2 DEF Holds
      <4>2. At(M, other) = M[j] /\ t[j] = M[j] /\ j \in DOMAIN t
        BY <1>1, <2>2, <4>1, LookupFacts
      <4> QED BY <2>4, <4>1, <4>2, LookupFacts
    <3> QED BY <3>1, <3>2
  <2>7. ServersOK(t)
    BY <1>1, <2>2, <2>4 DEF ServersOK
  <2> QED BY <1>3, <2>1, <2>5, <2>6, <2>7
<1> QED BY <1>2, <1>3

\* What a page is told has the same keys in the same places.
LEMMA ToldFacts ==
  ASSUME NEW M, ServersOK(M), NEW s, s = Told(M)
  PROVE  /\ s \in Seq(Shown) /\ HasUniqueKeys(s) /\ DOMAIN s = DOMAIN M
         /\ \A i \in DOMAIN M : s[i] = Response(M[i]) /\ s[i].key = M[i].key
         /\ \A k : /\ Holds(s, k) <=> Holds(M, k)
                   /\ Holds(M, k) => Position(s, k) = Position(M, k)
<1>1. /\ M \in Seq(Server) /\ HasUniqueKeys(M) /\ DOMAIN M = 1 .. Len(M) /\ Len(M) \in Nat
  BY DomainOfSeq DEF ServersOK
<1>2. \A i \in DOMAIN M : M[i] \in Server
  BY <1>1, ElementOfSeq
<1>3. \A i \in DOMAIN M : Response(M[i]) \in Shown /\ Response(M[i]).key = M[i].key
  BY <1>2 DEF Response, Server, Shown
<1>4. s \in [1 .. Len(M) -> Shown] /\ \A i \in DOMAIN M : s[i] = Response(M[i])
  BY <1>1, <1>3 DEF Told
<1>5. s \in Seq(Shown) /\ DOMAIN s = DOMAIN M
  BY <1>1, <1>4, MappedSeq
<1>6. \A i \in DOMAIN M : s[i].key = M[i].key
  BY <1>3, <1>4
<1>7. HasUniqueKeys(s)
  BY <1>1, <1>5, <1>6 DEF HasUniqueKeys
<1>8. \A k : Holds(s, k) <=> Holds(M, k)
  BY <1>5, <1>6 DEF Holds
<1>9. ASSUME NEW k, Holds(M, k) PROVE Position(s, k) = Position(M, k)
  <2>1. PICK j \in DOMAIN M : M[j].key = k
    BY <1>9 DEF Holds
  <2>2. Position(M, k) = j
    BY <1>1, <2>1, LookupFacts
  <2>3. Position(s, k) = j
    BY <1>5, <1>6, <1>7, <2>1, LookupFacts
  <2> QED BY <2>2, <2>3
<1> QED BY <1>4, <1>5, <1>6, <1>7, <1>8, <1>9

\* What a page makes of the answer to a save or a toggle is what is stored.
LEMMA WrittenIsShown ==
  ASSUME NEW M, ServersOK(M), NEW server \in Server,
         server.type = NoAuth => server.secret = NoSecret,
         NEW t, t = UpsertedIn(M, server), NEW answer, answer = Response(server)
  PROVE  /\ Holds(M, server.key) => Replaced(Told(M), answer) = Told(t)
         /\ ~Holds(M, server.key) => Append(Told(M), answer) = Told(t)
<1>1. PICK k : k = server.key
  OBVIOUS
<1>2. PICK s : s = Told(M)
  OBVIOUS
<1>3. /\ s \in Seq(Shown) /\ HasUniqueKeys(s) /\ DOMAIN s = DOMAIN M
      /\ \A i \in DOMAIN M : s[i] = Response(M[i]) /\ s[i].key = M[i].key
  BY <1>2, ToldFacts
<1>4. /\ M \in Seq(Server) /\ HasUniqueKeys(M) /\ DOMAIN M = 1 .. Len(M) /\ Len(M) \in Nat
  BY DomainOfSeq DEF ServersOK
<1>5. answer \in Shown /\ answer.key = k
  BY <1>1 DEF Response, Server, Shown
<1>6. /\ ServersOK(t)
      /\ t = IF Holds(M, k) THEN [M EXCEPT ![Position(M, k)] = server] ELSE Append(M, server)
  BY <1>1, UpsertedFacts
<1>7. PICK told : told = Told(t)
  OBVIOUS
<1>8. /\ told \in Seq(Shown) /\ DOMAIN told = DOMAIN t
      /\ \A i \in DOMAIN t : told[i] = Response(t[i])
  <2>1. ServersOK(t)
    BY <1>6
  <2> QED BY <1>7, <2>1, ToldFacts
<1>9. ASSUME Holds(M, k) PROVE Replaced(s, answer) = told
  <2>1. PICK n : n = Position(M, k)
    OBVIOUS
  <2>2. n \in DOMAIN M /\ M[n].key = k /\ \A j \in DOMAIN M : M[j].key = k => j = n
    BY <1>4, <1>9, <2>1, LookupFacts DEF At
  <2>3. /\ DOMAIN t = DOMAIN M /\ t[n] = server
        /\ \A j \in DOMAIN M : j # n => t[j] = M[j]
    BY <1>4, <1>6, <1>9, <2>1, <2>2, ExceptSeq
  <2>4. PICK r : r = Replaced(s, answer)
    OBVIOUS
  <2>5. /\ r = [i \in DOMAIN M |-> IF s[i].key = k THEN answer ELSE s[i]]
        /\ \A i \in DOMAIN M : r[i] = IF s[i].key = k THEN answer ELSE s[i]
    BY <1>3, <1>5, <2>4 DEF Replaced
  <2>6. \A i \in DOMAIN M : r[i] = told[i]
    BY <1>3, <1>8, <2>2, <2>3, <2>5
  <2>7. told = [i \in DOMAIN M |-> told[i]]
    BY <1>8, <2>3
  <2> QED BY <2>4, <2>5, <2>6, <2>7
<1>10. ASSUME ~Holds(M, k) PROVE Append(s, answer) = told
  <2>1. /\ DOMAIN t = 1 .. Len(M) + 1 /\ \A j \in 1 .. Len(M) : t[j] = M[j]
        /\ t[Len(M) + 1] = server
    BY <1>4, <1>6, <1>10, AppendFacts
  <2>2. Len(s) = Len(M) /\ Len(told) = Len(M) + 1
    BY <1>3, <1>4, <1>8, <2>1, DomainOfSeq
  <2>3. PICK r : r = Append(s, answer)
    OBVIOUS
  <2>4. /\ r \in Seq(Shown) /\ Len(r) = Len(M) + 1
        /\ \A j \in 1 .. Len(M) : r[j] = s[j]
        /\ r[Len(M) + 1] = answer
    BY <1>3, <1>5, <2>2, <2>3, AppendProperties
  <2>5. \A i \in 1 .. Len(M) + 1 : r[i] = told[i]
    BY <1>3, <1>4, <1>8, <2>1, <2>4
  <2> QED BY <1>8, <2>2, <2>3, <2>4, <2>5, SeqEqual
<1> QED BY <1>1, <1>2, <1>7, <1>9, <1>10

\* ... and so is the list without the deleted server.
LEMMA RemovedIsShown ==
  ASSUME NEW M, ServersOK(M), NEW k
  PROVE  ServersOK(Without(M, k)) /\ Without(Told(M), k) = Told(Without(M, k))
<1>1. PICK s : s = Told(M)
  OBVIOUS
<1>2. /\ s \in Seq(Shown) /\ HasUniqueKeys(s) /\ DOMAIN s = DOMAIN M
      /\ \A i \in DOMAIN M : s[i] = Response(M[i]) /\ s[i].key = M[i].key
      /\ Holds(s, k) <=> Holds(M, k)
      /\ Holds(M, k) => Position(s, k) = Position(M, k)
  BY <1>1, ToldFacts
<1>3. /\ M \in Seq(Server) /\ HasUniqueKeys(M) /\ DOMAIN M = 1 .. Len(M) /\ Len(M) \in Nat
      /\ \A i \in DOMAIN M : M[i].type = NoAuth => M[i].secret = NoSecret
  BY DomainOfSeq DEF ServersOK
<1>4. PICK t : t = Without(M, k)
  OBVIOUS
<1>5. /\ t \in Seq(Server) /\ HasUniqueKeys(t)
      /\ \A i \in DOMAIN t : \E j \in DOMAIN M : t[i] = M[j]
  BY <1>3, <1>4, WithoutFacts
<1>6. ServersOK(t)
  BY <1>3, <1>5 DEF ServersOK
<1>7. CASE ~Holds(M, k)
  BY <1>1, <1>2, <1>4, <1>6, <1>7 DEF Without
<1>8. CASE Holds(M, k)
  <2>1. PICK n : n = Position(M, k)
    OBVIOUS
  <2>2. n \in DOMAIN M
    BY <1>3, <1>8, <2>1, LookupFacts
  <2>3. PICK r : r = RemoveAt(s, n)
    OBVIOUS
  <2>4. Without(s, k) = r /\ t = RemoveAt(M, n)
    BY <1>2, <1>4, <1>8, <2>1, <2>3 DEF Without
  <2>5. Len(s) = Len(M)
    BY <1>2, <1>3, DomainOfSeq
  <2>6. /\ Len(t) = Len(M) - 1
        /\ \A j \in 1 .. Len(M) - 1 : t[j] = IF j < n THEN M[j] ELSE M[j + 1]
    BY <1>3, <2>2, <2>4, RemoveAtFacts
  <2>7. /\ r \in Seq(Shown) /\ Len(r) = Len(M) - 1
        /\ \A j \in 1 .. Len(M) - 1 : r[j] = IF j < n THEN s[j] ELSE s[j + 1]
    BY <1>2, <1>3, <2>2, <2>3, <2>5, RemoveAtFacts
  <2>8. PICK told : told = Told(t)
    OBVIOUS
  <2>9. /\ told \in Seq(Shown) /\ DOMAIN told = DOMAIN t
        /\ \A i \in DOMAIN t : told[i] = Response(t[i])
    BY <1>6, <2>8, ToldFacts
  <2>10. Len(told) = Len(M) - 1 /\ DOMAIN t = 1 .. Len(M) - 1
    BY <1>5, <2>6, <2>9, DomainOfSeq
  <2>11. \A j \in 1 .. Len(M) - 1 : r[j] = told[j]
    BY <1>2, <1>3, <2>6, <2>7, <2>9, <2>10
  <2> QED BY <1>1, <1>4, <1>6, <2>4, <2>7, <2>8, <2>9, <2>10, <2>11, SeqEqual
<1> QED BY <1>7, <1>8

\* What the store is after a write.
LEMMA WrittenFile ==
  ASSUME TypesOK, NEW server \in Server,
         server.type = NoAuth => server.secret = NoSecret, file' = Upserted(server)
  PROVE  /\ Materialized' = UpsertedIn(Materialized, server)
         /\ file' \in Seq(Server) /\ ServersOK(Materialized')
<1>1. ServersOK(UpsertedIn(Materialized, server)) /\ file' = UpsertedIn(Materialized, server)
  <2>1. PICK k : k = server.key
    OBVIOUS
  <2>2. PICK t : t = UpsertedIn(Materialized, server)
    OBVIOUS
  <2>3. ServersOK(t)
    BY <2>1, <2>2, UpsertedFacts DEF TypesOK
  <2>4. file' = t
    BY <2>2 DEF Upserted, UpsertedIn
  <2> QED BY <2>2, <2>3, <2>4
<1>2. file' \in Seq(Server) /\ file' # NoFile
  BY <1>1, StoreConstants DEF ServersOK
<1>3. Materialized' = file'
  BY <1>2 DEF Materialized
<1> QED BY <1>1, <1>2, <1>3

LEMMA RemovedFile ==
  ASSUME TypesOK, NEW k, Delete(k)
  PROVE  /\ Materialized' = Without(Materialized, k)
         /\ file' \in Seq(Server) /\ ServersOK(Materialized')
<1>1. ServersOK(Without(Materialized, k)) /\ file' = Without(Materialized, k)
  BY RemovedIsShown DEF TypesOK, Delete
<1>2. file' \in Seq(Server) /\ file' # NoFile
  BY <1>1, StoreConstants DEF ServersOK
<1>3. Materialized' = file'
  BY <1>2 DEF Materialized
<1> QED BY <1>1, <1>2, <1>3

\* The secret that a draft gives or the store has is one of its kind.
LEMMA SecretFacts ==
  ASSUME NEW M, ServersOK(M), NEW d \in Draft, NEW secret,
         secret = SecretOf(M, d.key, d.auth)
  PROVE  secret \in Secret \cup {NoSecret} /\ (d.auth.type = NoAuth => secret = NoSecret)
<1>1. /\ d.auth.type \in AuthType
      /\ d.auth.secrets \in [WithSecret -> Secret \cup {NoSecret}]
  BY DEF Draft, Auth
<1>2. Holds(M, d.key) => /\ At(M, d.key) \in Server
                         /\ At(M, d.key).type = NoAuth => At(M, d.key).secret = NoSecret
  <2>1. /\ M \in Seq(Server) /\ HasUniqueKeys(M)
        /\ \A i \in DOMAIN M : M[i].type = NoAuth => M[i].secret = NoSecret
        /\ DOMAIN M = 1 .. Len(M)
    BY DomainOfSeq DEF ServersOK
  <2>2. \A i \in DOMAIN M : M[i] \in Server
    BY <2>1, ElementOfSeq
  <2>3. Holds(M, d.key) => Position(M, d.key) \in DOMAIN M
    BY <2>1, LookupFacts
  <2> QED BY <2>1, <2>2, <2>3 DEF At
<1>3. Holds(M, d.key) => At(M, d.key).secret \in Secret \cup {NoSecret}
  BY <1>2 DEF Server
<1>4. d.auth.type # NoAuth => d.auth.secrets[d.auth.type] \in Secret \cup {NoSecret}
  BY <1>1 DEF WithSecret
<1> QED BY <1>2, <1>3, <1>4 DEF SecretOf

\* A save writes a server with the secret that the draft gives or the store has.
LEMMA PutFacts ==
  ASSUME TypesOK, NEW d \in Draft, d.key \in Key, Put(d.key, d.enabled, d.auth)
  PROVE  \E server \in Server :
           /\ server = [key |-> d.key, enabled |-> d.enabled, type |-> d.auth.type,
                        secret |-> SecretOf(Materialized, d.key, d.auth)]
           /\ server.type = NoAuth => server.secret = NoSecret
           /\ file' = Upserted(server)
<1>1. PICK M : M = Materialized
  OBVIOUS
<1>2. ServersOK(M)
  BY <1>1 DEF TypesOK
<1>3. PICK secret : secret = SecretOf(M, d.key, d.auth)
  OBVIOUS
<1>4. /\ d.enabled \in BOOLEAN /\ d.auth.type \in AuthType
      /\ d.auth.secrets \in [WithSecret -> Secret \cup {NoSecret}]
  BY DEF Draft, Auth
<1>6. secret \in Secret \cup {NoSecret} /\ (d.auth.type = NoAuth => secret = NoSecret)
  BY <1>2, <1>3, SecretFacts
<1>7. PICK server : server = [key |-> d.key, enabled |-> d.enabled, type |-> d.auth.type,
                              secret |-> secret]
  OBVIOUS
<1>8. server \in Server /\ server.type = d.auth.type /\ server.secret = secret
  BY <1>4, <1>6, <1>7 DEF Server
<1>9. file' = Upserted(server)
  BY <1>1, <1>3, <1>7 DEF Put, WrittenSecret, SecretOf
<1> QED BY <1>1, <1>3, <1>6, <1>7, <1>8, <1>9

-----------------------------------------------------------------------------
\* Steps of the pages and of the requests under way.

LEMMA RequestFacts ==
  ASSUME TypesOK
  PROVE  /\ requests \in Seq(RequestType) /\ Len(requests) \in Nat
         /\ DOMAIN requests = 1 .. Len(requests)
         /\ \A r \in DOMAIN requests :
              /\ requests[r] \in RequestType /\ requests[r].page \in Page
              /\ pages[requests[r].page] \in PageType
         /\ pages \in [Page -> PageType]
<1>1. requests \in Seq(RequestType) /\ pages \in [Page -> PageType]
  BY DEF TypesOK
<1>2. Len(requests) \in Nat /\ DOMAIN requests = 1 .. Len(requests)
  BY <1>1, DomainOfSeq
<1>3. \A r \in DOMAIN requests : requests[r] \in RequestType
  BY <1>1, <1>2, ElementOfSeq
<1>4. \A req \in RequestType : req.page \in Page
  BY DEF RequestType
<1> QED BY <1>1, <1>2, <1>3, <1>4

\* A request under way does not mind a page that keeps its list, and its draft
\* while a test is running.
LEMMA RequestStays ==
  ASSUME NEW req, NEW old, NEW new, NEW fresh, NEW fresher, NEW M,
         RequestOK(req, old, fresh, M), new.servers = old.servers,
         old.doubt => new.doubt, fresher => fresh,
         req.kind = "test" =>
           /\ old.testing => new.testing
           /\ ~new.touched => ~old.touched /\ new.draft = old.draft
  PROVE  RequestOK(req, new, fresher, M)
<1>1. ChangeOK(req, new, M)
  BY DEF RequestOK, ChangeOK
<1>2. LoadOK(req, M)
  BY DEF RequestOK
<1>3. TestOK(req, new, fresher, M)
  BY DEF RequestOK, TestOK
<1> QED BY <1>1, <1>2, <1>3 DEF RequestOK

\* Anything the user does to the form.
LEMMA ShowStep ==
  ASSUME SettingsInv, NEW p \in Page, NEW new \in PageType, Show(p, new),
         new.servers = pages[p].servers, new.doubt = pages[p].doubt,
         new.testing = pages[p].testing, new.result = NoResult,
         new.touched = (pages[p].touched \/ pages[p].testing)
  PROVE  SettingsInv'
<1>1. /\ pages \in [Page -> PageType] /\ requests' = requests /\ file' = file
      /\ pages' = [pages EXCEPT ![p] = new]
  BY RequestFacts DEF SettingsInv, Show
<1>2. /\ pages' \in [Page -> PageType] /\ pages'[p] = new
      /\ \A q \in Page \ {p} : pages'[q] = pages[q]
  BY <1>1
<1>3. Materialized' = Materialized
  BY <1>1 DEF Materialized
<1>4. TypesOK'
  BY <1>1, <1>2, <1>3 DEF SettingsInv, TypesOK
<1>5. \A q \in Page : Fresh(pages'[q], requests', q) = Fresh(pages[q], requests, q)
  BY <1>1, <1>2 DEF Fresh
<1>6. PagesOK'
  <2>1. PageOK(new, Fresh(new, requests, p), Materialized)
    BY <1>5 DEF SettingsInv, PagesOK, PageOK, Fresh
  <2> QED BY <1>1, <1>2, <1>3, <2>1 DEF SettingsInv, PagesOK
<1>7. RequestsOK'
  <2> SUFFICES ASSUME NEW r \in DOMAIN requests, NEW q, q = requests[r].page
               PROVE  RequestOK(requests[r], pages'[q], Fresh(pages'[q], requests', q), Materialized)
    BY <1>1, <1>3 DEF RequestsOK
  <2>1. q \in Page /\ RequestOK(requests[r], pages[q], Fresh(pages[q], requests, q), Materialized)
    BY RequestFacts DEF SettingsInv, RequestsOK
  <2>2. CASE q # p
    BY <1>1, <1>2, <2>1, <2>2
  <2>3. CASE q = p
    <3>1. requests[r].kind = "test" => new.touched
      BY <2>1, <2>3 DEF RequestOK, TestOK
    <3> QED BY <1>2, <1>5, <2>1, <2>3, <3>1, RequestStays
  <2> QED BY <2>2, <2>3
<1>8. Alone(requests') /\ OneTest(requests')
  BY <1>1 DEF SettingsInv
<1> QED BY <1>4, <1>6, <1>7, <1>8 DEF SettingsInv

\* The requests once one more is made: the others of its page are not alone any
\* more, but for a test.
LEMMA MadeFacts ==
  ASSUME TypesOK, NEW request \in RequestType, Make(request), NEW p, p = request.page,
         NEW n, n = Len(requests) + 1
  PROVE  /\ requests' \in Seq(RequestType) /\ DOMAIN requests' = 1 .. n
         /\ \A i \in DOMAIN requests :
              /\ i # n /\ i \in 1 .. n /\ requests'[i].page = requests[i].page
              /\ requests'[i].kind = requests[i].kind
              /\ requests'[i].draft = requests[i].draft
              /\ requests'[i].list = requests[i].list
              /\ requests'[i].stage = requests[i].stage
              /\ requests'[i].answer = requests[i].answer
              /\ requests'[i].alone => requests[i].alone
              /\ requests'[i].alone /\ request.kind # "test" =>
                   requests[i].page # p \/ requests[i].kind = "test"
         /\ requests'[n].page = p /\ requests'[n].kind = request.kind
         /\ requests'[n].draft = request.draft /\ requests'[n].list = request.list
         /\ requests'[n].stage = request.stage
         /\ requests'[n].alone => \A i \in DOMAIN requests :
              requests[i].page # p \/ requests[i].kind = "test"
<1>1. /\ requests \in Seq(RequestType) /\ Len(requests) \in Nat
      /\ DOMAIN requests = 1 .. Len(requests)
      /\ \A i \in DOMAIN requests : requests[i] \in RequestType
  BY RequestFacts
<1>2. PICK others : others = UnderWay(p)
  OBVIOUS
<1>3. PICK last : last = [request EXCEPT !.alone = (others = {})]
  OBVIOUS
<1>4. /\ last \in RequestType /\ last.page = p /\ last.kind = request.kind
      /\ last.draft = request.draft /\ last.list = request.list
      /\ last.stage = request.stage /\ (last.alone => others = {})
  <2>1. PICK alone \in BOOLEAN : alone = (others = {})
    OBVIOUS
  <2>2. last = [request EXCEPT !.alone = alone]
    BY <1>3, <2>1
  <2>3. /\ last \in RequestType /\ last.page = request.page /\ last.kind = request.kind
        /\ last.draft = request.draft /\ last.list = request.list
        /\ last.stage = request.stage /\ last.alone = alone
    BY <2>2 DEF RequestType
  <2> QED BY <2>1, <2>3
<1>5. PICK all : all = Append(requests, last)
  OBVIOUS
<1>6. /\ all \in Seq(RequestType) /\ DOMAIN all = 1 .. n
      /\ \A i \in 1 .. Len(requests) : all[i] = requests[i]
      /\ all[n] = last
  BY <1>1, <1>4, <1>5, AppendFacts
<1>7. others = {i \in DOMAIN requests : requests[i].page = p /\ requests[i].kind # "test"}
  BY <1>2 DEF UnderWay
<1>8. CASE request.kind = "test"
  <2>1. requests' = all
    BY <1>2, <1>3, <1>5, <1>8 DEF Make
  <2> QED BY <1>1, <1>4, <1>6, <1>7, <1>8, <2>1
<1>9. CASE request.kind # "test"
  <2> DEFINE less(i) == [requests[i] EXCEPT !.alone = FALSE]
  <2>1. requests' = [i \in DOMAIN all |->
                       IF i \in others THEN [all[i] EXCEPT !.alone = FALSE] ELSE all[i]]
    BY <1>2, <1>3, <1>5, <1>9 DEF Make
  <2>2. \A i \in DOMAIN requests :
          /\ less(i) \in RequestType /\ ~less(i).alone
          /\ less(i).page = requests[i].page /\ less(i).kind = requests[i].kind
          /\ less(i).draft = requests[i].draft /\ less(i).list = requests[i].list
          /\ less(i).stage = requests[i].stage /\ less(i).answer = requests[i].answer
    BY <1>1 DEF RequestType
  <2>3. n \notin others /\ n \in DOMAIN all /\ \A i \in DOMAIN requests : i # n /\ i \in DOMAIN all
    BY <1>1, <1>6, <1>7
  <2>4. /\ DOMAIN requests' = 1 .. n /\ requests'[n] = last
        /\ \A i \in DOMAIN requests : requests'[i] = IF i \in others THEN less(i) ELSE requests[i]
    BY <1>1, <1>6, <2>1, <2>3
  <2> HIDE DEF less
  <2>5. \A i \in 1 .. n : i \in DOMAIN requests \/ i = n
    BY <1>1
  <2>6. \A i \in 1 .. n : requests'[i] \in RequestType
    BY <1>1, <1>4, <2>2, <2>4, <2>5
  <2>7. requests' \in Seq(RequestType)
    <3>1. requests' \in [1 .. n -> RequestType]
      BY <2>1, <2>4, <2>6
    <3>2. n \in Nat
      BY <1>1
    <3> QED BY <3>1, <3>2, MappedSeq
  <2>8. \A i \in DOMAIN requests : i \notin others =>
          requests[i].page # p \/ requests[i].kind = "test"
    BY <1>7
  <2> QED BY <1>4, <1>6, <1>7, <2>2, <2>3, <2>4, <2>7, <2>8
<1> QED BY <1>8, <1>9

\* A click that sends a request.
LEMMA MakeStep ==
  ASSUME SettingsInv, NEW p \in Page, NEW request \in RequestType, request.page = p,
         request.stage = "sent", Make(request),
         NEW new \in PageType, pages' = [pages EXCEPT ![p] = new],
         new.servers = pages[p].servers, new.doubt = pages[p].doubt,
         new.draft = pages[p].draft,
         request.kind \in {"save", "toggle"} => request.draft.key \in Key,
         request.kind = "delete" => request.list = pages[p].servers,
         IF request.kind = "test"
         THEN /\ ~pages[p].testing /\ new.testing /\ new.result = NoResult
              /\ request.draft = new.draft
         ELSE /\ new.testing = pages[p].testing /\ new.touched = pages[p].touched
              /\ new.result = pages[p].result
  PROVE  SettingsInv'
<1>1. /\ pages \in [Page -> PageType] /\ Len(requests) \in Nat
      /\ DOMAIN requests = 1 .. Len(requests)
      /\ \A r \in DOMAIN requests : requests[r] \in RequestType /\ requests[r].page \in Page
  BY RequestFacts DEF SettingsInv
<1>2. PICK n : n = Len(requests) + 1
  OBVIOUS
<1>4. /\ requests' \in Seq(RequestType) /\ DOMAIN requests' = 1 .. n
      /\ \A i \in DOMAIN requests :
           /\ i # n /\ i \in 1 .. n /\ requests'[i].page = requests[i].page
           /\ requests'[i].kind = requests[i].kind
           /\ requests'[i].draft = requests[i].draft
           /\ requests'[i].list = requests[i].list
           /\ requests'[i].stage = requests[i].stage
           /\ requests'[i].answer = requests[i].answer
           /\ requests'[i].alone => requests[i].alone
           /\ requests'[i].alone /\ request.kind # "test" =>
                requests[i].page # p \/ requests[i].kind = "test"
      /\ requests'[n].page = p /\ requests'[n].kind = request.kind
      /\ requests'[n].draft = request.draft /\ requests'[n].list = request.list
      /\ requests'[n].stage = request.stage
      /\ requests'[n].alone => \A i \in DOMAIN requests :
           requests[i].page # p \/ requests[i].kind = "test"
  BY <1>2, MadeFacts DEF SettingsInv
<1>3. PICK last : last = requests'[n]
  OBVIOUS
<1>5. /\ last.page = p /\ last.kind = request.kind /\ last.draft = request.draft
      /\ last.list = request.list /\ last.stage = "sent"
      /\ last.alone => \A i \in DOMAIN requests :
           requests[i].page # p \/ requests[i].kind = "test"
  BY <1>3, <1>4
<1>6. \A i \in DOMAIN requests' : i \in DOMAIN requests \/ i = n
  BY <1>1, <1>2, <1>4
<1>7. /\ pages' \in [Page -> PageType] /\ pages'[p] = new
      /\ \A q \in Page \ {p} : pages'[q] = pages[q]
      /\ file' = file /\ Materialized' = Materialized
  BY <1>1 DEF Make, Materialized
<1>8. TypesOK'
  BY <1>4, <1>7 DEF SettingsInv, TypesOK
<1>9. \A q \in Page : Fresh(pages'[q], requests', q) = Fresh(pages[q], requests, q)
  <2>1. ASSUME NEW q \in Page PROVE AllSeen(requests', q) <=> AllSeen(requests, q)
    <3>1. \A i \in DOMAIN requests :
            i \in DOMAIN requests' /\ (Reached(requests'[i]) <=> Reached(requests[i]))
      BY <1>4 DEF Reached
    <3>2. ~Reached(last)
      BY <1>5 DEF Reached
    <3> QED BY <1>3, <1>4, <1>6, <3>1, <3>2 DEF AllSeen
  <2>2. \A q \in Page : pages'[q].doubt = pages[q].doubt
    BY <1>7
  <2> QED BY <2>1, <2>2 DEF Fresh
<1>10. PagesOK'
  <2> SUFFICES ASSUME NEW q \in Page
               PROVE  PageOK(pages'[q], Fresh(pages'[q], requests', q), Materialized)
    BY <1>7 DEF PagesOK
  <2>1. PageOK(pages[q], Fresh(pages'[q], requests', q), Materialized)
    BY <1>9 DEF SettingsInv, PagesOK
  <2>2. CASE q # p
    BY <1>7, <2>1, <2>2
  <2>3. CASE q = p
    <3> DEFINE fresh == Fresh(pages'[q], requests', q)
    <3>1. PageOK(pages[p], fresh, Materialized)
      BY <2>1, <2>3
    <3> HIDE DEF fresh
    <3>2. PageOK(new, fresh, Materialized)
      BY <3>1 DEF PageOK
    <3> QED BY <1>7, <2>3, <3>2 DEF fresh
  <2> QED BY <2>2, <2>3
<1>11. RequestsOK'
  <2> SUFFICES ASSUME NEW r \in DOMAIN requests', NEW q, q = requests'[r].page
               PROVE  RequestOK(requests'[r], pages'[q], Fresh(pages'[q], requests', q),
                                Materialized)
    BY <1>7 DEF RequestsOK
  <2>1. CASE r \in DOMAIN requests
    <3>1. q \in Page /\ q = requests[r].page
      BY <1>1, <1>4, <2>1
    <3>2. RequestOK(requests[r], pages[q], Fresh(pages'[q], requests', q), Materialized)
      BY <1>9, <2>1, <3>1 DEF SettingsInv, RequestsOK
    <3>3. RequestOK(requests'[r], pages[q], Fresh(pages'[q], requests', q), Materialized)
      <4> DEFINE fresh == Fresh(pages'[q], requests', q)
      <4> HIDE DEF fresh
      <4>1. RequestOK(requests[r], pages[q], fresh, Materialized)
        BY <3>2 DEF fresh
      <4>2. ChangeOK(requests'[r], pages[q], Materialized)
        BY <1>4, <2>1, <4>1 DEF RequestOK, ChangeOK, Reached, Applied
      <4>3. LoadOK(requests'[r], Materialized)
        BY <1>4, <2>1, <4>1 DEF RequestOK, LoadOK
      <4>4. TestOK(requests'[r], pages[q], fresh, Materialized)
        BY <1>4, <2>1, <4>1 DEF RequestOK, TestOK
      <4> QED BY <4>2, <4>3, <4>4 DEF RequestOK, fresh
    <3>4. CASE q # p
      BY <1>7, <3>1, <3>3, <3>4
    <3>5. CASE q = p
      <4>1. requests'[r].kind = "test" => pages[p].testing
        BY <3>3, <3>5 DEF RequestOK, TestOK
      <4>2. requests'[r].kind = "test" =>
              /\ pages[p].testing => new.testing
              /\ ~new.touched => ~pages[p].touched /\ new.draft = pages[p].draft
        BY <4>1
      <4> QED BY <1>7, <3>3, <3>5, <4>2, RequestStays
    <3> QED BY <3>4, <3>5
  <2>2. CASE r = n
    <3>1. q = p /\ requests'[r] = last
      BY <1>3, <1>4, <1>5, <2>2
    <3> DEFINE fresh == Fresh(pages'[q], requests', q)
    <3> HIDE DEF fresh
    <3>2. HasUniqueKeys(pages[p].servers)
      BY DEF SettingsInv, PagesOK, PageOK
    <3>3. ChangeOK(last, new, Materialized)
      BY <1>5, <3>2 DEF ChangeOK, Reached
    <3>4. LoadOK(last, Materialized) /\ TestOK(last, new, fresh, Materialized)
      BY <1>5 DEF LoadOK, TestOK
    <3> QED BY <1>7, <3>1, <3>3, <3>4 DEF RequestOK, fresh
  <2> QED BY <1>6, <2>1, <2>2
<1>12. Alone(requests')
  <2> SUFFICES ASSUME NEW i \in DOMAIN requests', NEW j \in DOMAIN requests',
                      requests'[i].page = requests'[j].page, requests'[i].kind # "test",
                      requests'[j].kind # "test", requests'[i].alone
               PROVE  i = j
    BY DEF Alone
  <2>1. CASE i \in DOMAIN requests /\ j \in DOMAIN requests
    BY <1>4, <2>1 DEF SettingsInv, Alone
  <2>2. CASE i \in DOMAIN requests /\ j = n
    BY <1>3, <1>4, <1>5, <2>2
  <2>3. CASE i = n /\ j \in DOMAIN requests
    BY <1>3, <1>4, <1>5, <2>3
  <2> QED BY <1>6, <2>1, <2>2, <2>3
<1>13. OneTest(requests')
  <2> SUFFICES ASSUME NEW i \in DOMAIN requests', NEW j \in DOMAIN requests',
                      requests'[i].page = requests'[j].page, requests'[i].kind = "test",
                      requests'[j].kind = "test"
               PROVE  i = j
    BY DEF OneTest
  <2>1. \A k \in DOMAIN requests :
          requests[k].page = p /\ requests[k].kind = "test" => pages[p].testing
    BY DEF SettingsInv, RequestsOK, RequestOK, TestOK
  <2>2. CASE i \in DOMAIN requests /\ j \in DOMAIN requests
    BY <1>4, <2>2 DEF SettingsInv, OneTest
  <2>3. CASE i \in DOMAIN requests /\ j = n
    BY <1>3, <1>4, <1>5, <2>1, <2>3
  <2>4. CASE i = n /\ j \in DOMAIN requests
    BY <1>3, <1>4, <1>5, <2>1, <2>4
  <2> QED BY <1>6, <2>2, <2>3, <2>4
<1> QED BY <1>8, <1>10, <1>11, <1>12, <1>13 DEF SettingsInv

\* One request under way moves on.
LEMMA MovedFacts ==
  ASSUME TypesOK, NEW r \in DOMAIN requests, NEW req \in RequestType,
         NEW rs, rs = [requests EXCEPT ![r] = req],
         req.page = requests[r].page, req.kind = requests[r].kind,
         req.alone => requests[r].alone
  PROVE  /\ rs \in Seq(RequestType) /\ DOMAIN rs = DOMAIN requests /\ rs[r] = req
         /\ \A i \in DOMAIN requests : i # r => rs[i] = requests[i]
         /\ Alone(requests) => Alone(rs)
         /\ OneTest(requests) => OneTest(rs)
<1>1. /\ requests \in Seq(RequestType) /\ DOMAIN requests = 1 .. Len(requests)
  BY RequestFacts
<1>2. rs \in Seq(RequestType)
  BY <1>1, ExceptSeq
<1>3. /\ DOMAIN rs = DOMAIN requests /\ rs[r] = req
      /\ \A i \in DOMAIN requests : i # r => rs[i] = requests[i]
  BY <1>1
<1>4. \A i \in DOMAIN requests : /\ rs[i].page = requests[i].page
                                 /\ rs[i].kind = requests[i].kind
                                 /\ rs[i].alone => requests[i].alone
  BY <1>3
<1>5. Alone(requests) => Alone(rs)
  BY <1>3, <1>4 DEF Alone
<1>6. OneTest(requests) => OneTest(rs)
  BY <1>3, <1>4 DEF OneTest
<1> QED BY <1>2, <1>3, <1>5, <1>6

\* ... without a change of the store that the page does not know of.
LEMMA ReadStep ==
  ASSUME SettingsInv, NEW r \in DOMAIN requests, NEW req \in RequestType,
         requests' = [requests EXCEPT ![r] = req], file' = file, pages' = pages,
         NEW p, p = requests[r].page, req.page = p, req.kind = requests[r].kind,
         req.alone = requests[r].alone, ~Reached(req), ~Reached(requests[r]),
         RequestOK(req, pages[p], Fresh(pages[p], requests, p), Materialized)
  PROVE  SettingsInv'
<1>1. /\ requests' \in Seq(RequestType) /\ DOMAIN requests' = DOMAIN requests
      /\ requests'[r] = req
      /\ \A i \in DOMAIN requests : i # r => requests'[i] = requests[i]
      /\ Alone(requests') /\ OneTest(requests')
  BY MovedFacts DEF SettingsInv
<1>2. Materialized' = Materialized
  BY DEF Materialized
<1>3. \A q : Fresh(pages[q], requests', q) = Fresh(pages[q], requests, q)
  <2>1. \A i \in DOMAIN requests : Reached(requests'[i]) <=> Reached(requests[i])
    BY <1>1
  <2>2. \A i \in DOMAIN requests : requests'[i].page = requests[i].page
    BY <1>1
  <2>3. \A q : AllSeen(requests', q) <=> AllSeen(requests, q)
    BY <1>1, <2>1, <2>2 DEF AllSeen
  <2> QED BY <2>3 DEF Fresh
<1>4. TypesOK'
  BY <1>1, <1>2 DEF SettingsInv, TypesOK
<1>5. PagesOK'
  BY <1>2, <1>3 DEF SettingsInv, PagesOK
<1>6. RequestsOK'
  <2> SUFFICES ASSUME NEW i \in DOMAIN requests, NEW q, q = requests'[i].page
               PROVE  RequestOK(requests'[i], pages[q], Fresh(pages[q], requests', q),
                                Materialized)
    BY <1>1, <1>2 DEF RequestsOK
  <2>1. CASE i = r
    BY <1>1, <1>3, <2>1
  <2>2. CASE i # r
    <3>1. requests'[i] = requests[i]
      BY <1>1, <2>2
    <3>2. RequestOK(requests[i], pages[q], Fresh(pages[q], requests, q), Materialized)
      BY <3>1 DEF SettingsInv, RequestsOK
    <3> QED BY <1>3, <3>1, <3>2
  <2> QED BY <2>1, <2>2
<1> QED BY <1>1, <1>4, <1>5, <1>6 DEF SettingsInv

\* ... with such a change, which makes the others doubt.
LEMMA ChangeStep ==
  ASSUME SettingsInv, NEW r \in DOMAIN requests, NEW req \in RequestType,
         Known(r, [requests EXCEPT ![r] = req]),
         file' \in Seq(Server), ServersOK(Materialized'),
         NEW p, p = requests[r].page, req.page = p, req.kind = requests[r].kind,
         req.alone = requests[r].alone, Reached(req), ChangeOK(req, pages[p], Materialized')
  PROVE  SettingsInv'
<1>1. PICK rs : rs = [requests EXCEPT ![r] = req]
  OBVIOUS
<1>2. /\ requests \in Seq(RequestType) /\ DOMAIN requests = 1 .. Len(requests)
      /\ Len(requests) \in Nat /\ pages \in [Page -> PageType] /\ p \in Page
      /\ \A i \in DOMAIN requests : requests[i].page \in Page
  BY RequestFacts DEF SettingsInv
<1>3. /\ rs \in Seq(RequestType) /\ DOMAIN rs = DOMAIN requests /\ rs[r] = req
      /\ \A i \in DOMAIN requests : i # r => rs[i] = requests[i]
      /\ Alone(rs) /\ OneTest(rs)
  BY <1>1, MovedFacts DEF SettingsInv
<1> DEFINE news(i) == [rs[i] EXCEPT !.alone = FALSE]
<1>4. requests' = [i \in DOMAIN rs |-> IF rs[i].page # p THEN news(i) ELSE rs[i]]
  BY <1>1 DEF Known
<1>5. \A i \in DOMAIN rs : rs[i] \in RequestType
  BY <1>2, <1>3, ElementOfSeq, DomainOfSeq
<1>6. \A i \in DOMAIN rs : /\ news(i) \in RequestType /\ ~news(i).alone
                           /\ news(i).page = rs[i].page /\ news(i).kind = rs[i].kind
                           /\ news(i).draft = rs[i].draft /\ news(i).list = rs[i].list
                           /\ news(i).stage = rs[i].stage
                           /\ news(i).answer = rs[i].answer
  BY <1>5 DEF RequestType
<1> HIDE DEF news
<1>7. /\ DOMAIN requests' = DOMAIN requests
      /\ \A i \in DOMAIN requests : requests'[i] = IF rs[i].page # p THEN news(i) ELSE rs[i]
  BY <1>3, <1>4
<1>8. requests' \in Seq(RequestType)
  <2>1. requests' \in [1 .. Len(requests) -> RequestType]
    BY <1>2, <1>3, <1>4, <1>5, <1>6, <1>7
  <2> QED BY <1>2, <2>1, MappedSeq
<1>9. \A i \in DOMAIN requests :
        /\ requests'[i].page = rs[i].page /\ requests'[i].kind = rs[i].kind
        /\ requests'[i].alone => rs[i].alone /\ rs[i].page = p
  BY <1>3, <1>6, <1>7
<1>10. Alone(requests') /\ OneTest(requests')
  BY <1>3, <1>7, <1>9 DEF Alone, OneTest
<1>11. /\ pages' \in [Page -> PageType] /\ pages'[p] = pages[p]
       /\ \A q \in Page \ {p} : /\ pages'[q].doubt /\ pages'[q].servers = pages[q].servers
                                /\ pages'[q].testing = pages[q].testing
                                /\ pages'[q].touched = pages[q].touched
                                /\ pages'[q].draft = pages[q].draft
                                /\ pages'[q].result = pages[q].result
  <2> DEFINE doubting(q) == [pages[q] EXCEPT !.doubt = TRUE]
  <2>1. pages' = [q \in Page |-> IF q # p THEN doubting(q) ELSE pages[q]]
    BY DEF Known
  <2>2. \A q \in Page : /\ doubting(q) \in PageType /\ doubting(q).doubt
                        /\ doubting(q).servers = pages[q].servers
                        /\ doubting(q).testing = pages[q].testing
                        /\ doubting(q).touched = pages[q].touched
                        /\ doubting(q).draft = pages[q].draft
                        /\ doubting(q).result = pages[q].result
    BY <1>2 DEF PageType
  <2> HIDE DEF doubting
  <2> QED BY <1>2, <2>1, <2>2
<1>12. \A q \in Page : Fresh(pages'[q], requests', q) = FALSE
  <2>1. requests'[r] = req
    BY <1>3, <1>7
  <2>2. ~AllSeen(requests', p)
    BY <1>7, <2>1 DEF AllSeen
  <2>3. \A q \in Page : ~Fresh(pages'[q], requests', q)
    BY <1>11, <2>2 DEF Fresh
  <2>4. \A q : Fresh(pages'[q], requests', q) \in BOOLEAN
    BY DEF Fresh
  <2> QED BY <2>3, <2>4
<1>13. TypesOK'
  BY <1>8, <1>11 DEF TypesOK
<1>14. PagesOK'
  <2> SUFFICES ASSUME NEW q \in Page PROVE PageOK(pages'[q], FALSE, Materialized')
    BY <1>12 DEF PagesOK
  <2>1. PageOK(pages[q], Fresh(pages[q], requests, q), Materialized)
    BY DEF SettingsInv, PagesOK
  <2>2. CASE q = p
    BY <1>11, <2>1, <2>2 DEF PageOK
  <2>3. CASE q # p
    BY <1>11, <2>1, <2>3 DEF PageOK
  <2> QED BY <2>2, <2>3
<1>15. RequestsOK'
  <2> SUFFICES ASSUME NEW i \in DOMAIN requests, NEW q, q = rs[i].page
               PROVE  RequestOK(requests'[i], pages'[q], FALSE, Materialized')
    <3>1. \A i \in DOMAIN requests : rs[i].page \in Page
      BY <1>2, <1>3
    <3> QED BY <1>7, <1>9, <1>12, <3>1 DEF RequestsOK
  <2>1. CASE i = r
    <3>1. requests'[i] = req /\ q = p
      BY <1>3, <1>7, <2>1
    <3>2. LoadOK(req, Materialized') /\ TestOK(req, pages[p], FALSE, Materialized')
      BY DEF LoadOK, TestOK, Reached, Changing
    <3> QED BY <1>11, <3>1, <3>2 DEF RequestOK
  <2>2. CASE i # r
    <3>1. rs[i] = requests[i] /\ q \in Page
      BY <1>2, <1>3, <2>2
    <3>2. RequestOK(requests[i], pages[q], Fresh(pages[q], requests, q), Materialized)
      BY <3>1 DEF SettingsInv, RequestsOK
    <3>3. requests'[i].alone => requests'[i].kind = "test"
      <4>1. requests[r].kind # "test"
        BY DEF Reached, Changing
      <4> QED BY <1>3, <1>9, <2>2, <4>1 DEF Alone
    <3>4. /\ requests'[i].kind = requests[i].kind /\ requests'[i].draft = requests[i].draft
          /\ requests'[i].list = requests[i].list /\ requests'[i].stage = requests[i].stage
          /\ requests'[i].answer = requests[i].answer
      BY <1>3, <1>6, <1>7, <3>1
    <3>5. /\ pages'[q].testing = pages[q].testing /\ pages'[q].touched = pages[q].touched
          /\ pages'[q].draft = pages[q].draft
      BY <1>11, <3>1
    <3>6. ChangeOK(requests'[i], pages'[q], Materialized')
      BY <3>2, <3>3, <3>4 DEF RequestOK, ChangeOK, Reached, Changing
    <3>7. LoadOK(requests'[i], Materialized')
      BY <3>2, <3>3, <3>4 DEF RequestOK, LoadOK
    <3>8. TestOK(requests'[i], pages'[q], FALSE, Materialized')
      BY <3>2, <3>4, <3>5 DEF RequestOK, TestOK
    <3> QED BY <3>6, <3>7, <3>8 DEF RequestOK
  <2> QED BY <2>1, <2>2
<1> QED BY <1>10, <1>13, <1>14, <1>15 DEF SettingsInv

\* A request is over, and its page has changed.
LEMMA EndedFacts ==
  ASSUME TypesOK, NEW r \in DOMAIN requests, NEW rs, rs = RemoveAt(requests, r)
  PROVE  /\ rs \in Seq(RequestType)
         /\ \A k \in DOMAIN rs : \E j \in DOMAIN requests : j # r /\ rs[k] = requests[j]
         /\ Alone(requests) => Alone(rs)
         /\ OneTest(requests) => OneTest(rs)
         /\ \A q : AllSeen(rs, q) /\ (requests[r].page = q => ~Reached(requests[r]))
                     => AllSeen(requests, q)
         /\ \A q : AllSeen(requests, q) => AllSeen(rs, q)
<1> DEFINE from(k) == IF k < r THEN k ELSE k + 1
<1>1. /\ requests \in Seq(RequestType) /\ DOMAIN requests = 1 .. Len(requests)
      /\ Len(requests) \in Nat
  BY RequestFacts
<1>2. /\ rs \in Seq(RequestType)
      /\ \A k \in DOMAIN rs : from(k) \in DOMAIN requests /\ from(k) # r /\ rs[k] = requests[from(k)]
  BY <1>1, RemoveAtKeeps
<1>3. \A j \in DOMAIN requests : j # r => \E k \in DOMAIN rs : rs[k] = requests[j]
  <2>1. \A j \in DOMAIN requests : j # r =>
          LET k == IF j < r THEN j ELSE j - 1
          IN  k \in DOMAIN rs /\ rs[k] = requests[j]
    <3> HIDE DEF from
    <3>1. PICK s \in Seq(RequestType) : s = requests
      BY <1>1
    <3>2. r \in DOMAIN s /\ rs = RemoveAt(s, r)
      BY <3>1
    <3>3. \A j \in DOMAIN s : j # r =>
            LET k == IF j < r THEN j ELSE j - 1
            IN  k \in DOMAIN rs /\ rs[k] = s[j]
      BY <3>2, RemoveAtKeeps
    <3> QED BY <3>1, <3>3
  <2> QED BY <2>1
<1>4. \A k, l \in DOMAIN rs : from(k) = from(l) => k = l
  <2>1. DOMAIN rs \subseteq Int
    BY <1>2, DomainOfSeq
  <2> QED BY <1>1, <2>1
<1> HIDE DEF from
<1>5. Alone(requests) => Alone(rs)
  <2> SUFFICES ASSUME Alone(requests), NEW k \in DOMAIN rs, NEW l \in DOMAIN rs,
                      rs[k].page = rs[l].page, rs[k].kind # "test", rs[l].kind # "test",
                      rs[k].alone
               PROVE  k = l
    BY DEF Alone
  <2>1. from(k) = from(l)
    BY <1>2 DEF Alone
  <2> QED BY <1>4, <2>1
<1>6. OneTest(requests) => OneTest(rs)
  <2> SUFFICES ASSUME OneTest(requests), NEW k \in DOMAIN rs, NEW l \in DOMAIN rs,
                      rs[k].page = rs[l].page, rs[k].kind = "test", rs[l].kind = "test"
               PROVE  k = l
    BY DEF OneTest
  <2>1. from(k) = from(l)
    BY <1>2 DEF OneTest
  <2> QED BY <1>4, <2>1
<1>7. ASSUME NEW q, AllSeen(rs, q), requests[r].page = q => ~Reached(requests[r])
      PROVE  AllSeen(requests, q)
  <2> SUFFICES ASSUME NEW j \in DOMAIN requests, requests[j].page = q
               PROVE  ~Reached(requests[j])
    BY DEF AllSeen
  <2>1. CASE j = r
    BY <1>7, <2>1
  <2>2. CASE j # r
    <3>1. PICK k \in DOMAIN rs : rs[k] = requests[j]
      BY <1>3, <2>2
    <3> QED BY <1>7, <3>1 DEF AllSeen
  <2> QED BY <2>1, <2>2
<1>8. \A q : AllSeen(requests, q) => AllSeen(rs, q)
  BY <1>2 DEF AllSeen
<1> QED BY <1>2, <1>5, <1>6, <1>7, <1>8

LEMMA FinishStep ==
  ASSUME SettingsInv, NEW r \in DOMAIN requests, NEW req, req = requests[r],
         NEW p, p = req.page, requests' = RemoveAt(requests, r), file' = file,
         NEW final \in PageType, pages' = [pages EXCEPT ![p] = final],
         PageOK(final, Fresh(final, requests', p), Materialized),
         req.kind = "test" =>
           /\ final.servers = pages[p].servers /\ (pages[p].doubt => final.doubt),
         req.kind # "test" /\ pages[p].testing =>
           /\ final.testing
           /\ ~final.touched =>
                /\ ~pages[p].touched /\ final.draft = pages[p].draft
                /\ Fresh(final, requests', p) => Fresh(pages[p], requests, p)
  PROVE  SettingsInv'
<1>1. /\ requests \in Seq(RequestType) /\ DOMAIN requests = 1 .. Len(requests)
      /\ pages \in [Page -> PageType] /\ p \in Page
      /\ \A i \in DOMAIN requests : requests[i].page \in Page
  BY RequestFacts DEF SettingsInv
<1>2. /\ requests' \in Seq(RequestType) /\ Alone(requests') /\ OneTest(requests')
      /\ \A k \in DOMAIN requests' : \E j \in DOMAIN requests :
           j # r /\ requests'[k] = requests[j]
      /\ \A q : AllSeen(requests', q) /\ (p = q => ~Reached(req)) => AllSeen(requests, q)
      /\ \A q : AllSeen(requests, q) => AllSeen(requests', q)
  <2>1. PICK rs : rs = RemoveAt(requests, r)
    OBVIOUS
  <2>2. /\ rs \in Seq(RequestType) /\ Alone(rs) /\ OneTest(rs)
        /\ \A k \in DOMAIN rs : \E j \in DOMAIN requests : j # r /\ rs[k] = requests[j]
        /\ \A q : AllSeen(rs, q) /\ (p = q => ~Reached(req)) => AllSeen(requests, q)
        /\ \A q : AllSeen(requests, q) => AllSeen(rs, q)
    BY <2>1, EndedFacts DEF SettingsInv
  <2>3. requests' = rs
    BY <2>1
  <2> QED BY <2>2, <2>3
<1>3. /\ pages' \in [Page -> PageType] /\ pages'[p] = final
      /\ \A q \in Page \ {p} : pages'[q] = pages[q]
  BY <1>1
<1>4. Materialized' = Materialized
  BY DEF Materialized
<1>5. TypesOK'
  BY <1>2, <1>3, <1>4 DEF SettingsInv, TypesOK
<1>6. \A q \in Page \ {p} : Fresh(pages'[q], requests', q) = Fresh(pages[q], requests, q)
  BY <1>2, <1>3 DEF Fresh
<1>7. PagesOK'
  BY <1>3, <1>4, <1>6 DEF SettingsInv, PagesOK
<1>8. RequestsOK'
  <2> SUFFICES ASSUME NEW k \in DOMAIN requests', NEW q, q = requests'[k].page
               PROVE  RequestOK(requests'[k], pages'[q], Fresh(pages'[q], requests', q),
                                Materialized)
    BY <1>4 DEF RequestsOK
  <2>1. PICK j \in DOMAIN requests : j # r /\ requests'[k] = requests[j]
    BY <1>2
  <2>2. q \in Page /\ RequestOK(requests[j], pages[q], Fresh(pages[q], requests, q), Materialized)
    BY <1>1, <2>1 DEF SettingsInv, RequestsOK
  <2>3. CASE q # p
    BY <1>3, <1>6, <2>1, <2>2, <2>3
  <2>4. CASE q = p /\ req.kind = "test"
    <3>1. requests[j].kind # "test"
      BY <2>1, <2>4 DEF SettingsInv, OneTest
    <3>2. ~Reached(req)
      BY <2>4 DEF Reached, Changing
    <3>3. Fresh(final, requests', p) => Fresh(pages[p], requests, p)
      BY <1>2, <2>4, <3>2 DEF Fresh
    <3> QED BY <1>3, <2>1, <2>2, <2>4, <3>1, <3>3, RequestStays
  <2>5. CASE q = p /\ req.kind # "test" /\ requests[j].kind = "test"
    <3>1. pages[p].testing
      BY <2>2, <2>5 DEF RequestOK, TestOK
    <3> DEFINE fresh == Fresh(pages[p], requests, p)
               fresher == Fresh(final, requests', p)
    <3>2. TestOK(requests[j], pages[p], fresh, Materialized)
      BY <2>2, <2>5 DEF RequestOK
    <3>3. /\ final.testing
          /\ ~final.touched => ~pages[p].touched /\ final.draft = pages[p].draft
                                 /\ (fresher => fresh)
      BY <2>5, <3>1
    <3> HIDE DEF fresh, fresher
    <3>4. TestOK(requests[j], final, fresher, Materialized)
      BY <2>5, <3>2, <3>3 DEF TestOK
    <3>5. ChangeOK(requests[j], final, Materialized) /\ LoadOK(requests[j], Materialized)
      BY <2>5 DEF ChangeOK, LoadOK, Reached, Changing
    <3> QED BY <1>3, <2>1, <2>5, <3>4, <3>5 DEF RequestOK, fresher
  <2>6. CASE q = p /\ req.kind # "test" /\ requests[j].kind # "test"
    <3>1. ~requests[j].alone
      BY <2>1, <2>6 DEF SettingsInv, Alone
    <3> DEFINE fresher == Fresh(final, requests', p)
    <3> HIDE DEF fresher
    <3>2. ChangeOK(requests[j], final, Materialized) /\ LoadOK(requests[j], Materialized)
      BY <2>2, <3>1 DEF RequestOK, ChangeOK, LoadOK
    <3>3. TestOK(requests[j], final, fresher, Materialized)
      BY <2>2, <2>6 DEF RequestOK, TestOK
    <3> QED BY <1>3, <2>1, <2>6, <3>2, <3>3 DEF RequestOK, fresher
  <2> QED BY <2>3, <2>4, <2>5, <2>6
<1> QED BY <1>2, <1>5, <1>7, <1>8 DEF SettingsInv

-----------------------------------------------------------------------------
\* Clicks and edits.

LEMMA DraftTypes ==
  /\ EmptyDraft \in Draft /\ EmptyDraft.key = NoKey
  /\ \A s \in Shown : Clone(s) \in Draft /\ Clone(s).key = s.key
<1>1. EmptyAuth \in Auth
  BY StoreConstants DEF EmptyAuth, Auth
<1>2. \A t \in AuthType : [EmptyAuth EXCEPT !.type = t] \in Auth
  BY <1>1 DEF Auth
<1> QED BY <1>1, <1>2 DEF EmptyDraft, Draft, Clone, Shown

LEMMA WithDraftFacts ==
  ASSUME NEW page \in PageType, NEW d \in Draft, NEW new, new = WithDraft(page, d)
  PROVE  /\ new \in PageType /\ new.draft = d
         /\ new.touched = (page.touched \/ page.testing)
         /\ new.servers = page.servers /\ new.selected = page.selected
         /\ new.saving = page.saving /\ new.testing = page.testing
         /\ new.result = page.result /\ new.pending = page.pending
         /\ new.doubt = page.doubt
<1>1. PICK touched \in BOOLEAN : touched = (page.touched \/ page.testing)
  BY DEF PageType
<1>2. new = [page EXCEPT !.draft = d, !.touched = touched]
  BY <1>1 DEF WithDraft
<1> QED BY <1>1, <1>2 DEF PageType

\* Another draft, selection or none of the results: all that a form does.
LEMMA FormFacts ==
  ASSUME SettingsInv, NEW p \in Page, NEW d \in Draft, NEW k \in Key \cup {NoKey},
         NEW new, new = [WithDraft(pages[p], d) EXCEPT !.selected = k, !.result = NoResult],
         Show(p, new)
  PROVE  SettingsInv'
<1>1. pages[p] \in PageType
  BY RequestFacts DEF SettingsInv
<1>2. PICK page : page = WithDraft(pages[p], d)
  OBVIOUS
<1>3. /\ page \in PageType /\ page.touched = (pages[p].touched \/ pages[p].testing)
      /\ page.servers = pages[p].servers /\ page.testing = pages[p].testing
      /\ page.doubt = pages[p].doubt
  BY <1>1, <1>2, WithDraftFacts
<1>4. NoResult \in Answer
  BY DEF Answer
<1>5. /\ new \in PageType /\ new.touched = page.touched /\ new.servers = page.servers
      /\ new.testing = page.testing /\ new.doubt = page.doubt /\ new.result = NoResult
  BY <1>2, <1>3, <1>4 DEF PageType
<1>6. /\ new.servers = pages[p].servers /\ new.doubt = pages[p].doubt
      /\ new.testing = pages[p].testing
  BY <1>3, <1>5
<1>7. new.touched = (pages[p].touched \/ pages[p].testing)
  BY <1>3, <1>5
<1>8. new \in PageType /\ new.result = NoResult
  BY <1>5
<1>9. PICK final \in PageType : final = new
  BY <1>8
<1>10. Show(p, final) /\ final.touched = (pages[p].touched \/ pages[p].testing)
  BY <1>7, <1>9
<1> QED BY <1>6, <1>8, <1>9, <1>10, ShowStep

LEMMA ShownServers ==
  ASSUME SettingsInv, NEW p \in Page, NEW i \in DOMAIN pages[p].servers
  PROVE  pages[p].servers[i] \in Shown /\ pages[p].servers[i].key \in Key
<1>1. pages[p].servers \in Seq(Shown)
  BY RequestFacts DEF SettingsInv, PageType
<1>2. pages[p].servers[i] \in Shown
  BY <1>1, DomainOfSeq, ElementOfSeq
<1> QED BY <1>2 DEF Shown

LEMMA NextSelect ==
  ASSUME SettingsInv, NEW p \in Page, Select(p)  PROVE SettingsInv'
<1>1. PICK i \in DOMAIN pages[p].servers :
        LET s == pages[p].servers[i]
        IN Show(p, [WithDraft(pages[p], Clone(s)) EXCEPT
                      !.selected = s.key, !.result = NoResult])
  BY DEF Select
<1>2. PICK s \in Shown : s = pages[p].servers[i] /\ s.key \in Key
  BY ShownServers
<1>3. PICK d \in Draft : d = Clone(s)
  BY DraftTypes
<1> QED BY <1>1, <1>2, <1>3, FormFacts

LEMMA NextStartNew ==
  ASSUME SettingsInv, NEW p \in Page, StartNew(p)  PROVE SettingsInv'
<1>1. PICK d \in Draft : d = EmptyDraft
  BY DraftTypes
<1> QED BY <1>1, FormFacts DEF StartNew

LEMMA NextEdit ==
  ASSUME SettingsInv, NEW p \in Page, Edit(p)  PROVE SettingsInv'
<1>1. pages[p] \in PageType
  BY RequestFacts DEF SettingsInv
<1>2. PICK old \in Draft : old = pages[p].draft
  BY <1>1 DEF PageType
<1>3. ASSUME NEW d \in Draft, Show(p, Edited(p, d)) PROVE SettingsInv'
  <2>1. PICK page : page = WithDraft(pages[p], d)
    OBVIOUS
  <2>2. page \in PageType
    BY <1>1, <2>1, WithDraftFacts
  <2>3. page.selected \in Key \cup {NoKey}
    BY <2>2 DEF PageType
  <2>4. [page EXCEPT !.result = NoResult]
          = [page EXCEPT !.selected = page.selected, !.result = NoResult]
    BY <2>2 DEF PageType
  <2>5. PICK k \in Key \cup {NoKey} : k = page.selected
    BY <2>3
  <2>6. Show(p, [WithDraft(pages[p], d) EXCEPT !.selected = k, !.result = NoResult])
    BY <1>3, <2>1, <2>4, <2>5 DEF Edited
  <2> QED BY <2>6, FormFacts
<1>4. old.auth \in Auth /\ old.enabled \in BOOLEAN /\ old.key \in Key \cup {NoKey}
  BY DEF Draft
<1>5. \A k \in Key : [old EXCEPT !.key = k] \in Draft
  BY DEF Draft
<1>6. [old EXCEPT !.enabled = ~@] \in Draft
  BY DEF Draft
<1>7. \A t \in AuthType : [old EXCEPT !.auth.type = t] \in Draft
  BY <1>4 DEF Draft, Auth
<1>8. \A s \in Secret : old.auth.type # NoAuth =>
        [old EXCEPT !.auth.secrets[old.auth.type] = s] \in Draft
  BY <1>4 DEF Draft, Auth, WithSecret
<1>9. \/ \E k \in Key : Show(p, Edited(p, [old EXCEPT !.key = k]))
      \/ Show(p, Edited(p, [old EXCEPT !.enabled = ~@]))
      \/ \E t \in AuthType : Show(p, Edited(p, [old EXCEPT !.auth.type = t]))
      \/ /\ old.auth.type # NoAuth
         /\ \E s \in Secret :
              Show(p, Edited(p, [old EXCEPT !.auth.secrets[old.auth.type] = s]))
  BY <1>2 DEF Edit
<1> QED BY <1>3, <1>5, <1>6, <1>7, <1>8, <1>9

\* The request of a click.
LEMMA RequestMade ==
  ASSUME SettingsInv, NEW p \in Page, NEW kind \in Kind, NEW d \in Draft,
         NEW request, request = Request(p, kind, d)
  PROVE  /\ request \in RequestType /\ request.page = p /\ request.kind = kind
         /\ request.draft = d /\ request.list = pages[p].servers
         /\ request.stage = "sent"
<1>1. pages[p].servers \in Seq(Shown)
  BY RequestFacts DEF SettingsInv, PageType
<1>2. NoResult \in Answer
  BY DEF Answer
<1> QED BY <1>1, <1>2 DEF Request, RequestType

LEMMA NextLoad ==
  ASSUME SettingsInv, NEW p \in Page, Load(p)  PROVE SettingsInv'
<1>1. PICK request : request = Request(p, "load", EmptyDraft)
  OBVIOUS
<1>2. /\ request \in RequestType /\ request.page = p /\ request.kind = "load"
      /\ request.stage = "sent"
  BY <1>1, RequestMade, DraftTypes DEF Kind
<1>3. pages \in [Page -> PageType]
  BY RequestFacts DEF SettingsInv
<1>4. Make(request) /\ pages' = [pages EXCEPT ![p] = pages[p]] /\ pages[p] \in PageType
  BY <1>1, <1>3 DEF Load
<1> QED BY <1>2, <1>4, MakeStep

LEMMA NextSave ==
  ASSUME SettingsInv, NEW p \in Page, Save(p)  PROVE SettingsInv'
<1>1. PICK request : request = Request(p, "save", pages[p].draft)
  OBVIOUS
<1>2. pages \in [Page -> PageType] /\ pages[p] \in PageType
  BY RequestFacts DEF SettingsInv
<1>3. pages[p].draft \in Draft
  BY <1>2 DEF PageType
<1>4. /\ request \in RequestType /\ request.page = p /\ request.kind = "save"
      /\ request.draft = pages[p].draft /\ request.stage = "sent"
  BY <1>1, <1>3, RequestMade DEF Kind
<1>5. request.draft.key \in Key
  BY <1>3, <1>4 DEF Save, Draft
<1>6. PICK new : new = [pages[p] EXCEPT !.saving = TRUE]
  OBVIOUS
<1>7. Make(request) /\ pages' = [pages EXCEPT ![p] = new]
  BY <1>1, <1>2, <1>6 DEF Save
<1>8. /\ new \in PageType /\ new.servers = pages[p].servers /\ new.doubt = pages[p].doubt
      /\ new.draft = pages[p].draft /\ new.testing = pages[p].testing
      /\ new.touched = pages[p].touched /\ new.result = pages[p].result
  BY <1>2, <1>6 DEF PageType
<1> QED BY <1>4, <1>5, <1>7, <1>8, MakeStep

LEMMA NextToggle ==
  ASSUME SettingsInv, NEW p \in Page, Toggle(p)  PROVE SettingsInv'
<1>1. PICK i \in DOMAIN pages[p].servers :
        LET s == pages[p].servers[i]
        IN /\ Make(Request(p, "toggle", [Clone(s) EXCEPT !.enabled = ~@]))
           /\ pages' = [pages EXCEPT ![p].pending = @ \cup {s.key}]
  BY DEF Toggle
<1>2. PICK s \in Shown : s = pages[p].servers[i] /\ s.key \in Key
  BY ShownServers
<1>3. Clone(s) \in Draft /\ Clone(s).key = s.key
  BY DraftTypes
<1>4. PICK d : d = [Clone(s) EXCEPT !.enabled = ~@]
  OBVIOUS
<1>5. d \in Draft /\ d.key \in Key
  BY <1>2, <1>3, <1>4 DEF Draft
<1>6. PICK request : request = Request(p, "toggle", d)
  OBVIOUS
<1>7. /\ request \in RequestType /\ request.page = p /\ request.kind = "toggle"
      /\ request.draft = d /\ request.stage = "sent"
  BY <1>5, <1>6, RequestMade DEF Kind
<1>8. pages \in [Page -> PageType] /\ pages[p] \in PageType
  BY RequestFacts DEF SettingsInv
<1>9. PICK new : new = [pages[p] EXCEPT !.pending = @ \cup {s.key}]
  OBVIOUS
<1>10. Make(request) /\ pages' = [pages EXCEPT ![p] = new]
  BY <1>1, <1>2, <1>4, <1>6, <1>8, <1>9
<1>11. /\ new \in PageType /\ new.servers = pages[p].servers /\ new.doubt = pages[p].doubt
       /\ new.draft = pages[p].draft /\ new.testing = pages[p].testing
       /\ new.touched = pages[p].touched /\ new.result = pages[p].result
  BY <1>2, <1>8, <1>9 DEF PageType
<1> QED BY <1>5, <1>7, <1>10, <1>11, MakeStep

LEMMA NextDeleteDraft ==
  ASSUME SettingsInv, NEW p \in Page, DeleteDraft(p)  PROVE SettingsInv'
<1>1. PICK request : request = Request(p, "delete", pages[p].draft)
  OBVIOUS
<1>2. pages \in [Page -> PageType] /\ pages[p] \in PageType
  BY RequestFacts DEF SettingsInv
<1>3. pages[p].draft \in Draft
  BY <1>2 DEF PageType
<1>4. /\ request \in RequestType /\ request.page = p /\ request.kind = "delete"
      /\ request.list = pages[p].servers /\ request.stage = "sent"
  BY <1>1, <1>3, RequestMade DEF Kind
<1>5. Make(request) /\ pages' = [pages EXCEPT ![p] = pages[p]]
  BY <1>1, <1>2 DEF DeleteDraft
<1> QED BY <1>2, <1>4, <1>5, MakeStep

LEMMA NextTest ==
  ASSUME SettingsInv, NEW p \in Page, Test(p)  PROVE SettingsInv'
<1>1. PICK request : request = Request(p, "test", pages[p].draft)
  OBVIOUS
<1>2. pages \in [Page -> PageType] /\ pages[p] \in PageType
  BY RequestFacts DEF SettingsInv
<1>3. pages[p].draft \in Draft
  BY <1>2 DEF PageType
<1>4. /\ request \in RequestType /\ request.page = p /\ request.kind = "test"
      /\ request.draft = pages[p].draft /\ request.stage = "sent"
  BY <1>1, <1>3, RequestMade DEF Kind
<1>5. PICK new : new = [pages[p] EXCEPT !.testing = TRUE, !.result = NoResult,
                                        !.touched = FALSE]
  OBVIOUS
<1>6. Make(request) /\ pages' = [pages EXCEPT ![p] = new] /\ ~pages[p].testing
  BY <1>1, <1>2, <1>5 DEF Test
<1>7. NoResult \in Answer
  BY DEF Answer
<1>8. /\ new \in PageType /\ new.servers = pages[p].servers /\ new.doubt = pages[p].doubt
      /\ new.draft = pages[p].draft /\ new.testing /\ new.result = NoResult
  BY <1>2, <1>5, <1>7 DEF PageType
<1> QED BY <1>4, <1>6, <1>8, MakeStep

-----------------------------------------------------------------------------
\* The server.

LEMMA Invariants ==
  ASSUME SettingsInv, NEW r \in DOMAIN requests, NEW p, p = requests[r].page
  PROVE  /\ requests[r] \in RequestType /\ p \in Page /\ pages[p] \in PageType
         /\ ServersOK(Materialized)
         /\ PageOK(pages[p], Fresh(pages[p], requests, p), Materialized)
         /\ RequestOK(requests[r], pages[p], Fresh(pages[p], requests, p), Materialized)
<1>1. requests[r] \in RequestType /\ p \in Page /\ pages[p] \in PageType
  BY RequestFacts DEF SettingsInv
<1>2. PageOK(pages[p], Fresh(pages[p], requests, p), Materialized)
  BY <1>1 DEF SettingsInv, PagesOK
<1>3. RequestOK(requests[r], pages[p], Fresh(pages[p], requests, p), Materialized)
  BY DEF SettingsInv, RequestsOK
<1> QED BY <1>1, <1>2, <1>3 DEF SettingsInv, TypesOK

\* A page without doubt whose only request the server has not answered shows
\* what is stored.
LEMMA AloneShows ==
  ASSUME SettingsInv, NEW r \in DOMAIN requests, NEW p, p = requests[r].page,
         requests[r].alone, requests[r].kind # "test", ~Reached(requests[r]),
         ~pages[p].doubt
  PROVE  pages[p].servers = Told(Materialized)
<1>1. AllSeen(requests, p)
  <2> SUFFICES ASSUME NEW i \in DOMAIN requests, requests[i].page = p,
                      Reached(requests[i])
               PROVE  FALSE
    BY DEF AllSeen
  <2>1. requests[i].kind # "test"
    BY DEF Reached, Changing
  <2>2. i = r
    BY <2>1 DEF SettingsInv, Alone
  <2> QED BY <2>2
<1> QED BY <1>1, Invariants DEF PageOK, Fresh

Advanced(req, stage, answer) == [req EXCEPT !.stage = stage, !.answer = answer]

LEMMA AdvancedFacts ==
  ASSUME NEW old \in RequestType, NEW answer \in Answer, NEW stage,
         stage \in {"sent", "probing", "answered", "failed"},
         NEW req, req = Advanced(old, stage, answer)
  PROVE  /\ req \in RequestType /\ req.page = old.page /\ req.kind = old.kind
         /\ req.draft = old.draft /\ req.list = old.list /\ req.alone = old.alone
         /\ req.stage = stage /\ req.answer = answer
         /\ answer = old.answer => [old EXCEPT !.stage = stage] = req
BY DEF RequestType, Advanced

LEMMA NextHandleLoad ==
  ASSUME SettingsInv, NEW r \in DOMAIN requests, requests[r].stage = "sent", HandleLoad(r)
  PROVE  SettingsInv'
<1>1. PICK p : p = requests[r].page
  OBVIOUS
<1>2. PICK answer : answer = Told(Materialized)
  OBVIOUS
<1>3. answer \in Seq(Shown) /\ HasUniqueKeys(answer) /\ answer = Listing
  BY <1>1, <1>2, Invariants, ToldFacts DEF Listing, Told
<1>4. answer \in Answer
  BY <1>3 DEF Answer
<1>5. PICK req : req = Advanced(requests[r], "answered", answer)
  OBVIOUS
<1>6. /\ req \in RequestType /\ req.page = p /\ req.kind = "load"
      /\ req.alone = requests[r].alone /\ req.stage = "answered" /\ req.answer = answer
      /\ requests' = [requests EXCEPT ![r] = req]
  <2>1. requests \in Seq(RequestType) /\ requests[r] \in RequestType
    BY RequestFacts DEF SettingsInv
  <2>2. requests' = [requests EXCEPT ![r] = req]
    BY <1>3, <1>5, <2>1 DEF HandleLoad, Answered, Advanced
  <2> QED BY <1>1, <1>4, <1>5, <2>1, <2>2, AdvancedFacts DEF HandleLoad
<1>7. file' = file /\ pages' = pages /\ requests[r].kind = "load"
  BY DEF HandleLoad
<1>8. ~Reached(req) /\ ~Reached(requests[r])
  BY <1>6, <1>7 DEF Reached, Changing
<1>9. \A page, fresh : RequestOK(req, page, fresh, Materialized)
  BY <1>2, <1>3, <1>6 DEF RequestOK, ChangeOK, LoadOK, TestOK, Reached, Changing
<1> QED BY <1>1, <1>6, <1>7, <1>8, <1>9, ReadStep

LEMMA NextHandleTest ==
  ASSUME SettingsInv, NEW r \in DOMAIN requests, requests[r].stage = "sent", HandleTest(r)
  PROVE  SettingsInv'
<1>1. PICK p : p = requests[r].page
  OBVIOUS
<1>2. /\ requests[r] \in RequestType /\ p \in Page /\ pages[p] \in PageType
      /\ ServersOK(Materialized)
      /\ RequestOK(requests[r], pages[p], Fresh(pages[p], requests, p), Materialized)
  BY <1>1, Invariants
<1>3. PICK d \in Draft : d = requests[r].draft
  BY <1>2 DEF RequestType
<1>4. PICK answer : answer = TriedOf(Materialized, d)
  OBVIOUS
<1>5. answer \in Tried /\ answer.of = d /\ answer = ConfigForTest(d)
  <2>1. PICK secret \in Secret \cup {NoSecret} : secret = SecretOf(Materialized, d.key, d.auth)
    BY <1>2, SecretFacts
  <2>2. answer = [of |-> d, secret |-> secret]
    BY <1>4, <2>1 DEF TriedOf
  <2>3. answer = ConfigForTest(d)
    BY <1>4 DEF TriedOf, ConfigForTest, SecretOf, WrittenSecret
  <2> QED BY <2>2, <2>3 DEF Tried
<1>6. answer \in Answer
  BY <1>5 DEF Answer
<1>7. PICK req : req = Advanced(requests[r], "probing", answer)
  OBVIOUS
<1>8. /\ req \in RequestType /\ req.page = p /\ req.kind = "test"
      /\ req.alone = requests[r].alone /\ req.stage = "probing" /\ req.answer = answer
      /\ req.draft = d /\ requests' = [requests EXCEPT ![r] = req]
  <2>1. requests \in Seq(RequestType)
    BY RequestFacts DEF SettingsInv
  <2>2. requests' = [requests EXCEPT ![r] = req]
    BY <1>3, <1>5, <1>7, <2>1 DEF HandleTest, Advanced
  <2>3. requests[r].kind = "test"
    BY DEF HandleTest
  <2>4. PICK old \in RequestType : old = requests[r]
    BY <1>2
  <2>5. /\ req \in RequestType /\ req.page = old.page /\ req.kind = old.kind
        /\ req.draft = old.draft /\ req.alone = old.alone
        /\ req.stage = "probing" /\ req.answer = answer
    BY <1>6, <1>7, <2>4, AdvancedFacts
  <2> QED BY <1>1, <1>3, <2>2, <2>3, <2>4, <2>5
<1>9. file' = file /\ pages' = pages /\ requests[r].kind = "test"
  BY DEF HandleTest
<1>10. ~Reached(req) /\ ~Reached(requests[r])
  BY <1>8, <1>9 DEF Reached, Changing
<1> DEFINE fresh == Fresh(pages[p], requests, p)
<1> HIDE DEF fresh
<1>11. TestOK(requests[r], pages[p], fresh, Materialized)
  BY <1>2 DEF RequestOK, fresh
<1>12. TestOK(req, pages[p], fresh, Materialized)
  BY <1>3, <1>4, <1>5, <1>8, <1>9, <1>11 DEF TestOK
<1>13. ChangeOK(req, pages[p], Materialized) /\ LoadOK(req, Materialized)
  BY <1>8, <1>10 DEF ChangeOK, LoadOK
<1>14. RequestOK(req, pages[p], Fresh(pages[p], requests, p), Materialized)
  BY <1>12, <1>13 DEF RequestOK, fresh
<1> QED BY <1>1, <1>8, <1>9, <1>10, <1>14, ReadStep

\* The probe of a tested server is over.
LEMMA NextProbe ==
  ASSUME SettingsInv, NEW r \in DOMAIN requests, ServerProbed(r) \/ ProbeTimesOut(r)
  PROVE  SettingsInv'
<1>1. PICK p : p = requests[r].page
  OBVIOUS
<1>2. /\ requests[r] \in RequestType /\ p \in Page /\ pages[p] \in PageType
      /\ RequestOK(requests[r], pages[p], Fresh(pages[p], requests, p), Materialized)
  BY <1>1, Invariants
<1>3. /\ requests[r].stage = "probing" /\ file' = file /\ pages' = pages
      /\ requests' = [requests EXCEPT ![r].stage = "answered"]
  BY DEF ServerProbed, ProbeTimesOut
<1>4. requests[r].kind = "test"
  BY <1>2, <1>3 DEF RequestOK, TestOK
<1>5. PICK answer \in Answer : answer = requests[r].answer
  BY <1>2 DEF RequestType
<1>6. PICK req : req = Advanced(requests[r], "answered", answer)
  OBVIOUS
<1>7. /\ req \in RequestType /\ req.page = p /\ req.kind = "test"
      /\ req.alone = requests[r].alone /\ req.stage = "answered" /\ req.answer = answer
      /\ req.draft = requests[r].draft /\ requests' = [requests EXCEPT ![r] = req]
  <2>1. requests \in Seq(RequestType) /\ [requests[r] EXCEPT !.stage = "answered"] = req
    BY <1>2, <1>5, <1>6, RequestFacts, AdvancedFacts DEF SettingsInv
  <2>2. requests' = [requests EXCEPT ![r] = req]
    BY <1>3, <2>1
  <2> QED BY <1>1, <1>2, <1>4, <1>5, <1>6, <2>2, AdvancedFacts
<1>8. ~Reached(req) /\ ~Reached(requests[r])
  BY <1>4, <1>7 DEF Reached, Changing
<1> DEFINE fresh == Fresh(pages[p], requests, p)
<1> HIDE DEF fresh
<1>9. TestOK(requests[r], pages[p], fresh, Materialized)
  BY <1>2 DEF RequestOK, fresh
<1>10. TestOK(req, pages[p], fresh, Materialized)
  BY <1>3, <1>4, <1>5, <1>7, <1>9 DEF TestOK
<1>11. ChangeOK(req, pages[p], Materialized) /\ LoadOK(req, Materialized)
  BY <1>7, <1>8 DEF ChangeOK, LoadOK
<1>12. RequestOK(req, pages[p], Fresh(pages[p], requests, p), Materialized)
  BY <1>10, <1>11 DEF RequestOK, fresh
<1> QED BY <1>1, <1>3, <1>4, <1>7, <1>8, <1>12, ReadStep

\* A save or a toggle writes one server, and the answer tells of it.
LEMMA WriteStep ==
  ASSUME SettingsInv, NEW r \in DOMAIN requests, requests[r].stage = "sent",
         requests[r].kind \in {"save", "toggle"}, NEW server \in Server,
         server.type = NoAuth => server.secret = NoSecret,
         server.key = requests[r].draft.key, file' = Upserted(server),
         requests[r].kind = "toggle" => Holds(Materialized, server.key),
         Known(r, Answered(r, Response(At(Materialized', requests[r].draft.key))))
  PROVE  SettingsInv'
<1>1. PICK p : p = requests[r].page
  OBVIOUS
<1>2. /\ requests[r] \in RequestType /\ ServersOK(Materialized)
      /\ RequestOK(requests[r], pages[p], Fresh(pages[p], requests, p), Materialized)
  BY <1>1, Invariants
<1>3. PICK k : k = server.key
  OBVIOUS
<1>4. PICK M : M = Materialized
  OBVIOUS
<1>5. PICK t : t = UpsertedIn(M, server)
  OBVIOUS
<1>6. Materialized' = t /\ file' \in Seq(Server) /\ ServersOK(Materialized')
  BY <1>4, <1>5, WrittenFile DEF SettingsInv
<1>7. At(t, k) = server
  <2>1. ServersOK(M)
    BY <1>2, <1>4
  <2> QED BY <1>3, <1>5, <2>1, UpsertedFacts
<1>8. PICK answer : answer = Response(server)
  OBVIOUS
<1>9. answer \in Shown /\ answer.key = k
  BY <1>3, <1>8 DEF Response, Server, Shown
<1>10. answer \in Answer
  BY <1>9 DEF Answer
<1>17. PICK req : req = Advanced(requests[r], "answered", answer)
  OBVIOUS
<1>11. /\ req \in RequestType /\ req.page = p /\ req.kind = requests[r].kind
       /\ req.draft = requests[r].draft /\ req.list = requests[r].list
       /\ req.alone = requests[r].alone /\ req.stage = "answered" /\ req.answer = answer
       /\ Answered(r, answer) = [requests EXCEPT ![r] = req]
  <2>1. requests \in Seq(RequestType)
    BY RequestFacts DEF SettingsInv
  <2>2. Answered(r, answer) = [requests EXCEPT ![r] = req]
    BY <1>17, <2>1 DEF Answered, Advanced
  <2> QED BY <1>1, <1>2, <1>10, <1>17, <2>2, AdvancedFacts
<1>12. Known(r, [requests EXCEPT ![r] = req])
  BY <1>3, <1>6, <1>7, <1>8, <1>11
<1>13. ~Reached(requests[r]) /\ Reached(req) /\ req.kind \in {"save", "toggle"}
  BY <1>11 DEF Reached, Changing
<1>14. req.draft.key \in Key
  BY <1>2, <1>11 DEF RequestOK, ChangeOK
<1>15. ASSUME req.alone, ~pages[p].doubt
       PROVE  Applied(pages[p].servers, req) = Told(t)
  <2>1. pages[p].servers = Told(M)
    BY <1>1, <1>4, <1>11, <1>13, <1>15, AloneShows
  <2>2. PICK s : s = Told(M)
    OBVIOUS
  <2>3. ServersOK(M)
    BY <1>2, <1>4
  <2>4. Holds(s, k) <=> Holds(M, k)
    BY <2>2, <2>3, ToldFacts
  <2>5. /\ Holds(M, k) => Replaced(s, answer) = Told(t)
        /\ ~Holds(M, k) => Append(s, answer) = Told(t)
    BY <1>3, <1>5, <1>8, <2>2, <2>3, WrittenIsShown
  <2>6. CASE req.kind = "save"
    BY <1>9, <1>11, <2>1, <2>2, <2>4, <2>5, <2>6 DEF Applied
  <2>7. CASE req.kind = "toggle"
    <3>1. Holds(M, k)
      BY <1>3, <1>4, <1>11, <2>7
    <3> QED BY <1>11, <2>1, <2>2, <2>5, <2>7, <3>1 DEF Applied
  <2> QED BY <1>13, <2>6, <2>7
<1>16. ChangeOK(req, pages[p], Materialized')
  BY <1>6, <1>9, <1>11, <1>13, <1>14, <1>15 DEF ChangeOK
<1> QED BY <1>1, <1>6, <1>11, <1>12, <1>13, <1>16, ChangeStep

LEMMA NextHandleSave ==
  ASSUME SettingsInv, NEW r \in DOMAIN requests, requests[r].stage = "sent", HandleSave(r)
  PROVE  SettingsInv'
<1>1. PICK d : d = requests[r].draft
  OBVIOUS
<1>2. /\ requests[r].kind = "save" /\ Put(d.key, d.enabled, d.auth)
      /\ Known(r, Answered(r, Response(At(Materialized', d.key))))
  BY <1>1 DEF HandleSave
<1>3. requests[r] \in RequestType /\ d.key \in Key
  BY <1>1, <1>2, Invariants DEF RequestOK, ChangeOK
<1>4. d \in Draft
  BY <1>1, <1>3 DEF RequestType
<1>5. PICK server \in Server :
        /\ server = [key |-> d.key, enabled |-> d.enabled, type |-> d.auth.type,
                     secret |-> SecretOf(Materialized, d.key, d.auth)]
        /\ server.type = NoAuth => server.secret = NoSecret
        /\ file' = Upserted(server)
  BY <1>2, <1>3, <1>4, PutFacts DEF SettingsInv
<1>6. server.key = d.key
  BY <1>5
<1> QED BY <1>1, <1>2, <1>5, <1>6, WriteStep

\* A request that the server refuses has changed nothing.
LEMMA FailedStep ==
  ASSUME SettingsInv, NEW r \in DOMAIN requests, requests[r].stage = "sent",
         requests[r].kind \in {"toggle", "delete"},
         requests' = [requests EXCEPT ![r].stage = "failed"],
         file' = file, pages' = pages
  PROVE  SettingsInv'
<1>1. PICK p : p = requests[r].page
  OBVIOUS
<1>2. /\ requests[r] \in RequestType
      /\ RequestOK(requests[r], pages[p], Fresh(pages[p], requests, p), Materialized)
  BY <1>1, Invariants
<1>3. PICK answer \in Answer : answer = requests[r].answer
  BY <1>2 DEF RequestType
<1>9. PICK req : req = Advanced(requests[r], "failed", answer)
  OBVIOUS
<1>4. /\ req \in RequestType /\ req.page = p /\ req.kind = requests[r].kind
      /\ req.draft = requests[r].draft /\ req.list = requests[r].list
      /\ req.alone = requests[r].alone /\ req.stage = "failed"
      /\ requests' = [requests EXCEPT ![r] = req]
  <2>1. requests \in Seq(RequestType) /\ [requests[r] EXCEPT !.stage = "failed"] = req
    BY <1>2, <1>3, <1>9, RequestFacts, AdvancedFacts DEF SettingsInv
  <2>2. requests' = [requests EXCEPT ![r] = req]
    BY <2>1
  <2>3. PICK old \in RequestType : old = requests[r]
    BY <1>2
  <2>4. /\ req \in RequestType /\ req.page = old.page /\ req.kind = old.kind
        /\ req.draft = old.draft /\ req.list = old.list /\ req.alone = old.alone
        /\ req.stage = "failed"
    BY <1>3, <1>9, <2>3, AdvancedFacts
  <2> QED BY <1>1, <2>2, <2>3, <2>4
<1>5. ~Reached(req) /\ ~Reached(requests[r])
  BY <1>4 DEF Reached, Changing
<1>6. ChangeOK(req, pages[p], Materialized)
  BY <1>2, <1>4, <1>5 DEF RequestOK, ChangeOK
<1> DEFINE fresh == Fresh(pages[p], requests, p)
<1> HIDE DEF fresh
<1>7. LoadOK(req, Materialized) /\ TestOK(req, pages[p], fresh, Materialized)
  BY <1>4 DEF LoadOK, TestOK
<1>8. RequestOK(req, pages[p], Fresh(pages[p], requests, p), Materialized)
  BY <1>6, <1>7 DEF RequestOK, fresh
<1> QED BY <1>1, <1>4, <1>5, <1>8, ReadStep

\* The stored server with another enablement is well-formed.
LEMMA PatchFacts ==
  ASSUME TypesOK, NEW k, NEW on \in BOOLEAN, Patch(k, on)
  PROVE  \E server \in Server :
           /\ server = [At(Materialized, k) EXCEPT !.enabled = on]
           /\ server.key = k /\ (server.type = NoAuth => server.secret = NoSecret)
           /\ file' = Upserted(server) /\ Holds(Materialized, k)
<1>1. PICK M : M = Materialized
  OBVIOUS
<1>2. /\ M \in Seq(Server) /\ HasUniqueKeys(M) /\ DOMAIN M = 1 .. Len(M)
      /\ \A i \in DOMAIN M : M[i].type = NoAuth => M[i].secret = NoSecret
  BY <1>1, DomainOfSeq DEF TypesOK, ServersOK
<1>3. Holds(M, k)
  BY <1>1 DEF Patch
<1>4. PICK n \in DOMAIN M : n = Position(M, k) /\ M[n].key = k
  BY <1>2, <1>3, LookupFacts DEF At
<1>5. PICK s \in Server : s = M[n]
  BY <1>2, <1>4, ElementOfSeq
<1>6. s = At(M, k) /\ s.key = k /\ (s.type = NoAuth => s.secret = NoSecret)
  BY <1>2, <1>4, <1>5 DEF At
<1>7. PICK server : server = [s EXCEPT !.enabled = on]
  OBVIOUS
<1>8. /\ server \in Server /\ server.key = s.key /\ server.type = s.type
      /\ server.secret = s.secret
  BY <1>7 DEF Server
<1>9. file' = Upserted(server)
  BY <1>1, <1>6, <1>7 DEF Patch
<1> QED BY <1>1, <1>3, <1>6, <1>7, <1>8, <1>9

LEMMA NextHandleToggle ==
  ASSUME SettingsInv, NEW r \in DOMAIN requests, requests[r].stage = "sent", HandleToggle(r)
  PROVE  SettingsInv'
<1>1. PICK d : d = requests[r].draft
  OBVIOUS
<1>2. requests[r].kind = "toggle"
  BY DEF HandleToggle
<1>3. requests[r] \in RequestType
  BY Invariants
<1>4. d.enabled \in BOOLEAN
  BY <1>1, <1>3 DEF RequestType, Draft
<1>5. CASE /\ Patch(d.key, d.enabled)
           /\ Known(r, Answered(r, Response(At(Materialized', d.key))))
  <2>1. PICK server \in Server :
          /\ server.key = d.key /\ (server.type = NoAuth => server.secret = NoSecret)
          /\ file' = Upserted(server) /\ Holds(Materialized, d.key)
    BY <1>4, <1>5, PatchFacts DEF SettingsInv
  <2> QED BY <1>1, <1>2, <1>5, <2>1, WriteStep
<1>6. CASE /\ requests' = [requests EXCEPT ![r].stage = "failed"]
           /\ file' = file /\ pages' = pages
  BY <1>2, <1>6, FailedStep
<1> QED BY <1>1, <1>5, <1>6 DEF HandleToggle

LEMMA NextHandleDelete ==
  ASSUME SettingsInv, NEW r \in DOMAIN requests, requests[r].stage = "sent", HandleDelete(r)
  PROVE  SettingsInv'
<1>1. PICK p : p = requests[r].page
  OBVIOUS
<1>2. /\ requests[r] \in RequestType /\ ServersOK(Materialized)
      /\ RequestOK(requests[r], pages[p], Fresh(pages[p], requests, p), Materialized)
  BY <1>1, Invariants
<1>3. PICK k : k = requests[r].draft.key
  OBVIOUS
<1>4. requests[r].kind = "delete"
  BY DEF HandleDelete
<1>5. CASE Delete(k) /\ Known(r, Answered(r, NoResult))
  <2>1. /\ Materialized' = Without(Materialized, k)
        /\ file' \in Seq(Server) /\ ServersOK(Materialized')
    BY <1>5, RemovedFile DEF SettingsInv
  <2>2. NoResult \in Answer
    BY DEF Answer
  <2>9. PICK req : req = Advanced(requests[r], "answered", NoResult)
    OBVIOUS
  <2>3. /\ req \in RequestType /\ req.page = p /\ req.kind = "delete"
        /\ req.draft = requests[r].draft /\ req.list = requests[r].list
        /\ req.alone = requests[r].alone /\ req.stage = "answered"
        /\ Answered(r, NoResult) = [requests EXCEPT ![r] = req]
    <3>1. requests \in Seq(RequestType)
      BY RequestFacts DEF SettingsInv
    <3>2. Answered(r, NoResult) = [requests EXCEPT ![r] = req]
      BY <2>9, <3>1 DEF Answered, Advanced
    <3> QED BY <1>1, <1>2, <1>4, <2>2, <2>9, <3>2, AdvancedFacts
  <2>4. Known(r, [requests EXCEPT ![r] = req])
    BY <1>5, <2>3
  <2>5. ~Reached(requests[r]) /\ Reached(req)
    BY <2>3 DEF Reached, Changing
  <2>6. HasUniqueKeys(req.list) /\ (req.alone => req.list = pages[p].servers)
    BY <1>2, <1>4, <2>3 DEF RequestOK, ChangeOK
  <2>7. ASSUME req.alone, ~pages[p].doubt
        PROVE  Applied(pages[p].servers, req) = Told(Materialized')
    <3>1. req.list = Told(Materialized)
      BY <1>1, <1>4, <2>3, <2>5, <2>6, <2>7, AloneShows
    <3>2. Without(Told(Materialized), k) = Told(Without(Materialized, k))
      BY <1>2, RemovedIsShown
    <3>3. Applied(pages[p].servers, req) = Without(req.list, k)
      BY <1>3, <2>3 DEF Applied
    <3> QED BY <2>1, <3>1, <3>2, <3>3
  <2>8. ChangeOK(req, pages[p], Materialized')
    BY <2>3, <2>6, <2>7 DEF ChangeOK
  <2> QED BY <1>1, <1>4, <2>1, <2>3, <2>4, <2>5, <2>8, ChangeStep
<1>6. CASE /\ requests' = [requests EXCEPT ![r].stage = "failed"]
           /\ file' = file /\ pages' = pages
  BY <1>4, <1>6, FailedStep
<1> QED BY <1>3, <1>5, <1>6 DEF HandleDelete

-----------------------------------------------------------------------------
\* What a page makes of an answer.

\* The lists that a page patches itself hold each server once.
LEMMA AppliedFacts ==
  ASSUME NEW servers \in Seq(Shown), HasUniqueKeys(servers), NEW req \in RequestType,
         req.kind \in {"save", "toggle"} => req.answer \in Shown,
         req.kind = "delete" => HasUniqueKeys(req.list), req.kind \in Changing
  PROVE  Applied(servers, req) \in Seq(Shown) /\ HasUniqueKeys(Applied(servers, req))
<1>1. DOMAIN servers = 1 .. Len(servers) /\ Len(servers) \in Nat
  BY DomainOfSeq
<1>2. \A i \in DOMAIN servers : servers[i] \in Shown
  BY <1>1, ElementOfSeq
<1>3. PICK s : s = req.answer
  OBVIOUS
<1>4. PICK k : k = s.key
  OBVIOUS
<1>5. ASSUME s \in Shown
      PROVE  Replaced(servers, s) \in Seq(Shown) /\ HasUniqueKeys(Replaced(servers, s))
  <2>1. PICK t : t = Replaced(servers, s)
    OBVIOUS
  <2>2. t = [i \in DOMAIN servers |-> IF servers[i].key = k THEN s ELSE servers[i]]
    BY <1>4, <2>1 DEF Replaced
  <2>3. t \in [1 .. Len(servers) -> Shown]
    BY <1>1, <1>2, <1>5, <2>2
  <2>4. t \in Seq(Shown)
    BY <1>1, <2>3, MappedSeq
  <2>5. DOMAIN t = DOMAIN servers /\ \A i \in DOMAIN servers : t[i].key = servers[i].key
    BY <1>4, <2>2
  <2>6. HasUniqueKeys(t)
    BY <2>5 DEF HasUniqueKeys
  <2> QED BY <2>1, <2>4, <2>6
<1>6. ASSUME s \in Shown, ~Holds(servers, k)
      PROVE  Append(servers, s) \in Seq(Shown) /\ HasUniqueKeys(Append(servers, s))
  <2>1. PICK t : t = Append(servers, s)
    OBVIOUS
  <2>2. /\ t \in Seq(Shown) /\ DOMAIN t = 1 .. Len(servers) + 1
        /\ \A j \in 1 .. Len(servers) : t[j] = servers[j]
        /\ t[Len(servers) + 1] = s
    BY <1>1, <1>6, <2>1, AppendFacts
  <2>3. \A j \in DOMAIN servers : servers[j].key # k
    BY <1>6 DEF Holds
  <2>4. HasUniqueKeys(t)
    BY <1>1, <1>4, <2>2, <2>3 DEF HasUniqueKeys
  <2> QED BY <2>1, <2>2, <2>4
<1>7. CASE req.kind = "save"
  BY <1>3, <1>4, <1>5, <1>6, <1>7 DEF Applied
<1>8. CASE req.kind = "toggle"
  BY <1>3, <1>5, <1>8 DEF Applied
<1>9. CASE req.kind = "delete"
  <2>1. req.list \in Seq(Shown)
    BY DEF RequestType
  <2>2. PICK t : t = Without(req.list, req.draft.key)
    OBVIOUS
  <2>3. t \in Seq(Shown) /\ HasUniqueKeys(t)
    BY <1>9, <2>1, <2>2, WithoutFacts
  <2> QED BY <1>9, <2>2, <2>3 DEF Applied
<1> QED BY <1>7, <1>8, <1>9 DEF Changing

LEMMA FirstFacts ==
  ASSUME NEW page \in PageType, NEW servers \in Seq(Shown),
         NEW new, new = First(page, servers)
  PROVE  /\ new \in PageType /\ new.servers = servers
         /\ new.touched = (page.touched \/ page.testing)
         /\ new.testing = page.testing /\ new.result = page.result
         /\ new.doubt = page.doubt
<1>1. PICK first : first = IF servers = <<>> THEN EmptyDraft ELSE Clone(servers[1])
  OBVIOUS
<1>2. first \in Draft
  <2>1. servers # <<>> => servers[1] \in Shown
    <3>1. servers # <<>> => 1 \in 1 .. Len(servers)
      OBVIOUS
    <3> QED BY <3>1, ElementOfSeq
  <2> QED BY <1>1, <2>1, DraftTypes
<1>3. PICK key : key = first.key
  OBVIOUS
<1>4. key \in Key \cup {NoKey}
  BY <1>2, <1>3 DEF Draft
<1>5. PICK set : set = WithDraft(page, first)
  OBVIOUS
<1>6. /\ set \in PageType /\ set.touched = (page.touched \/ page.testing)
      /\ set.testing = page.testing /\ set.result = page.result /\ set.doubt = page.doubt
  BY <1>2, <1>5, WithDraftFacts
<1>7. new = [set EXCEPT !.servers = servers, !.selected = key]
  BY <1>1, <1>3, <1>5 DEF First
<1>8. /\ new \in PageType /\ new.servers = servers /\ new.touched = set.touched
      /\ new.testing = set.testing /\ new.result = set.result /\ new.doubt = set.doubt
  BY <1>4, <1>6, <1>7 DEF PageType
<1> QED BY <1>6, <1>8

\* A request is over; its page is `new` but for the buttons it had disabled.
LEMMA FinishedStep ==
  ASSUME SettingsInv, NEW r \in DOMAIN requests, NEW req, req = requests[r],
         NEW p, p = req.page, NEW new \in PageType, Finish(r, new),
         new.testing = pages[p].testing,
         NEW rs, rs = RemoveAt(requests, r),
         PageOK(new, Fresh(new, rs, p), Materialized),
         req.kind = "test" =>
           /\ new.servers = pages[p].servers /\ (pages[p].doubt => new.doubt),
         req.kind # "test" /\ pages[p].testing /\ ~new.touched =>
           /\ ~pages[p].touched /\ new.draft = pages[p].draft
           /\ Fresh(new, rs, p) => Fresh(pages[p], requests, p)
  PROVE  SettingsInv'
<1>1. requests' = rs /\ file' = file
  BY DEF Finish
<1>2. req \in RequestType /\ p \in Page
  BY Invariants
<1>3. PICK saving \in BOOLEAN : saving = (new.saving /\ req.kind # "save")
  BY DEF PageType
<1>4. PICK testing \in BOOLEAN : testing = (new.testing /\ req.kind # "test")
  BY DEF PageType
<1>5. PICK pending \in SUBSET Key :
        pending = IF req.kind = "toggle" THEN new.pending \ {req.draft.key}
                  ELSE new.pending
  BY DEF PageType
<1>6. PICK final : final = [new EXCEPT !.saving = saving, !.testing = testing,
                                       !.pending = pending]
  OBVIOUS
<1>7. /\ final \in PageType /\ final.testing = testing
      /\ final.servers = new.servers /\ final.doubt = new.doubt
      /\ final.draft = new.draft /\ final.touched = new.touched
      /\ final.result = new.result
  BY <1>6 DEF PageType
<1>8. pages' = [pages EXCEPT ![p] = final]
  BY <1>3, <1>4, <1>5, <1>6 DEF Finish
<1>9. Fresh(final, requests', p) = Fresh(new, rs, p)
  BY <1>1, <1>7 DEF Fresh
<1>10. PageOK(final, Fresh(final, requests', p), Materialized)
  <2> DEFINE fresh == Fresh(new, rs, p)
  <2>1. PageOK(new, fresh, Materialized)
    OBVIOUS
  <2> HIDE DEF fresh
  <2>2. PageOK(final, fresh, Materialized)
    BY <1>7, <2>1 DEF PageOK
  <2> QED BY <1>9, <2>2 DEF fresh
<1>11. req.kind # "test" /\ pages[p].testing =>
         /\ final.testing
         /\ ~final.touched =>
              /\ ~pages[p].touched /\ final.draft = pages[p].draft
              /\ Fresh(final, requests', p) => Fresh(pages[p], requests, p)
  BY <1>4, <1>7, <1>9
<1>12. requests' = RemoveAt(requests, r)
  BY <1>1
<1>13. req.kind = "test" =>
         final.servers = pages[p].servers /\ (pages[p].doubt => final.doubt)
  BY <1>7
<1> QED BY <1>1, <1>7, <1>8, <1>10, <1>11, <1>12, <1>13, FinishStep

\* What is seen after a request was seen before it, if it was no change.
LEMMA SeenBefore ==
  ASSUME SettingsInv, NEW r \in DOMAIN requests, NEW p, p = requests[r].page,
         NEW rs, rs = RemoveAt(requests, r), AllSeen(rs, p), ~Reached(requests[r])
  PROVE  AllSeen(requests, p)
BY EndedFacts DEF SettingsInv

LEMMA NextLose ==
  ASSUME SettingsInv, NEW r \in DOMAIN requests, Lose(r)
  PROVE  SettingsInv'
<1>1. PICK req : req = requests[r]
  OBVIOUS
<1>2. PICK p : p = req.page
  OBVIOUS
<1>3. PICK page \in PageType : page = pages[p]
  BY <1>1, <1>2, Invariants
<1>4. PageOK(page, Fresh(page, requests, p), Materialized)
  BY <1>1, <1>2, <1>3, Invariants
<1>5. PICK doubt \in BOOLEAN : doubt = (page.doubt \/ Reached(req))
  BY DEF PageType, Reached
<1>6. PICK new : new = [page EXCEPT !.doubt = doubt]
  OBVIOUS
<1>7. /\ new \in PageType /\ new.doubt = doubt /\ new.servers = page.servers
      /\ new.draft = page.draft /\ new.testing = page.testing
      /\ new.result = page.result /\ new.touched = page.touched
  BY <1>6 DEF PageType
<1>8. Finish(r, new)
  BY <1>1, <1>2, <1>3, <1>5, <1>6 DEF Lose, Reached
<1>9. PICK rs : rs = RemoveAt(requests, r)
  OBVIOUS
<1>10. Fresh(new, rs, p) => Fresh(page, requests, p)
  BY <1>1, <1>2, <1>5, <1>7, <1>9, SeenBefore DEF Fresh
<1>11. PageOK(new, Fresh(new, rs, p), Materialized)
  <2> DEFINE fresh == Fresh(page, requests, p)
             fresher == Fresh(new, rs, p)
  <2>1. PageOK(page, fresh, Materialized) /\ (fresher => fresh)
    BY <1>4, <1>10
  <2> HIDE DEF fresh, fresher
  <2>2. PageOK(new, fresher, Materialized)
    BY <1>7, <2>1 DEF PageOK
  <2> QED BY <2>2 DEF fresher
<1>12. new.servers = pages[p].servers /\ (pages[p].doubt => new.doubt)
  BY <1>3, <1>5, <1>7
<1>13. pages[p].testing /\ ~new.touched =>
         /\ ~pages[p].touched /\ new.draft = pages[p].draft
         /\ Fresh(new, rs, p) => Fresh(pages[p], requests, p)
  BY <1>3, <1>7, <1>10
<1>14. new.testing = pages[p].testing
  BY <1>3, <1>7
<1> QED BY <1>1, <1>2, <1>7, <1>8, <1>9, <1>11, <1>12, <1>13, <1>14, FinishedStep

LEMMA NextFailed ==
  ASSUME SettingsInv, NEW r \in DOMAIN requests, requests[r].stage = "failed",
         Finish(r, pages[requests[r].page])
  PROVE  SettingsInv'
<1>1. PICK req : req = requests[r]
  OBVIOUS
<1>2. PICK p : p = req.page
  OBVIOUS
<1>3. PICK page \in PageType : page = pages[p]
  BY <1>1, <1>2, Invariants
<1>4. PageOK(page, Fresh(page, requests, p), Materialized)
  BY <1>1, <1>2, <1>3, Invariants
<1>5. PICK rs : rs = RemoveAt(requests, r)
  OBVIOUS
<1>6. ~Reached(req)
  BY <1>1 DEF Reached
<1>7. Fresh(page, rs, p) => Fresh(page, requests, p)
  BY <1>1, <1>2, <1>5, <1>6, SeenBefore DEF Fresh
<1>8. PageOK(page, Fresh(page, rs, p), Materialized)
  <2> DEFINE fresh == Fresh(page, requests, p)
             fresher == Fresh(page, rs, p)
  <2>1. PageOK(page, fresh, Materialized) /\ (fresher => fresh)
    BY <1>4, <1>7
  <2> HIDE DEF fresh, fresher
  <2>2. PageOK(page, fresher, Materialized)
    BY <2>1 DEF PageOK
  <2> QED BY <2>2 DEF fresher
<1>9. Finish(r, page)
  BY <1>1, <1>2, <1>3
<1>10. pages[p].testing /\ ~page.touched =>
         /\ ~pages[p].touched /\ page.draft = pages[p].draft
         /\ Fresh(page, rs, p) => Fresh(pages[p], requests, p)
  BY <1>3, <1>7
<1> QED BY <1>1, <1>2, <1>3, <1>5, <1>8, <1>9, <1>10, FinishedStep

LEMMA NextLoaded ==
  ASSUME SettingsInv, NEW r \in DOMAIN requests, requests[r].stage = "answered",
         requests[r].kind = "load", Finish(r, Loaded(pages[requests[r].page], requests[r]))
  PROVE  SettingsInv'
<1>1. PICK req \in RequestType : req = requests[r]
  BY Invariants
<1>2. PICK p : p = req.page
  OBVIOUS
<1>3. PICK page \in PageType : page = pages[p]
  BY <1>1, <1>2, Invariants
<1>4. LoadOK(req, Materialized)
  BY <1>1, Invariants DEF RequestOK
<1>5. PICK servers \in Seq(Shown) :
        /\ servers = req.answer /\ HasUniqueKeys(servers)
        /\ req.alone => servers = Told(Materialized)
  BY <1>1, <1>4 DEF LoadOK
<1>6. PICK listed : listed = First(page, servers)
  OBVIOUS
<1>7. /\ listed \in PageType /\ listed.servers = servers
      /\ listed.touched = (page.touched \/ page.testing)
      /\ listed.testing = page.testing /\ listed.result = page.result
  BY <1>6, FirstFacts
<1>8. PICK touched \in BOOLEAN : touched = (listed.touched \/ page.result # NoResult)
  BY <1>7 DEF PageType
<1>9. PICK doubt \in BOOLEAN : doubt = ~req.alone
  BY DEF RequestType
<1>10. PICK new : new = [listed EXCEPT !.touched = touched, !.doubt = doubt]
  OBVIOUS
<1>11. /\ new \in PageType /\ new.servers = listed.servers /\ new.touched = touched
       /\ new.doubt = doubt /\ new.testing = listed.testing
       /\ new.result = listed.result
  BY <1>7, <1>10 DEF PageType
<1>12. Loaded(page, req) = new
  BY <1>5, <1>6, <1>8, <1>9, <1>10 DEF Loaded
<1>13. Finish(r, new)
  BY <1>1, <1>2, <1>3, <1>12
<1>14. PICK rs : rs = RemoveAt(requests, r)
  OBVIOUS
<1>15. Fresh(new, rs, p) => new.servers = Told(Materialized)
  BY <1>5, <1>7, <1>9, <1>11 DEF Fresh
<1>16. new.result # NoResult => new.touched
  BY <1>7, <1>8, <1>11
<1>17. HasUniqueKeys(new.servers)
  BY <1>5, <1>7, <1>11
<1>18. PageOK(new, Fresh(new, rs, p), Materialized)
  BY <1>15, <1>16, <1>17 DEF PageOK
<1>19. pages[p].testing => new.touched
  BY <1>3, <1>7, <1>8, <1>11
<1>20. new.testing = pages[p].testing /\ req.kind # "test"
  BY <1>1, <1>3, <1>7, <1>11
<1> QED BY <1>1, <1>2, <1>11, <1>13, <1>14, <1>18, <1>19, <1>20, FinishedStep

LEMMA AppliedSeq ==
  ASSUME SettingsInv, NEW r \in DOMAIN requests, NEW req \in RequestType, req = requests[r],
         req.stage = "answered", req.kind \in Changing,
         NEW p, p = req.page, NEW servers, servers = Applied(pages[p].servers, req)
  PROVE  servers \in Seq(Shown) /\ HasUniqueKeys(servers)
<1>1. pages[p] \in PageType /\ HasUniqueKeys(pages[p].servers)
  BY Invariants DEF PageOK
<1>2. ChangeOK(req, pages[p], Materialized)
  BY Invariants DEF RequestOK
<1>3. pages[p].servers \in Seq(Shown)
  BY <1>1 DEF PageType
<1>4. req.kind \in {"save", "toggle"} => req.answer \in Shown
  BY <1>2 DEF ChangeOK
<1>5. req.kind = "delete" => HasUniqueKeys(req.list)
  BY <1>2 DEF ChangeOK
<1> QED BY <1>1, <1>3, <1>4, <1>5, AppliedFacts

\* The answer to a save, a toggle or a deletion.
LEMMA ChangedStep ==
  ASSUME SettingsInv, NEW r \in DOMAIN requests, NEW req, req = requests[r],
         req.stage = "answered", req.kind \in Changing,
         NEW p, p = req.page, NEW new \in PageType, Finish(r, new),
         new.servers = Applied(pages[p].servers, req), new.result = NoResult,
         new.doubt = (pages[p].doubt \/ ~req.alone), new.testing = pages[p].testing,
         new.touched = (pages[p].touched \/ pages[p].testing)
  PROVE  SettingsInv'
<1>1. req \in RequestType /\ p \in Page /\ pages[p] \in PageType
  BY Invariants
<1>2. ChangeOK(req, pages[p], Materialized)
  BY Invariants DEF RequestOK
<1>3. PICK rs : rs = RemoveAt(requests, r)
  OBVIOUS
<1>4. Fresh(new, rs, p) => new.servers = Told(Materialized)
  <2>1. Reached(req)
    BY DEF Reached
  <2>2. ~new.doubt => ~pages[p].doubt /\ req.alone
    BY <1>1 DEF RequestType, PageType
  <2> QED BY <1>2, <2>1, <2>2 DEF ChangeOK, Fresh
<1>5. HasUniqueKeys(new.servers)
  BY <1>1, AppliedSeq
<1>6. PageOK(new, Fresh(new, rs, p), Materialized)
  BY <1>4, <1>5 DEF PageOK
<1>7. pages[p].testing => new.touched
  OBVIOUS
<1>8. req.kind # "test"
  BY DEF Changing
<1> QED BY <1>3, <1>6, <1>7, <1>8, FinishedStep

LEMMA NextSaved ==
  ASSUME SettingsInv, NEW r \in DOMAIN requests, requests[r].stage = "answered",
         requests[r].kind = "save", Finish(r, Saved(pages[requests[r].page], requests[r]))
  PROVE  SettingsInv'
<1>1. PICK req \in RequestType : req = requests[r]
  BY Invariants
<1>2. PICK p : p = req.page
  OBVIOUS
<1>3. PICK page \in PageType : page = pages[p]
  BY <1>1, <1>2, Invariants
<1>4. PICK s \in Shown : s = req.answer
  BY <1>1, Invariants DEF RequestOK, ChangeOK
<1>5. Clone(s) \in Draft /\ s.key \in Key
  BY DraftTypes DEF Shown
<1>6. PICK set : set = WithDraft(page, Clone(s))
  OBVIOUS
<1>7. /\ set \in PageType /\ set.touched = (page.touched \/ page.testing)
      /\ set.servers = page.servers /\ set.testing = page.testing
      /\ set.doubt = page.doubt
  BY <1>5, <1>6, WithDraftFacts
<1>8. PICK servers \in Seq(Shown) : servers = Applied(page.servers, req)
  <2>1. req.stage = "answered" /\ req.kind \in Changing
    BY <1>1 DEF Changing
  <2> QED BY <1>1, <1>2, <1>3, <2>1, AppliedSeq
<1>9. servers = IF Holds(page.servers, s.key) THEN Replaced(page.servers, s)
                ELSE Append(page.servers, s)
  BY <1>1, <1>4, <1>8 DEF Applied
<1>10. PICK doubt \in BOOLEAN : doubt = (page.doubt \/ ~req.alone)
  BY DEF RequestType, PageType
<1>11. NoResult \in Answer
  BY DEF Answer
<1>12. PICK new : new = [set EXCEPT !.servers = servers, !.selected = s.key,
                                    !.result = NoResult, !.doubt = doubt]
  OBVIOUS
<1>13. Saved(page, req) = new
  BY <1>4, <1>6, <1>7, <1>9, <1>10, <1>12 DEF Saved
<1>14. /\ new \in PageType /\ new.servers = servers /\ new.result = NoResult
       /\ new.doubt = doubt /\ new.testing = set.testing /\ new.touched = set.touched
  BY <1>5, <1>7, <1>11, <1>12 DEF PageType
<1>15. Finish(r, new) /\ req.stage = "answered" /\ req.kind \in Changing
  BY <1>1, <1>2, <1>3, <1>13 DEF Changing
<1>16. /\ new.servers = Applied(pages[p].servers, req)
       /\ new.doubt = (pages[p].doubt \/ ~req.alone) /\ new.testing = pages[p].testing
       /\ new.touched = (pages[p].touched \/ pages[p].testing)
  BY <1>3, <1>7, <1>8, <1>10, <1>14
<1> QED BY <1>1, <1>2, <1>14, <1>15, <1>16, ChangedStep

LEMMA NextToggled ==
  ASSUME SettingsInv, NEW r \in DOMAIN requests, requests[r].stage = "answered",
         requests[r].kind = "toggle",
         Finish(r, Toggled(pages[requests[r].page], requests[r]))
  PROVE  SettingsInv'
<1>1. PICK req \in RequestType : req = requests[r]
  BY Invariants
<1>2. PICK p : p = req.page
  OBVIOUS
<1>3. PICK page \in PageType : page = pages[p]
  BY <1>1, <1>2, Invariants
<1>4. PICK s \in Shown : s = req.answer
  BY <1>1, Invariants DEF RequestOK, ChangeOK
<1>5. PICK d : d = IF page.draft.key = s.key THEN Clone(s) ELSE page.draft
  OBVIOUS
<1>6. d \in Draft
  BY <1>5, DraftTypes DEF PageType
<1>7. PICK set : set = WithDraft(page, d)
  OBVIOUS
<1>8. /\ set \in PageType /\ set.touched = (page.touched \/ page.testing)
      /\ set.servers = page.servers /\ set.testing = page.testing
      /\ set.doubt = page.doubt
  BY <1>6, <1>7, WithDraftFacts
<1>9. PICK servers \in Seq(Shown) : servers = Applied(page.servers, req)
  <2>1. req.stage = "answered" /\ req.kind \in Changing
    BY <1>1 DEF Changing
  <2> QED BY <1>1, <1>2, <1>3, <2>1, AppliedSeq
<1>10. servers = Replaced(page.servers, s)
  BY <1>1, <1>4, <1>9 DEF Applied
<1>11. PICK doubt \in BOOLEAN : doubt = (page.doubt \/ ~req.alone)
  BY DEF RequestType, PageType
<1>12. NoResult \in Answer
  BY DEF Answer
<1>13. PICK new : new = [set EXCEPT !.servers = servers, !.result = NoResult,
                                    !.doubt = doubt]
  OBVIOUS
<1>14. Toggled(page, req) = new
  BY <1>4, <1>5, <1>7, <1>8, <1>10, <1>11, <1>13 DEF Toggled
<1>15. /\ new \in PageType /\ new.servers = servers /\ new.result = NoResult
       /\ new.doubt = doubt /\ new.testing = set.testing /\ new.touched = set.touched
  BY <1>8, <1>12, <1>13 DEF PageType
<1>16. Finish(r, new) /\ req.stage = "answered" /\ req.kind \in Changing
  BY <1>1, <1>2, <1>3, <1>14 DEF Changing
<1>17. /\ new.servers = Applied(pages[p].servers, req)
       /\ new.doubt = (pages[p].doubt \/ ~req.alone) /\ new.testing = pages[p].testing
       /\ new.touched = (pages[p].touched \/ pages[p].testing)
  BY <1>3, <1>8, <1>9, <1>11, <1>15
<1> QED BY <1>1, <1>2, <1>15, <1>16, <1>17, ChangedStep

LEMMA NextDeleted ==
  ASSUME SettingsInv, NEW r \in DOMAIN requests, requests[r].stage = "answered",
         requests[r].kind = "delete",
         Finish(r, Deleted(pages[requests[r].page], requests[r]))
  PROVE  SettingsInv'
<1>1. PICK req \in RequestType : req = requests[r]
  BY Invariants
<1>2. PICK p : p = req.page
  OBVIOUS
<1>3. PICK page \in PageType : page = pages[p]
  BY <1>1, <1>2, Invariants
<1>4. PICK servers \in Seq(Shown) : servers = Applied(page.servers, req)
  <2>1. req.stage = "answered" /\ req.kind \in Changing
    BY <1>1 DEF Changing
  <2> QED BY <1>1, <1>2, <1>3, <2>1, AppliedSeq
<1>5. servers = Without(req.list, req.draft.key)
  BY <1>1, <1>4 DEF Applied
<1>6. PICK listed : listed = First(page, servers)
  OBVIOUS
<1>7. /\ listed \in PageType /\ listed.servers = servers
      /\ listed.touched = (page.touched \/ page.testing)
      /\ listed.testing = page.testing /\ listed.doubt = page.doubt
  BY <1>6, FirstFacts
<1>8. PICK doubt \in BOOLEAN : doubt = (page.doubt \/ ~req.alone)
  BY DEF RequestType, PageType
<1>9. NoResult \in Answer
  BY DEF Answer
<1>10. PICK new : new = [listed EXCEPT !.result = NoResult, !.doubt = doubt]
  OBVIOUS
<1>11. Deleted(page, req) = new
  BY <1>5, <1>6, <1>7, <1>8, <1>10 DEF Deleted
<1>12. /\ new \in PageType /\ new.servers = listed.servers /\ new.result = NoResult
       /\ new.doubt = doubt /\ new.testing = listed.testing
       /\ new.touched = listed.touched
  BY <1>7, <1>9, <1>10 DEF PageType
<1>13. Finish(r, new) /\ req.stage = "answered" /\ req.kind \in Changing
  BY <1>1, <1>2, <1>3, <1>11 DEF Changing
<1>14. /\ new.servers = Applied(pages[p].servers, req)
       /\ new.doubt = (pages[p].doubt \/ ~req.alone) /\ new.testing = pages[p].testing
       /\ new.touched = (pages[p].touched \/ pages[p].testing)
  BY <1>3, <1>4, <1>7, <1>8, <1>12
<1> QED BY <1>1, <1>2, <1>12, <1>13, <1>14, ChangedStep

LEMMA NextTested ==
  ASSUME SettingsInv, NEW r \in DOMAIN requests, requests[r].stage = "answered",
         requests[r].kind = "test", Finish(r, Tested(pages[requests[r].page], requests[r]))
  PROVE  SettingsInv'
<1>1. PICK req \in RequestType : req = requests[r]
  BY Invariants
<1>2. PICK p : p = req.page
  OBVIOUS
<1>3. PICK page \in PageType : page = pages[p]
  BY <1>1, <1>2, Invariants
<1>4. PageOK(page, Fresh(page, requests, p), Materialized)
  BY <1>1, <1>2, <1>3, Invariants
<1>5. TestOK(req, page, Fresh(page, requests, p), Materialized)
  BY <1>1, <1>2, <1>3, Invariants DEF RequestOK
<1>6. PICK new : new = [page EXCEPT !.result = req.answer]
  OBVIOUS
<1>7. /\ new \in PageType /\ new.result = req.answer /\ new.servers = page.servers
      /\ new.draft = page.draft /\ new.testing = page.testing /\ new.doubt = page.doubt
      /\ new.touched = page.touched
  <2>1. req.answer \in Answer
    BY DEF RequestType
  <2> QED BY <1>6, <2>1 DEF PageType
<1>8. Finish(r, new)
  BY <1>1, <1>2, <1>3, <1>6 DEF Tested
<1>9. PICK rs : rs = RemoveAt(requests, r)
  OBVIOUS
<1>10. ~Reached(req) /\ req.kind = "test" /\ req.stage = "answered"
  BY <1>1 DEF Reached, Changing
<1>11. Fresh(new, rs, p) => Fresh(page, requests, p)
  BY <1>1, <1>2, <1>7, <1>9, <1>10, SeenBefore DEF Fresh
<1>12. PageOK(new, Fresh(new, rs, p), Materialized)
  <2> DEFINE fresh == Fresh(page, requests, p)
             fresher == Fresh(new, rs, p)
  <2>1. /\ PageOK(page, fresh, Materialized) /\ TestOK(req, page, fresh, Materialized)
        /\ fresher => fresh
    BY <1>4, <1>5, <1>11
  <2> HIDE DEF fresh, fresher
  <2>2. ~new.touched => new.result.of = new.draft
    BY <1>7, <1>10, <2>1 DEF TestOK
  <2>3. ~new.touched /\ fresher => new.result = TriedOf(Materialized, new.draft)
    BY <1>7, <1>10, <2>1 DEF TestOK
  <2>4. PageOK(new, fresher, Materialized)
    BY <1>7, <2>1, <2>2, <2>3 DEF PageOK
  <2> QED BY <2>4 DEF fresher
<1>13. new.servers = pages[p].servers /\ (pages[p].doubt => new.doubt)
  BY <1>3, <1>7
<1>14. new.testing = pages[p].testing
  BY <1>3, <1>7
<1> QED BY <1>1, <1>2, <1>7, <1>8, <1>9, <1>10, <1>12, <1>13, <1>14, FinishedStep

LEMMA NextReceive ==
  ASSUME SettingsInv, NEW r \in DOMAIN requests, Receive(r)
  PROVE  SettingsInv'
<1>1. PICK page : page = pages[requests[r].page]
  OBVIOUS
<1>2. PICK req \in RequestType : req = requests[r]
  BY Invariants
<1>3. Finish(r, Understood(page, req)) /\ req.stage \in {"answered", "failed"}
  BY <1>1, <1>2 DEF Receive
<1>4. req.kind \in Kind
  BY DEF RequestType
<1>5. CASE req.stage = "failed"
  BY <1>1, <1>2, <1>3, <1>5, NextFailed DEF Understood
<1>6. CASE req.stage = "answered" /\ req.kind = "load"
  BY <1>1, <1>2, <1>3, <1>6, NextLoaded DEF Understood
<1>7. CASE req.stage = "answered" /\ req.kind = "save"
  BY <1>1, <1>2, <1>3, <1>7, NextSaved DEF Understood
<1>8. CASE req.stage = "answered" /\ req.kind = "toggle"
  BY <1>1, <1>2, <1>3, <1>8, NextToggled DEF Understood
<1>9. CASE req.stage = "answered" /\ req.kind = "delete"
  BY <1>1, <1>2, <1>3, <1>9, NextDeleted DEF Understood
<1>10. CASE req.stage = "answered" /\ req.kind = "test"
  BY <1>1, <1>2, <1>3, <1>10, NextTested DEF Understood
<1> QED BY <1>3, <1>4, <1>5, <1>6, <1>7, <1>8, <1>9, <1>10 DEF Kind

-----------------------------------------------------------------------------
\* The invariant holds.

LEMMA InitSettings == SettingsInit => SettingsInv
<1> SUFFICES ASSUME SettingsInit PROVE SettingsInv
  OBVIOUS
<1>1. file = NoFile /\ Materialized = Base /\ ServersOK(Materialized)
  BY StoreConstants DEF SettingsInit, StoreInit, Materialized, ServersOK
<1>2. PICK order : order = SetToSeq(Page)
  OBVIOUS
<1>3. order \in Seq(Page) /\ \A i, j \in DOMAIN order : order[i] = order[j] => i = j
  BY <1>2, SetToSeqFacts, SettingsConstants
<1>4. DOMAIN order = 1 .. Len(order) /\ Len(order) \in Nat
  BY <1>3, DomainOfSeq
<1>5. \A i \in DOMAIN order : order[i] \in Page
  BY <1>3, <1>4, ElementOfSeq
<1> DEFINE load(p) == [page |-> p, kind |-> "load", draft |-> EmptyDraft, list |-> <<>>,
                       stage |-> "sent", answer |-> NoResult, alone |-> TRUE]
<1>6. requests = [i \in DOMAIN order |-> load(order[i])]
  BY <1>2 DEF SettingsInit
<1>7. <<>> \in Seq(Shown) /\ HasUniqueKeys(<<>>) /\ NoResult \in Answer
  BY DEF HasUniqueKeys, Answer
<1>8. \A p \in Page : load(p) \in RequestType
  BY <1>7, DraftTypes DEF RequestType, Kind
<1>9. \A p : /\ load(p).page = p /\ load(p).kind = "load" /\ load(p).stage = "sent"
             /\ load(p).alone
  OBVIOUS
<1> HIDE DEF load
<1>10. requests \in Seq(RequestType) /\ DOMAIN requests = DOMAIN order
  <2>1. requests \in [1 .. Len(order) -> RequestType]
    BY <1>4, <1>5, <1>6, <1>8
  <2> QED BY <1>4, <1>6, <2>1, MappedSeq
<1>11. EmptyPage \in PageType
  BY <1>7, DraftTypes DEF EmptyPage, PageType
<1>12. pages = [p \in Page |-> EmptyPage]
  BY DEF SettingsInit
<1>13. TypesOK
  BY <1>1, <1>10, <1>11, <1>12 DEF TypesOK
<1>14. PagesOK
  <2>1. \A M : PageOK(EmptyPage, FALSE, M)
    BY <1>7 DEF EmptyPage, PageOK
  <2>2. \A rs, p : Fresh(EmptyPage, rs, p) = FALSE
    BY DEF EmptyPage, Fresh
  <2> QED BY <1>12, <2>1, <2>2 DEF PagesOK
<1>15. RequestsOK
  <2>1. \A p, page, fresh, M : RequestOK(load(p), page, fresh, M)
    BY <1>9 DEF RequestOK, ChangeOK, LoadOK, TestOK, Reached, Changing
  <2> QED BY <1>6, <1>10, <2>1 DEF RequestsOK
<1>16. Alone(requests) /\ OneTest(requests)
  <2>1. \A i \in DOMAIN requests : requests[i].page = order[i] /\ requests[i].kind = "load"
    BY <1>6, <1>9, <1>10
  <2> QED BY <1>3, <1>10, <2>1 DEF Alone, OneTest
<1> QED BY <1>13, <1>14, <1>15, <1>16 DEF SettingsInv

LEMMA NextSettings == SettingsInv /\ [SettingsNext]_settingsVars => SettingsInv'
<1> SUFFICES ASSUME SettingsInv, [SettingsNext]_settingsVars PROVE SettingsInv'
  OBVIOUS
<1>1. ASSUME NEW p \in Page,
             \/ Load(p) \/ Select(p) \/ StartNew(p) \/ Edit(p)
             \/ Save(p) \/ Toggle(p) \/ DeleteDraft(p) \/ Test(p)
      PROVE  SettingsInv'
  BY <1>1, NextLoad, NextSelect, NextStartNew, NextEdit, NextSave, NextToggle,
     NextDeleteDraft, NextTest
<1>2. ASSUME NEW r \in DOMAIN requests, ServerStep(r) PROVE SettingsInv'
  <2>1. CASE Handle(r)
    BY <2>1, NextHandleLoad, NextHandleSave, NextHandleToggle, NextHandleDelete,
       NextHandleTest DEF Handle
  <2>2. CASE ServerProbed(r) \/ ProbeTimesOut(r)
    BY <2>2, NextProbe
  <2>3. CASE Receive(r) \/ Lose(r)
    BY <2>3, NextReceive, NextLose
  <2> QED BY <1>2, <2>1, <2>2, <2>3 DEF ServerStep
<1>3. CASE UNCHANGED settingsVars
  <2>1. file' = file /\ pages' = pages /\ requests' = requests
    BY <1>3 DEF settingsVars
  <2>2. Materialized' = Materialized
    BY <2>1 DEF Materialized
  <2>3. TypesOK' /\ PagesOK' /\ RequestsOK'
    BY <2>1, <2>2 DEF SettingsInv, TypesOK, PagesOK, RequestsOK
  <2> QED BY <2>1, <2>3 DEF SettingsInv
<1> QED BY <1>1, <1>2, <1>3 DEF SettingsNext

\* However the pages, the server and the answers interleave, the invariant of
\* this module holds.
THEOREM SettingsInvariant == SettingsSpec => []SettingsInv
  BY InitSettings, NextSettings, PTL DEF SettingsSpec

\* The file holds each server once, and pages and requests are well-formed
\* (page.tsx, mcp_config_store.py).
THEOREM SettingsTypeCorrect == SettingsSpec => []SettingsTypeOK
<1>1. SettingsInv => SettingsTypeOK
  <2> SUFFICES ASSUME SettingsInv PROVE SettingsTypeOK
    OBVIOUS
  <2>1. StoreTypeOK
    <3>1. file # NoFile => Materialized = file
      BY DEF Materialized
    <3> QED BY <3>1 DEF SettingsInv, TypesOK, ServersOK, StoreTypeOK
  <2>2. ASSUME NEW p \in Page
        PROVE  /\ pages[p].servers \in Seq(Shown)
               /\ pages[p].draft \in Draft
               /\ pages[p].selected \in Key \cup {NoKey}
               /\ {pages[p].saving, pages[p].testing, pages[p].doubt,
                   pages[p].touched} \subseteq BOOLEAN
               /\ pages[p].pending \subseteq Key
    <3>1. pages[p] \in PageType
      BY RequestFacts DEF SettingsInv
    <3> QED BY <3>1 DEF PageType
  <2>3. ASSUME NEW r \in DOMAIN requests
        PROVE  /\ requests[r].kind \in Kind /\ requests[r].draft \in Draft
               /\ requests[r].stage \in {"sent", "probing", "answered", "failed"}
    BY Invariants DEF RequestType
  <2> QED BY <2>1, <2>2, <2>3 DEF SettingsTypeOK
<1> QED BY <1>1, SettingsInvariant, PTL

\* A page without doubt and without a request under way has no change unseen.
LEMMA NothingUnderWay ==
  ASSUME NEW p, UnderWay(p) = {}, ~pages[p].doubt
  PROVE  Fresh(pages[p], requests, p)
<1>1. ASSUME NEW i \in DOMAIN requests, requests[i].page = p PROVE ~Reached(requests[i])
  <2>1. requests[i].kind = "test"
    BY <1>1 DEF UnderWay
  <2> QED BY <2>1 DEF Reached, Changing
<1> QED BY <1>1 DEF Fresh, AllSeen

\* The list that a page patches after each of its answers is the stored one
\* (handleSave, handleToggle and handleDelete of page.tsx).
THEOREM PagesShowStore == SettingsSpec => []PageShowsStore
<1>1. SettingsInv => PageShowsStore
  <2> SUFFICES ASSUME SettingsInv, NEW p \in Page, UnderWay(p) = {}, ~pages[p].doubt
               PROVE  pages[p].servers = Listing
    BY DEF PageShowsStore
  <2>1. Fresh(pages[p], requests, p)
    BY NothingUnderWay
  <2> QED BY <2>1 DEF SettingsInv, PagesOK, PageOK, Told, Listing
<1> QED BY <1>1, SettingsInvariant, PTL

\* The result on display is that of the server in the form, tried with the
\* secret that saving the form would store (handleTest of page.tsx,
\* _server_config_for_test of config_route.py).
THEOREM ResultIsOfTestedServer == SettingsSpec => []ResultOfTestedServer
<1>1. SettingsInv => ResultOfTestedServer
  <2> SUFFICES ASSUME SettingsInv, NEW p \in Page, pages[p].result # NoResult,
                      ~pages[p].touched
               PROVE  /\ pages[p].result.of = pages[p].draft
                      /\ UnderWay(p) = {} /\ ~pages[p].doubt =>
                           pages[p].result = ConfigForTest(pages[p].draft)
    BY DEF ResultOfTestedServer
  <2>1. PageOK(pages[p], Fresh(pages[p], requests, p), Materialized)
    BY DEF SettingsInv, PagesOK
  <2>2. UnderWay(p) = {} /\ ~pages[p].doubt => Fresh(pages[p], requests, p)
    BY NothingUnderWay
  <2>3. PICK d : d = pages[p].draft
    OBVIOUS
  <2>4. TriedOf(Materialized, d) = ConfigForTest(d)
    BY DEF TriedOf, SecretOf, ConfigForTest, WrittenSecret
  <2> QED BY <2>1, <2>2, <2>3, <2>4 DEF PageOK
<1> QED BY <1>1, SettingsInvariant, PTL

-----------------------------------------------------------------------------
(***************************************************************************)
(* The store is a register of servers (ServerRegistry.tla).                *)
(***************************************************************************)
Entry(s) == [enabled |-> s.enabled, type |-> s.type, secret |-> s.secret]
RegistryOf(M) == [k \in Key |-> IF Holds(M, k) THEN Entry(At(M, k)) ELSE NoServer]

\* What a chat run is offered of the servers in M.
ResolvedOf(M) ==
  LET usable == {i \in DOMAIN M : M[i].enabled}
  IN [k \in {M[i].key : i \in usable} |->
        LET s == M[CHOOSE i \in usable : M[i].key = k]
        IN [type |-> s.type, secret |-> s.secret]]
OfferedOf(M) ==
  [k \in Key |-> IF k \in DOMAIN ResolvedOf(M) THEN ResolvedOf(M)[k] ELSE NoServer]

\* A server that is held is well-formed, and it is not NoServer.
LEMMA EntryFacts ==
  ASSUME NEW M, ServersOK(M), NEW k, Holds(M, k)
  PROVE  /\ At(M, k) \in Server /\ At(M, k).key = k /\ Entry(At(M, k)) # NoServer
         /\ At(M, k).type = NoAuth => At(M, k).secret = NoSecret
<1>1. /\ M \in Seq(Server) /\ HasUniqueKeys(M) /\ DOMAIN M = 1 .. Len(M)
      /\ \A i \in DOMAIN M : M[i].type = NoAuth => M[i].secret = NoSecret
  BY DomainOfSeq DEF ServersOK
<1>2. Position(M, k) \in DOMAIN M /\ At(M, k).key = k
  BY <1>1, LookupFacts
<1>3. PICK s \in Server : s = At(M, k)
  BY <1>1, <1>2, ElementOfSeq DEF At
<1>4. Entry(s) \in [enabled : BOOLEAN, type : AuthType, secret : Secret \cup {NoSecret}]
  BY DEF Entry, Server
<1> QED BY <1>1, <1>2, <1>3, <1>4, SettingsConstants DEF At

\* Chat is offered exactly the enabled servers of the registry.
LEMMA OfferedFacts ==
  ASSUME NEW M, ServersOK(M)
  PROVE  OfferedOf(M) = Registry!ServersOffered(RegistryOf(M))
<1> DEFINE usable == {i \in DOMAIN M : M[i].enabled}
           R == ResolvedOf(M)
<1>1. HasUniqueKeys(M)
  BY DEF ServersOK
<1>2. DOMAIN R = {M[i].key : i \in usable}
  BY DEF ResolvedOf
<1>3. \A k \in DOMAIN R :
        LET s == M[CHOOSE i \in usable : M[i].key = k]
        IN R[k] = [type |-> s.type, secret |-> s.secret]
  BY DEF ResolvedOf
<1> HIDE DEF R
<1>4. ASSUME NEW k \in Key
      PROVE  (IF k \in DOMAIN R THEN R[k] ELSE NoServer)
               = IF RegistryOf(M)[k] # NoServer /\ RegistryOf(M)[k].enabled
                 THEN [type |-> RegistryOf(M)[k].type, secret |-> RegistryOf(M)[k].secret]
                 ELSE NoServer
  <2>1. CASE Holds(M, k)
    <3>1. PICK s : s = At(M, k)
      OBVIOUS
    <3>2. RegistryOf(M)[k] = Entry(s) /\ Entry(s) # NoServer
      BY <2>1, <3>1, EntryFacts DEF RegistryOf
    <3>3. /\ Entry(s).enabled = s.enabled /\ Entry(s).type = s.type
          /\ Entry(s).secret = s.secret
      BY DEF Entry
    <3>4. PICK n : n = Position(M, k)
      OBVIOUS
    <3>5. n \in DOMAIN M /\ s = M[n] /\ M[n].key = k
      BY <1>1, <2>1, <3>1, <3>4, LookupFacts DEF At
    <3>6. \A i \in DOMAIN M : M[i].key = k => i = n
      BY <1>1, <3>5 DEF HasUniqueKeys
    <3>7. k \in DOMAIN R <=> s.enabled
      BY <1>2, <3>5, <3>6
    <3>8. ASSUME s.enabled
          PROVE  R[k] = [type |-> s.type, secret |-> s.secret]
      <4>1. (CHOOSE i \in usable : M[i].key = k) = n
        BY <3>5, <3>6, <3>8
      <4> QED BY <1>3, <3>5, <3>7, <3>8, <4>1
    <3> QED BY <3>2, <3>3, <3>7, <3>8
  <2>2. CASE ~Holds(M, k)
    <3>1. RegistryOf(M)[k] = NoServer
      BY <2>2 DEF RegistryOf
    <3>2. k \notin DOMAIN R
      BY <1>2, <2>2 DEF Holds
    <3> QED BY <3>1, <3>2
  <2> QED BY <2>1, <2>2
<1> QED BY <1>4 DEF OfferedOf, Registry!ServersOffered, R

\* What the mapping makes of the state.
LEMMA Mapped ==
  /\ [k \in Key |->
        IF Holds(Materialized, k)
        THEN LET s == At(Materialized, k)
             IN [enabled |-> s.enabled, type |-> s.type, secret |-> s.secret]
        ELSE NoServer] = RegistryOf(Materialized)
  /\ [k \in Key |-> IF k \in DOMAIN Resolved THEN Resolved[k] ELSE NoServer]
       = OfferedOf(Materialized)
  BY DEF RegistryOf, Entry, OfferedOf, ResolvedOf, Resolved

\* A write changes one entry, to one that the register allows.
LEMMA WriteEnters ==
  ASSUME NEW M, ServersOK(M), NEW server \in Server,
         server.type = NoAuth => server.secret = NoSecret,
         NEW k \in Key, server.key = k, NEW t, t = UpsertedIn(M, server)
  PROVE  /\ \A other \in Key \ {k} : RegistryOf(t)[other] = RegistryOf(M)[other]
         /\ RegistryOf(t)[k] = Entry(server)
<1>1. /\ ServersOK(t) /\ Holds(t, k) /\ At(t, k) = server
      /\ \A other : other # k =>
           /\ Holds(t, other) <=> Holds(M, other)
           /\ Holds(M, other) => At(t, other) = At(M, other)
  BY UpsertedFacts
<1> QED BY <1>1 DEF RegistryOf

LEMMA RemovalLeaves ==
  ASSUME NEW M, ServersOK(M), NEW k \in Key, NEW t, t = Without(M, k)
  PROVE  /\ \A other \in Key \ {k} : RegistryOf(t)[other] = RegistryOf(M)[other]
         /\ RegistryOf(t)[k] = NoServer
<1>1. M \in Seq(Server) /\ HasUniqueKeys(M)
  BY DEF ServersOK
<1>2. /\ ~Holds(t, k)
      /\ \A other : other # k =>
           /\ Holds(t, other) <=> Holds(M, other)
           /\ Holds(M, other) => At(t, other) = At(M, other)
  BY <1>1, WithoutFacts
<1> QED BY <1>2 DEF RegistryOf

\* The entries that the register allows for a key of R.
EnteredOf(R, k) ==
  LET kept(t) == IF R[k] # NoServer /\ R[k].type = t THEN R[k].secret ELSE NoSecret
  IN [enabled : BOOLEAN, type : {NoAuth}, secret : {NoSecret}]
     \cup UNION {[enabled : BOOLEAN, type : {t}, secret : Secret \cup {kept(t)}]
                : t \in AuthType \ {NoAuth}}

LEMMA EntersRegistry ==
  ASSUME SettingsInv, NEW k \in Key, NEW R, R = RegistryOf(Materialized),
         NEW R2, R2 = RegistryOf(Materialized'),
         \A other \in Key \ {k} : R2[other] = R[other],
         R2[k] \in EnteredOf(R, k) \cup {NoServer}
  PROVE  Registry!Change(k)
<1>1. Registry!Entered(k) = EnteredOf(R, k)
  BY Mapped DEF Registry!Entered, Registry!NoAuth, EnteredOf, NoAuth
<1>2. [i \in Key |->
         IF Holds(Materialized, i)
         THEN LET s == At(Materialized, i)
              IN [enabled |-> s.enabled, type |-> s.type, secret |-> s.secret]
         ELSE NoServer]' = R2
  BY DEF RegistryOf, Entry
<1> QED BY <1>1, <1>2, Mapped DEF Registry!Change

\* An entry without a secret or with a new one is allowed, and so is one with
\* the secret that the store has of the same kind.
LEMMA EntryAllowed ==
  ASSUME NEW M, ServersOK(M), NEW k \in Key, NEW server \in Server,
         server.type = NoAuth => server.secret = NoSecret,
         server.type # NoAuth =>
           \/ server.secret \in Secret
           \/ /\ Holds(M, k) /\ At(M, k).type = server.type
              /\ server.secret = At(M, k).secret
           \/ /\ ~(Holds(M, k) /\ At(M, k).type = server.type)
              /\ server.secret = NoSecret
  PROVE  Entry(server) \in EnteredOf(RegistryOf(M), k)
<1>1. PICK R : R = RegistryOf(M)
  OBVIOUS
<1>2. /\ Entry(server).enabled \in BOOLEAN /\ Entry(server).type = server.type
      /\ Entry(server).secret = server.secret /\ server.type \in AuthType
      /\ Entry(server) = [enabled |-> server.enabled, type |-> server.type,
                          secret |-> server.secret]
      /\ server.enabled \in BOOLEAN
  BY DEF Entry, Server
<1>3. CASE server.type = NoAuth
  BY <1>2, <1>3 DEF EnteredOf
<1>4. CASE server.type # NoAuth
  <2>1. PICK kept : kept = IF R[k] # NoServer /\ R[k].type = server.type
                           THEN R[k].secret ELSE NoSecret
    OBVIOUS
  <2>2. Holds(M, k) => /\ R[k] # NoServer /\ R[k].type = At(M, k).type
                       /\ R[k].secret = At(M, k).secret
    <3>1. Holds(M, k) => R[k] = Entry(At(M, k)) /\ Entry(At(M, k)) # NoServer
      BY <1>1, EntryFacts DEF RegistryOf
    <3>2. \A s : Entry(s).type = s.type /\ Entry(s).secret = s.secret
      BY DEF Entry
    <3> QED BY <3>1, <3>2
  <2>3. ~Holds(M, k) => R[k] = NoServer
    BY <1>1 DEF RegistryOf
  <2>4. server.secret \in Secret \cup {kept}
    BY <1>4, <2>1, <2>2, <2>3
  <2>5. Entry(server) \in [enabled : BOOLEAN, type : {server.type}, secret : Secret \cup {kept}]
    BY <1>2, <2>4
  <2> QED BY <1>1, <1>2, <1>4, <2>1, <2>5 DEF EnteredOf
<1> QED BY <1>3, <1>4

LEMMA SaveEnters ==
  ASSUME SettingsInv, NEW r \in DOMAIN requests, requests[r].stage = "sent", HandleSave(r)
  PROVE  \E k \in Key : Registry!Change(k)
<1>1. PICK d : d = requests[r].draft
  OBVIOUS
<1>2. requests[r].kind = "save" /\ Put(d.key, d.enabled, d.auth)
  BY <1>1 DEF HandleSave
<1>3. requests[r] \in RequestType /\ d.key \in Key /\ ServersOK(Materialized)
  BY <1>1, <1>2, Invariants DEF RequestOK, ChangeOK
<1>4. d \in Draft
  BY <1>1, <1>3 DEF RequestType
<1>5. PICK server \in Server :
        /\ server = [key |-> d.key, enabled |-> d.enabled, type |-> d.auth.type,
                     secret |-> SecretOf(Materialized, d.key, d.auth)]
        /\ server.type = NoAuth => server.secret = NoSecret
        /\ file' = Upserted(server)
  BY <1>2, <1>3, <1>4, PutFacts DEF SettingsInv
<1>6. PICK M : M = Materialized
  OBVIOUS
<1>7. PICK k \in Key : k = d.key /\ server.key = k
  BY <1>3, <1>5
<1>8. Materialized' = UpsertedIn(M, server)
  BY <1>5, <1>6, WrittenFile DEF SettingsInv
<1>9. server.type # NoAuth =>
        \/ server.secret \in Secret
        \/ /\ Holds(M, k) /\ At(M, k).type = server.type
           /\ server.secret = At(M, k).secret
        \/ /\ ~(Holds(M, k) /\ At(M, k).type = server.type)
           /\ server.secret = NoSecret
  <2>1. server.type = d.auth.type /\ server.secret = SecretOf(M, k, d.auth)
    BY <1>5, <1>6, <1>7
  <2>2. d.auth.type # NoAuth => d.auth.secrets[d.auth.type] \in Secret \cup {NoSecret}
    <3>1. d.auth.secrets \in [WithSecret -> Secret \cup {NoSecret}] /\ d.auth.type \in AuthType
      BY <1>4 DEF Draft, Auth
    <3> QED BY <3>1 DEF WithSecret
  <2> QED BY <2>1, <2>2 DEF SecretOf
<1>10. Entry(server) \in EnteredOf(RegistryOf(M), k)
  BY <1>3, <1>5, <1>6, <1>9, EntryAllowed
<1>11. /\ \A other \in Key \ {k} : RegistryOf(Materialized')[other] = RegistryOf(M)[other]
       /\ RegistryOf(Materialized')[k] = Entry(server)
  <2>1. PICK t : t = Materialized'
    OBVIOUS
  <2> QED BY <1>3, <1>5, <1>6, <1>7, <1>8, <2>1, WriteEnters
<1> QED BY <1>6, <1>10, <1>11, EntersRegistry

LEMMA ToggleEnters ==
  ASSUME SettingsInv, NEW r \in DOMAIN requests, requests[r].stage = "sent", HandleToggle(r)
  PROVE  Materialized' = Materialized \/ \E k \in Key : Registry!Change(k)
<1>1. PICK d : d = requests[r].draft
  OBVIOUS
<1>2. requests[r].kind = "toggle" /\ (Patch(d.key, d.enabled) \/ file' = file)
  BY <1>1 DEF HandleToggle
<1>3. requests[r] \in RequestType /\ d.key \in Key /\ ServersOK(Materialized)
  BY <1>1, <1>2, Invariants DEF RequestOK, ChangeOK
<1>4. CASE file' = file
  BY <1>4 DEF Materialized
<1>5. CASE Patch(d.key, d.enabled)
  <2>1. d.enabled \in BOOLEAN
    BY <1>1, <1>3 DEF RequestType, Draft
  <2>2. PICK M : M = Materialized
    OBVIOUS
  <2>3. PICK k \in Key : k = d.key
    BY <1>3
  <2>4. PICK server \in Server :
          /\ server = [At(M, k) EXCEPT !.enabled = d.enabled]
          /\ server.key = k /\ (server.type = NoAuth => server.secret = NoSecret)
          /\ file' = Upserted(server) /\ Holds(M, k)
    BY <1>5, <2>1, <2>2, <2>3, PatchFacts DEF SettingsInv
  <2>5. At(M, k) \in Server
    BY <1>3, <2>2, <2>4, EntryFacts
  <2>6. server.type = At(M, k).type /\ server.secret = At(M, k).secret
    BY <2>4, <2>5 DEF Server
  <2>7. Entry(server) \in EnteredOf(RegistryOf(M), k)
    BY <1>3, <2>2, <2>4, <2>6, EntryAllowed
  <2>8. Materialized' = UpsertedIn(M, server)
    BY <2>2, <2>4, WrittenFile DEF SettingsInv
  <2>9. /\ \A other \in Key \ {k} : RegistryOf(Materialized')[other] = RegistryOf(M)[other]
        /\ RegistryOf(Materialized')[k] = Entry(server)
    <3>1. PICK t : t = UpsertedIn(M, server)
      OBVIOUS
    <3>2. server.key = k /\ (server.type = NoAuth => server.secret = NoSecret)
      BY <2>4
    <3>3. ServersOK(M)
      BY <1>3, <2>2
    <3>4. /\ \A other \in Key \ {k} : RegistryOf(t)[other] = RegistryOf(M)[other]
          /\ RegistryOf(t)[k] = Entry(server)
      BY <3>1, <3>2, <3>3, WriteEnters
    <3> QED BY <2>8, <3>1, <3>4
  <2> QED BY <2>2, <2>7, <2>9, EntersRegistry
<1> QED BY <1>2, <1>4, <1>5

LEMMA DeleteEnters ==
  ASSUME SettingsInv, NEW r \in DOMAIN requests, requests[r].stage = "sent", HandleDelete(r)
  PROVE  Materialized' = Materialized \/ \E k \in Key : Registry!Change(k)
<1>1. PICK key : key = requests[r].draft.key
  OBVIOUS
<1>2. requests[r] \in RequestType /\ ServersOK(Materialized)
  BY Invariants
<1>3. CASE file' = file
  BY <1>3 DEF Materialized
<1>4. CASE key # NoKey /\ Delete(key)
  <2>1. PICK k \in Key : k = key
    BY <1>1, <1>2, <1>4 DEF RequestType, Draft
  <2>2. Materialized' = Without(Materialized, k)
    BY <1>4, <2>1, RemovedFile DEF SettingsInv
  <2>3. PICK M : M = Materialized
    OBVIOUS
  <2>4. /\ \A other \in Key \ {k} : RegistryOf(Materialized')[other] = RegistryOf(M)[other]
        /\ RegistryOf(Materialized')[k] = NoServer
    <3>1. PICK t : t = Materialized'
      OBVIOUS
    <3> QED BY <1>2, <2>2, <2>3, <3>1, RemovalLeaves
  <2> QED BY <2>3, <2>4, EntersRegistry
<1> QED BY <1>1, <1>3, <1>4 DEF HandleDelete

\* Only a save, a toggle and a deletion that the server handles write the file.
LEMMA FileMoves ==
  ASSUME SettingsInv, [SettingsNext]_settingsVars
  PROVE  Materialized' = Materialized \/ \E k \in Key : Registry!Change(k)
<1>1. CASE file' = file
  BY <1>1 DEF Materialized
<1>2. ASSUME NEW p \in Page,
             \/ Load(p) \/ Select(p) \/ StartNew(p) \/ Edit(p)
             \/ Save(p) \/ Toggle(p) \/ DeleteDraft(p) \/ Test(p)
      PROVE  file' = file
  BY <1>2 DEF Load, Select, StartNew, Edit, Save, Toggle, DeleteDraft, Test, Make, Show
<1>3. ASSUME NEW r \in DOMAIN requests, ServerStep(r)
      PROVE  Materialized' = Materialized \/ \E k \in Key : Registry!Change(k)
  <2>1. CASE ServerProbed(r) \/ ProbeTimesOut(r) \/ Receive(r) \/ Lose(r)
    BY <1>1, <2>1 DEF ServerProbed, ProbeTimesOut, Receive, Lose, Finish
  <2>2. CASE Handle(r)
    <3>1. requests[r].stage = "sent"
      BY <2>2 DEF Handle
    <3>2. CASE HandleLoad(r) \/ HandleTest(r)
      BY <1>1, <3>2 DEF HandleLoad, HandleTest
    <3>3. CASE HandleSave(r)
      BY <3>1, <3>3, SaveEnters
    <3>4. CASE HandleToggle(r)
      BY <3>1, <3>4, ToggleEnters
    <3>5. CASE HandleDelete(r)
      BY <3>1, <3>5, DeleteEnters
    <3> QED BY <2>2, <3>2, <3>3, <3>4, <3>5 DEF Handle
  <2> QED BY <1>3, <2>1, <2>2 DEF ServerStep
<1>4. CASE UNCHANGED settingsVars
  BY <1>1, <1>4 DEF settingsVars
<1> QED BY <1>1, <1>2, <1>3, <1>4 DEF SettingsNext

LEMMA InitMaps == SettingsInit => Registry!RegistryInit
<1> SUFFICES ASSUME SettingsInit PROVE Registry!RegistryInit
  OBVIOUS
<1>1. Materialized = Base /\ ServersOK(Base)
  BY StoreConstants DEF SettingsInit, StoreInit, Materialized, ServersOK
<1>2. OfferedOf(Base) = Registry!ServersOffered(RegistryOf(Base))
  BY <1>1, OfferedFacts
<1>3. [k \in Key |->
         IF Holds(Base, k)
         THEN [enabled |-> At(Base, k).enabled, type |-> At(Base, k).type,
               secret |-> At(Base, k).secret]
         ELSE NoServer] = RegistryOf(Base)
  BY DEF RegistryOf, Entry
<1> QED BY <1>1, <1>2, <1>3, Mapped DEF Registry!RegistryInit

LEMMA StepMaps ==
  SettingsInv /\ SettingsInv' /\ [SettingsNext]_settingsVars
    => Registry!RegistryNext
       \/ /\ [k \in Key |->
                IF Holds(Materialized, k)
                THEN LET s == At(Materialized, k)
                     IN [enabled |-> s.enabled, type |-> s.type, secret |-> s.secret]
                ELSE NoServer]'
             = [k \in Key |->
                IF Holds(Materialized, k)
                THEN LET s == At(Materialized, k)
                     IN [enabled |-> s.enabled, type |-> s.type, secret |-> s.secret]
                ELSE NoServer]
          /\ [k \in Key |-> IF k \in DOMAIN Resolved THEN Resolved[k] ELSE NoServer]'
             = [k \in Key |-> IF k \in DOMAIN Resolved THEN Resolved[k] ELSE NoServer]
<1> SUFFICES ASSUME SettingsInv, SettingsInv', [SettingsNext]_settingsVars,
                    NEW R2, R2 = RegistryOf(Materialized'),
                    NEW O2, O2 = OfferedOf(Materialized')
             PROVE  Registry!RegistryNext
                    \/ (R2 = RegistryOf(Materialized) /\ O2 = OfferedOf(Materialized))
  BY Mapped DEF RegistryOf, Entry, OfferedOf, ResolvedOf, Resolved
<1>1. CASE Materialized' = Materialized
  BY <1>1
<1>2. ASSUME NEW k \in Key, Registry!Change(k)
      PROVE  Registry!RegistryNext
  <2>1. ServersOK(Materialized')
    BY DEF SettingsInv, TypesOK
  <2>2. O2 = Registry!ServersOffered(R2)
    BY <2>1, OfferedFacts
  <2> QED BY <1>2, <2>2, Mapped DEF Registry!RegistryNext, RegistryOf, Entry, OfferedOf,
             ResolvedOf, Resolved
<1>3. Materialized' = Materialized \/ \E k \in Key : Registry!Change(k)
  BY FileMoves
<1>4. CASE \E k \in Key : Registry!Change(k)
  <2>1. PICK k \in Key : Registry!Change(k)
    BY <1>4
  <2> QED BY <1>2, <2>1
<1> QED BY <1>1, <1>3, <1>4

\* Whatever the pages do, the store is a register of servers: one server
\* changes at a time, a secret that a request does not repeat is kept
\* (_auth_from_write in config_route.py), and a run is offered the enabled
\* servers with their own authentication (get_mcp_servers_config).
THEOREM StoreIsRegistry == SettingsSpec => ImplementsRegistry
<1>1. SettingsInv /\ SettingsInv' /\ [SettingsNext]_settingsVars
        => [Registry!RegistryNext]_<<
             [k \in Key |->
                IF Holds(Materialized, k)
                THEN LET s == At(Materialized, k)
                     IN [enabled |-> s.enabled, type |-> s.type, secret |-> s.secret]
                ELSE NoServer],
             [k \in Key |-> IF k \in DOMAIN Resolved THEN Resolved[k] ELSE NoServer]>>
  BY StepMaps
<1> QED BY <1>1, InitMaps, SettingsInvariant, PTL
        DEF SettingsSpec, ImplementsRegistry, Registry!RegistrySpec
=============================================================================
