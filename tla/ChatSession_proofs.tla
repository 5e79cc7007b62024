-------------------------- MODULE ChatSession_proofs --------------------------
(***************************************************************************)
(* Proofs about ChatSession, for every set of tabs and threads and every   *)
(* number of clicks, answers and operations under way.                     *)
(***************************************************************************)
EXTENDS ChatSession, SequenceTheorems, FiniteSetTheorems, TLAPS

-----------------------------------------------------------------------------
\* Sequences.

LEMMA DomainOfSeq ==
  ASSUME NEW S, NEW s \in Seq(S)
  PROVE  DOMAIN s = 1 .. Len(s) /\ Len(s) \in Nat
  BY LenProperties

\* Removing an element moves what follows it forward by one.
LEMMA RemoveAtFacts ==
  ASSUME NEW S, NEW s \in Seq(S), NEW i \in 1 .. Len(s)
  PROVE  /\ RemoveAt(s, i) \in Seq(S)
         /\ Len(RemoveAt(s, i)) = Len(s) - 1
         /\ \A k \in 1 .. Len(s) - 1 :
              RemoveAt(s, i)[k] = IF k < i THEN s[k] ELSE s[k + 1]
<1> DEFINE front == SubSeq(s, 1, i - 1)
           back  == SubSeq(s, i + 1, Len(s))
<1>0. Len(s) \in Nat /\ \A k \in 1 .. Len(s) : s[k] \in S
  BY LenProperties, ElementOfSeq
<1>1. /\ front \in Seq(S) /\ Len(front) = i - 1
      /\ \A k \in 1 .. i - 1 : front[k] = s[k]
  BY <1>0, SubSeqProperties, Z3
<1>2. /\ back \in Seq(S) /\ Len(back) = Len(s) - i
      /\ \A k \in 1 .. Len(s) - i : back[k] = s[i + k]
  BY <1>0, SubSeqProperties, Z3
<1>3. /\ front \o back \in Seq(S) /\ Len(front \o back) = Len(s) - 1
      /\ \A k \in 1 .. Len(s) - 1 :
           (front \o back)[k] = IF k <= i - 1 THEN front[k] ELSE back[k - (i - 1)]
  <2> HIDE DEF front, back
  <2> QED BY <1>0, <1>1, <1>2, ConcatProperties
<1>4. RemoveAt(s, i) = front \o back
  BY DEF RemoveAt
<1> HIDE DEF front, back
<1> QED BY <1>0, <1>1, <1>2, <1>3, <1>4

\* What is left of a sequence keeps its order, and nothing else is lost.
LEMMA RemoveAtKeeps ==
  ASSUME NEW S, NEW s \in Seq(S), NEW i \in DOMAIN s, NEW t, t = RemoveAt(s, i)
  PROVE  /\ t \in Seq(S)
         /\ \A k \in DOMAIN t :
              LET j == IF k < i THEN k ELSE k + 1
              IN  j \in DOMAIN s /\ j # i /\ t[k] = s[j]
         /\ \A j \in DOMAIN s : j # i =>
              LET k == IF j < i THEN j ELSE j - 1
              IN  k \in DOMAIN t /\ t[k] = s[j]
<1>1. DOMAIN s = 1 .. Len(s) /\ Len(s) \in Nat
  BY LenProperties
<1>2. /\ t \in Seq(S) /\ Len(t) = Len(s) - 1
      /\ \A k \in 1 .. Len(s) - 1 : t[k] = IF k < i THEN s[k] ELSE s[k + 1]
  BY <1>1, RemoveAtFacts
<1>3. DOMAIN t = 1 .. Len(s) - 1
  BY <1>1, <1>2, LenProperties
<1>4. ASSUME NEW k \in DOMAIN t
      PROVE  LET j == IF k < i THEN k ELSE k + 1
             IN  j \in DOMAIN s /\ j # i /\ t[k] = s[j]
  BY <1>1, <1>2, <1>3
<1>5. ASSUME NEW j \in DOMAIN s, j # i
      PROVE  LET k == IF j < i THEN j ELSE j - 1
             IN  k \in DOMAIN t /\ t[k] = s[j]
  BY <1>1, <1>2, <1>3, <1>5
<1> QED BY <1>2, <1>4, <1>5

LEMMA AppendFacts ==
  ASSUME NEW S, NEW s \in Seq(S), NEW e \in S
  PROVE  /\ Append(s, e) \in Seq(S)
         /\ DOMAIN s = 1 .. Len(s) /\ Len(s) \in Nat
         /\ DOMAIN Append(s, e) = 1 .. Len(s) + 1
         /\ \A k \in 1 .. Len(s) : Append(s, e)[k] = s[k]
         /\ Append(s, e)[Len(s) + 1] = e
  BY AppendProperties, LenProperties

LEMMA MappedSeq ==
  ASSUME NEW S, NEW n \in Nat, NEW f \in [1 .. n -> S]
  PROVE  f \in Seq(S) /\ Len(f) = n
  OBVIOUS

\* The sequence of the elements of a finite set.
LEMMA SetToSeqType ==
  ASSUME NEW S, IsFiniteSet(S)
  PROVE  SetToSeq(S) \in [1 .. Cardinality(S) -> S] /\ Cardinality(S) \in Nat
<1>1. /\ Cardinality(S) \in Nat
      /\ \E f \in [1 .. Cardinality(S) -> S] : IsInjective(f)
  BY FS_CardinalityType DEF ExistsBijection, Bijection, Injection, IsInjective
<1> QED BY <1>1 DEF SetToSeq

-----------------------------------------------------------------------------
(***************************************************************************)
(* The inductive invariant.                                                *)
(*                                                                         *)
(* PagesOK and AskedOK are about suggestions and missing threads: while a  *)
(* tab hydrates or runs it shows no suggestions and none of its requests   *)
(* is active, so what arrives or is on display afterwards was asked for    *)
(* since, and follows from the last answer.                                *)
(*                                                                         *)
(* UsedOK and SidebarsOK are about deletions: a deleted thread is never    *)
(* created again, and as long as a search may still bring one back, a      *)
(* later search that will not is under way behind it.                      *)
(***************************************************************************)
Operation == [tab : Tab, kind : {"search", "clear", "delete"},
              thread : Thread \cup {NoThread}, seen : SUBSET Thread,
              stage : {"sent", "answered", "stopping"},
              answer : SUBSET Thread, late : BOOLEAN]
SuggestionRequest == [tab : Tab, of : Answer, active : BOOLEAN]

TypesOK ==
  /\ used \subseteq Thread /\ live \subseteq used /\ busy \subseteq live
  /\ answers \in [Thread -> 0 .. MaxAnswers]
  /\ stored \in Thread \cup {NoThread}
  /\ tabs \in [Tab -> Page]
  /\ ops \in Seq(Operation) /\ asked \in Seq(SuggestionRequest)

Working == {"hydrating", "running"}

PageOK(page) ==
  /\ page.thread = page.bound
  /\ page.phase = "hydrating" => page.bound # NoThread
  /\ page.recovered # NoThread => page.recovered \in page.met
  /\ page.phase = "failed" /\ page.error = "missing" => page.bound \in page.met

\* A suggestion, shown or asked for, that follows from the answer on display.
Follows(page, of) == page.thread # NoThread => of = page.last

PagesOK ==
  \A p \in Tab :
    /\ PageOK(tabs[p])
    /\ tabs[p].phase \in Working => tabs[p].shown = NoAnswer
    /\ tabs[p].shown # NoAnswer => Follows(tabs[p], tabs[p].shown)

AskedOK ==
  /\ \A i \in DOMAIN asked : asked[i].active =>
       /\ tabs[asked[i].tab].phase \notin Working
       /\ Follows(tabs[asked[i].tab], asked[i].of)
  /\ \A i, j \in DOMAIN asked :
       asked[i].active /\ asked[j].active /\ asked[i].tab = asked[j].tab => i = j

\* What an operation knows of the threads there were and there are: the one of
\* an answered deletion is gone.
OperationOK(op, had, has) ==
  /\ op.thread \in had \cup {NoThread} /\ op.seen \subseteq had /\ op.answer \subseteq had
  /\ op.kind # "search" /\ op.stage = "answered" => op.thread \notin has
  /\ op.stage = "stopping" => op.kind = "clear"

\* What a page knows of them.
PageKnows(page, had, has) ==
  /\ page.thread \in had \cup {NoThread} /\ page.history \subseteq had
  /\ page.gone \subseteq had \ has

UsedOK ==
  /\ stored \in used \cup {NoThread}
  /\ \A p \in Tab : PageKnows(tabs[p], used, live)
  /\ \A i \in DOMAIN ops : OperationOK(ops[i], used, live)

\* A search of p that will be applied in its turn, and one of them that leaves
\* no thread of gone in the sidebar.
InTurn(op, p) == op.tab = p /\ op.kind = "search" /\ ~op.late
Clean(op, gone) == op.stage = "sent" \/ op.answer \cap gone = {}

\* Whatever is in the sidebar or on its way to it, the last of the searches
\* under way that will be applied in turn is clean.
Covered(under, p, gone, history) ==
  /\ gone \cap history # {} =>
       \E j \in DOMAIN under : InTurn(under[j], p) /\ Clean(under[j], gone)
  /\ \A i \in DOMAIN under : InTurn(under[i], p) /\ ~Clean(under[i], gone) =>
       \E j \in DOMAIN under :
         i < j /\ InTurn(under[j], p) /\ Clean(under[j], gone)

SidebarsOK ==
  \A p \in Tab : tabs[p].overtaken \/ tabs[p].lost
                   \/ Covered(ops, p, tabs[p].gone, tabs[p].history)

SessionInv == TypesOK /\ PagesOK /\ AskedOK /\ UsedOK /\ SidebarsOK

-----------------------------------------------------------------------------
\* Pages.

LEMMA BindFacts ==
  ASSUME NEW page \in Page, NEW t \in Thread \cup {NoThread}
  PROVE  /\ Bind(page, t) \in Page
         /\ Bind(page, t).thread = t /\ Bind(page, t).bound = t
         /\ Bind(page, t).history = page.history
         /\ Bind(page, t).shown = page.shown
         /\ Bind(page, t).recovered = page.recovered
         /\ Bind(page, t).met = page.met /\ Bind(page, t).gone = page.gone
         /\ Bind(page, t).overtaken = page.overtaken
         /\ Bind(page, t).lost = page.lost
         /\ IF t = page.bound
            THEN /\ Bind(page, t).phase = page.phase
                 /\ Bind(page, t).error = page.error
                 /\ Bind(page, t).last = page.last
            ELSE /\ Bind(page, t).phase = IF t = NoThread THEN "idle" ELSE "hydrating"
                 /\ Bind(page, t).error = "none"
                 /\ Bind(page, t).last = NoAnswer
  BY DEF Bind, Page, Phase

Begins(old, new) == new.phase # old.phase /\ new.phase \in Working
Wants(new) == /\ new.phase = "idle" /\ new.thread # NoThread
              /\ new.last # NoAnswer /\ new.last # new.key

\* The page that is rendered.
Rendered(old, new) ==
  IF Begins(old, new) THEN Quiet(new)
  ELSE IF Wants(new)
  THEN [new EXCEPT !.key = new.last, !.shown = NoAnswer, !.loading = TRUE]
  ELSE new

LEMMA RenderedFacts ==
  ASSUME NEW old \in Page, NEW new \in Page, NEW page, page = Rendered(old, new)
  PROVE  /\ page \in Page
         /\ page.thread = new.thread /\ page.history = new.history
         /\ page.bound = new.bound /\ page.phase = new.phase
         /\ page.error = new.error /\ page.last = new.last
         /\ page.recovered = new.recovered /\ page.met = new.met
         /\ page.gone = new.gone /\ page.overtaken = new.overtaken
         /\ page.lost = new.lost
         /\ page.shown = IF Begins(old, new) \/ Wants(new) THEN NoAnswer
                         ELSE new.shown
<1>1. CASE Begins(old, new)
  <2>1. page = Quiet(new)
    BY <1>1 DEF Rendered
  <2> HIDE DEF Begins, Wants
  <2> QED BY <1>1, <2>1 DEF Quiet, Page
<1>2. CASE ~Begins(old, new) /\ Wants(new)
  <2>1. page = [new EXCEPT !.key = new.last, !.shown = NoAnswer, !.loading = TRUE]
    BY <1>2 DEF Rendered
  <2> QED BY <1>2, <2>1 DEF Page
<1>3. CASE ~Begins(old, new) /\ ~Wants(new)
  BY <1>3 DEF Rendered
<1> QED BY <1>1, <1>2, <1>3

LEMMA RenderIs ==
  ASSUME NEW p \in Tab, NEW new, NEW under, Render(p, new, under)
  PROVE  /\ tabs' = [tabs EXCEPT ![p] = Rendered(tabs[p], new)]
         /\ asked' = IF Wants(new)
                     THEN Append(Aborted(p), [tab |-> p, of |-> new.last,
                                              active |-> TRUE])
                     ELSE IF Begins(tabs[p], new) THEN Aborted(p) ELSE asked
         /\ ops' = Refreshed(p, new, under)
  BY DEF Render, Rendered, Begins, Wants, Working

LEMMA AbortedFacts ==
  ASSUME asked \in Seq(SuggestionRequest), NEW p \in Tab
  PROVE  /\ Aborted(p) \in Seq(SuggestionRequest)
         /\ DOMAIN Aborted(p) = DOMAIN asked
         /\ \A i \in DOMAIN asked :
              /\ Aborted(p)[i].tab = asked[i].tab
              /\ Aborted(p)[i].of = asked[i].of
              /\ Aborted(p)[i].active = (asked[i].active /\ asked[i].tab # p)
<1>1. DOMAIN asked = 1 .. Len(asked) /\ Len(asked) \in Nat
  BY DomainOfSeq
<1>2. \A i \in DOMAIN asked : asked[i] \in SuggestionRequest
  BY <1>1, ElementOfSeq
<1>3. \A i \in DOMAIN asked :
        LET r == [asked[i] EXCEPT !.active = @ /\ asked[i].tab # p]
        IN /\ r \in SuggestionRequest
           /\ r.tab = asked[i].tab /\ r.of = asked[i].of
           /\ r.active = (asked[i].active /\ asked[i].tab # p)
  BY <1>2 DEF SuggestionRequest
<1>4. Aborted(p) \in [1 .. Len(asked) -> SuggestionRequest]
  BY <1>1, <1>3 DEF Aborted
<1> QED BY <1>1, <1>3, <1>4, MappedSeq DEF Aborted

\* A change of a page that keeps its suggestions in order: between two states
\* without work it leaves the thread, or keeps the thread and its answer.
Admissible(p, new) ==
  /\ new \in Page /\ PageOK(new) /\ new.shown = tabs[p].shown
  /\ new.phase \notin Working /\ tabs[p].phase \notin Working =>
       \/ new.thread = NoThread
       \/ new.thread = tabs[p].thread /\ new.last = tabs[p].last

LEMMA RenderTypes ==
  ASSUME TypesOK, NEW p \in Tab, NEW new, Admissible(p, new), NEW under, Render(p, new, under)
  PROVE  /\ tabs' \in [Tab -> Page]
         /\ tabs' = [tabs EXCEPT ![p] = Rendered(tabs[p], new)]
         /\ asked' \in Seq(SuggestionRequest)
         /\ under \in Seq(Operation) => ops' \in Seq(Operation)
<1>1. tabs \in [Tab -> Page] /\ tabs[p] \in Page /\ new \in Page
  BY DEF TypesOK, Admissible
<1>2. Rendered(tabs[p], new) \in Page
  BY <1>1, RenderedFacts
<1>3. Wants(new) => [tab |-> p, of |-> new.last, active |-> TRUE] \in SuggestionRequest
  BY <1>1 DEF Wants, SuggestionRequest, Page
<1>4. Aborted(p) \in Seq(SuggestionRequest) /\ asked \in Seq(SuggestionRequest)
  BY AbortedFacts DEF TypesOK
<1>5. Search(p) \in Operation
  BY DEF Search, Operation
<1>6. under \in Seq(Operation) => Refreshed(p, new, under) \in Seq(Operation)
  BY <1>5, AppendProperties DEF Refreshed
<1>7. asked' \in Seq(SuggestionRequest)
  <2> DEFINE r == [tab |-> p, of |-> new.last, active |-> TRUE]
  <2>1. asked' = IF Wants(new) THEN Append(Aborted(p), r)
                 ELSE IF Begins(tabs[p], new) THEN Aborted(p) ELSE asked
    BY RenderIs
  <2>2. Wants(new) => r \in SuggestionRequest
    BY <1>3
  <2> HIDE DEF r
  <2> QED BY <1>4, <2>1, <2>2, AppendProperties
<1>8. /\ tabs' = [tabs EXCEPT ![p] = Rendered(tabs[p], new)]
      /\ ops' = Refreshed(p, new, under)
  BY RenderIs
<1> QED BY <1>1, <1>2, <1>6, <1>7, <1>8

LEMMA RenderPages ==
  ASSUME TypesOK, PagesOK, NEW p \in Tab, NEW new, Admissible(p, new), NEW under,
         Render(p, new, under)
  PROVE  PagesOK'
<1> DEFINE page == tabs'[p]
<1>1. tabs \in [Tab -> Page] /\ tabs[p] \in Page /\ new \in Page
  BY DEF TypesOK, Admissible
<1>2. page = Rendered(tabs[p], new) /\ \A q \in Tab \ {p} : tabs'[q] = tabs[q]
  BY <1>1, RenderTypes
<1>3. PageOK(page)
  BY <1>1, <1>2, RenderedFacts DEF Admissible, PageOK
<1>4. page.phase \in Working => page.shown = NoAnswer
  <2> SUFFICES ASSUME page.phase \in Working PROVE page.shown = NoAnswer
    OBVIOUS
  <2>1. /\ page.phase = new.phase /\ new.shown = tabs[p].shown
        /\ page.shown # NoAnswer
           => page.shown = new.shown /\ ~Begins(tabs[p], new)
    BY <1>1, <1>2, RenderedFacts DEF Admissible
  <2>2. tabs[p].phase \in Working => tabs[p].shown = NoAnswer
    BY DEF PagesOK
  <2>3. ~Begins(tabs[p], new) => new.phase = tabs[p].phase
    BY <2>1 DEF Begins
  <2> HIDE DEF page
  <2> QED BY <2>1, <2>2, <2>3
<1>5. page.shown # NoAnswer => Follows(page, page.shown)
  <2> SUFFICES ASSUME page.shown # NoAnswer, page.thread # NoThread
               PROVE  page.shown = page.last
    BY DEF Follows
  <2>1. /\ ~Begins(tabs[p], new) /\ page.shown = tabs[p].shown
        /\ page.thread = new.thread /\ page.last = new.last /\ page.phase = new.phase
    BY <1>1, <1>2, RenderedFacts DEF Admissible
  <2>2. tabs[p].phase \notin Working /\ Follows(tabs[p], tabs[p].shown)
    BY <2>1 DEF PagesOK
  <2>3. new.phase \notin Working
    BY <2>1, <2>2 DEF Begins
  <2> QED BY <2>1, <2>2, <2>3 DEF Admissible, Follows
<1> QED BY <1>2, <1>3, <1>4, <1>5 DEF PagesOK

LEMMA RenderAsked ==
  ASSUME TypesOK, PagesOK, AskedOK, NEW p \in Tab, NEW new, Admissible(p, new), NEW under,
         Render(p, new, under)
  PROVE  AskedOK'
<1>1. tabs \in [Tab -> Page] /\ tabs[p] \in Page /\ new \in Page
  BY DEF TypesOK, Admissible
<1>2. /\ tabs'[p].phase = new.phase /\ tabs'[p].thread = new.thread
      /\ tabs'[p].last = new.last
      /\ \A q \in Tab \ {p} : tabs'[q] = tabs[q]
  BY <1>1, RenderTypes, RenderedFacts
<1>3. asked \in Seq(SuggestionRequest) /\ DOMAIN asked = 1 .. Len(asked) /\ Len(asked) \in Nat
      /\ \A i \in DOMAIN asked : asked[i].tab \in Tab /\ asked[i].active \in BOOLEAN
  <2>1. asked \in Seq(SuggestionRequest)
    BY DEF TypesOK
  <2>2. DOMAIN asked = 1 .. Len(asked) /\ Len(asked) \in Nat
    BY <2>1, DomainOfSeq
  <2>3. \A i \in DOMAIN asked : asked[i] \in SuggestionRequest
    BY <2>1, <2>2, ElementOfSeq
  <2> QED BY <2>1, <2>2, <2>3 DEF SuggestionRequest
<1> DEFINE rest == Aborted(p)
<1>4. /\ rest \in Seq(SuggestionRequest) /\ DOMAIN rest = DOMAIN asked
      /\ \A i \in DOMAIN asked : /\ rest[i].tab = asked[i].tab /\ rest[i].of = asked[i].of
                                 /\ rest[i].active = (asked[i].active /\ asked[i].tab # p)
  BY <1>3, AbortedFacts
<1> HIDE DEF rest
<1>8. /\ \A i \in DOMAIN asked : rest[i].active =>
           /\ rest[i].tab # p
           /\ tabs'[rest[i].tab].phase \notin Working
           /\ Follows(tabs'[rest[i].tab], rest[i].of)
      /\ \A i, j \in DOMAIN asked :
           rest[i].active /\ rest[j].active /\ rest[i].tab = rest[j].tab => i = j
  <2>1. ASSUME NEW i \in DOMAIN asked, rest[i].active
        PROVE  /\ rest[i].tab # p
               /\ tabs'[rest[i].tab].phase \notin Working
               /\ Follows(tabs'[rest[i].tab], rest[i].of)
    <3>1. asked[i].active /\ asked[i].tab # p /\ asked[i].tab \in Tab
      BY <1>3, <1>4, <2>1
    <3>2. tabs'[asked[i].tab] = tabs[asked[i].tab]
      BY <1>2, <3>1
    <3> QED BY <1>4, <3>1, <3>2 DEF AskedOK
  <2>2. ASSUME NEW i \in DOMAIN asked, NEW j \in DOMAIN asked, rest[i].active,
               rest[j].active, rest[i].tab = rest[j].tab
        PROVE  i = j
    BY <1>4, <2>2 DEF AskedOK
  <2> QED BY <2>1, <2>2
<1>5. CASE Wants(new)
  <2> DEFINE r == [tab |-> p, of |-> new.last, active |-> TRUE]
  <2>1. asked' = Append(rest, r) /\ r \in SuggestionRequest
    BY <1>1, <1>5, RenderIs DEF Wants, SuggestionRequest, Page, rest
  <2>2. /\ DOMAIN asked' = 1 .. Len(asked) + 1
        /\ \A i \in DOMAIN asked : asked'[i] = rest[i]
        /\ asked'[Len(asked) + 1] = r
    <3> HIDE DEF r
    <3>1. Len(rest) = Len(asked)
      BY <1>3, <1>4, DomainOfSeq
    <3> QED BY <1>3, <1>4, <2>1, <3>1, AppendFacts
  <2>3. r.tab = p /\ r.of = new.last
    OBVIOUS
  <2>4. new.phase \notin Working
    BY <1>5 DEF Wants, Working
  <2> HIDE DEF r
  <2>5. ASSUME NEW i \in DOMAIN asked', asked'[i].active
        PROVE  /\ tabs'[asked'[i].tab].phase \notin Working
               /\ Follows(tabs'[asked'[i].tab], asked'[i].of)
    <3>1. CASE i \in DOMAIN asked
      BY <2>2, <2>5, <3>1, <1>8
    <3>2. CASE i = Len(asked) + 1
      BY <1>2, <2>2, <2>3, <2>4, <3>2 DEF Follows
    <3> QED BY <1>3, <2>2, <3>1, <3>2
  <2>6. ASSUME NEW i \in DOMAIN asked', NEW j \in DOMAIN asked', asked'[i].active,
               asked'[j].active, asked'[i].tab = asked'[j].tab
        PROVE  i = j
    BY <1>3, <1>8, <2>2, <2>3, <2>6
  <2> QED BY <2>5, <2>6 DEF AskedOK
<1>6. CASE ~Wants(new) /\ Begins(tabs[p], new)
  <2>1. asked' = rest
    BY <1>6, RenderIs DEF rest
  <2> QED BY <1>4, <1>8, <2>1 DEF AskedOK
<1>7. CASE ~Wants(new) /\ ~Begins(tabs[p], new)
  <2>1. asked' = asked
    BY <1>7, RenderIs
  <2>2. \A i \in DOMAIN asked : asked[i].active /\ asked[i].tab = p =>
          new.phase \notin Working /\ (new.thread # NoThread => asked[i].of = new.last)
    BY <1>7 DEF AskedOK, Follows, Admissible, Begins
  <2> QED BY <1>2, <1>3, <2>1, <2>2 DEF AskedOK, Follows
<1> QED BY <1>5, <1>6, <1>7

-----------------------------------------------------------------------------
\* Searches under way.

LEMMA SearchFacts ==
  ASSUME NEW p \in Tab
  PROVE  /\ Search(p) \in Operation /\ InTurn(Search(p), p)
         /\ \A gone : Clean(Search(p), gone)
         /\ \A had, has : OperationOK(Search(p), had, has)
  BY DEF Search, Operation, InTurn, Clean, OperationOK

\* A search that begins covers its tab, and harms no other one.
LEMMA SearchCovers ==
  ASSUME NEW p \in Tab, NEW under \in Seq(Operation), NEW gone, NEW history
  PROVE  Covered(Append(under, Search(p)), p, gone, history)
<1>1. /\ DOMAIN under = 1 .. Len(under) /\ Len(under) \in Nat
      /\ DOMAIN Append(under, Search(p)) = 1 .. Len(under) + 1
      /\ Append(under, Search(p))[Len(under) + 1] = Search(p)
  BY SearchFacts, AppendFacts
<1>2. InTurn(Search(p), p) /\ Clean(Search(p), gone)
  BY SearchFacts
<1>3. \A i \in 1 .. Len(under) + 1 : i # Len(under) + 1 => i < Len(under) + 1
  BY <1>1
<1> HIDE DEF Search
<1> QED BY <1>1, <1>2, <1>3 DEF Covered

LEMMA AppendCovers ==
  ASSUME NEW op \in Operation, NEW under \in Seq(Operation), NEW q, NEW gone, NEW history,
         Covered(under, q, gone, history),
         InTurn(op, q) => Clean(op, gone)
  PROVE  Covered(Append(under, op), q, gone, history)
<1>1. /\ DOMAIN under = 1 .. Len(under) /\ Len(under) \in Nat
      /\ DOMAIN Append(under, op) = 1 .. Len(under) + 1
      /\ \A k \in 1 .. Len(under) : Append(under, op)[k] = under[k]
      /\ Append(under, op)[Len(under) + 1] = op
  BY AppendFacts
<1> QED BY <1>1 DEF Covered

LEMMA RefreshedFacts ==
  ASSUME NEW p \in Tab, NEW new, NEW under \in Seq(Operation),
         NEW s, s = Refreshed(p, new, under), NEW had, NEW has,
         \A i \in DOMAIN under : OperationOK(under[i], had, has)
  PROVE  /\ s \in Seq(Operation)
         /\ \A i \in DOMAIN s : OperationOK(s[i], had, has)
         /\ \A q, gone, history : Covered(under, q, gone, history)
                                    => Covered(s, q, gone, history)
<1>1. CASE s = under
  BY <1>1
<1>2. CASE s = Append(under, Search(p))
  <2>1. /\ DOMAIN under = 1 .. Len(under) /\ Len(under) \in Nat
        /\ s \in Seq(Operation) /\ DOMAIN s = 1 .. Len(under) + 1
        /\ \A k \in 1 .. Len(under) : s[k] = under[k]
        /\ s[Len(under) + 1] = Search(p)
    BY <1>2, SearchFacts, AppendFacts
  <2>2. \A i \in DOMAIN s : OperationOK(s[i], had, has)
    BY <2>1, SearchFacts
  <2>3. ASSUME NEW q, NEW gone, NEW history, Covered(under, q, gone, history)
        PROVE  Covered(s, q, gone, history)
    BY <1>2, <2>3, AppendCovers, SearchFacts
  <2> QED BY <2>1, <2>2, <2>3
<1> QED BY <1>1, <1>2 DEF Refreshed

-----------------------------------------------------------------------------
\* The server and the storage move as they may: threads are created anew.
ServerMoves ==
  /\ used \subseteq used' /\ used' \subseteq Thread
  /\ live' \subseteq used' /\ busy' \subseteq live' /\ live' \cap used \subseteq live
  /\ answers' \in [Thread -> 0 .. MaxAnswers]
  /\ stored' \in used' \cup {NoThread}

LEMMA KnowsMore ==
  ASSUME TypesOK, ServerMoves
  PROVE  /\ \A page : PageKnows(page, used, live) => PageKnows(page, used', live')
         /\ \A op : OperationOK(op, used, live) => OperationOK(op, used', live')
  BY SessionConstants DEF TypesOK, ServerMoves, PageKnows, OperationOK

\* The sidebar of a page that keeps it.
InSidebar(page, under, q) ==
  page.overtaken \/ page.lost \/ Covered(under, q, page.gone, page.history)

\* Any action that ends in rendering a page.
LEMMA RenderStep ==
  ASSUME SessionInv, ServerMoves, NEW p \in Tab, NEW new, Admissible(p, new),
         NEW under \in Seq(Operation), Render(p, new, under),
         PageKnows(new, used', live'),
         \A i \in DOMAIN under : OperationOK(under[i], used', live'),
         InSidebar(new, under, p),
         \A q \in Tab \ {p} : InSidebar(tabs[q], under, q)
  PROVE  SessionInv'
<1>1. /\ tabs' \in [Tab -> Page] /\ tabs' = [tabs EXCEPT ![p] = Rendered(tabs[p], new)]
      /\ asked' \in Seq(SuggestionRequest) /\ ops' \in Seq(Operation)
  BY RenderTypes DEF SessionInv
<1>2. TypesOK' /\ PagesOK' /\ AskedOK'
  BY <1>1, RenderPages, RenderAsked DEF SessionInv, TypesOK, ServerMoves
<1>3. ops' = Refreshed(p, new, under)
  BY RenderIs
<1>4. /\ \A i \in DOMAIN ops' : OperationOK(ops'[i], used', live')
      /\ \A q, gone, history : Covered(under, q, gone, history)
                                 => Covered(ops', q, gone, history)
  BY <1>3, RefreshedFacts
<1>5. tabs \in [Tab -> Page] /\ tabs[p] \in Page /\ new \in Page
  BY DEF SessionInv, TypesOK, Admissible
<1>6. /\ tabs'[p].thread = new.thread /\ tabs'[p].history = new.history
      /\ tabs'[p].gone = new.gone /\ tabs'[p].overtaken = new.overtaken
      /\ tabs'[p].lost = new.lost
      /\ \A q \in Tab \ {p} : tabs'[q] = tabs[q]
  BY <1>1, <1>5, RenderedFacts
<1>7. \A q \in Tab : PageKnows(tabs'[q], used', live')
  BY <1>6, KnowsMore DEF SessionInv, UsedOK, PageKnows
<1>8. UsedOK'
  BY <1>4, <1>7 DEF UsedOK, ServerMoves
<1>9. SidebarsOK'
  BY <1>4, <1>6 DEF SidebarsOK, InSidebar
<1> QED BY <1>2, <1>8, <1>9 DEF SessionInv

Keeps(old, new) ==
  /\ new.history = old.history /\ new.gone = old.gone
  /\ new.overtaken = old.overtaken /\ new.lost = old.lost

\* ... whose sidebar stays, while the searches under way do.
LEMMA MoveStep ==
  ASSUME SessionInv, ServerMoves, NEW p \in Tab, NEW new, Admissible(p, new),
         Keeps(tabs[p], new), new.thread \in used' \cup {NoThread}, Render(p, new, ops)
  PROVE  SessionInv'
<1>1. ops \in Seq(Operation) /\ \A i \in DOMAIN ops : OperationOK(ops[i], used', live')
  BY KnowsMore DEF SessionInv, TypesOK, UsedOK
<1>2. PageKnows(tabs[p], used', live')
  BY KnowsMore DEF SessionInv, UsedOK
<1>3. PageKnows(new, used', live')
  BY <1>2 DEF PageKnows, Keeps
<1>4. \A q \in Tab : InSidebar(tabs[q], ops, q)
  BY DEF SessionInv, SidebarsOK, InSidebar
<1>5. InSidebar(new, ops, p)
  BY <1>4 DEF InSidebar, Keeps
<1> QED BY <1>1, <1>3, <1>4, <1>5, RenderStep

LEMMA BindAdmissible ==
  ASSUME SessionInv, NEW p \in Tab, NEW t \in Thread \cup {NoThread}
  PROVE  /\ Admissible(p, Bind(tabs[p], t)) /\ Keeps(tabs[p], Bind(tabs[p], t))
         /\ Bind(tabs[p], t).thread = t
<1>1. tabs[p] \in Page /\ PageOK(tabs[p])
  BY DEF SessionInv, TypesOK, PagesOK
<1>2. PICK new : new = Bind(tabs[p], t)
  OBVIOUS
<1>3. new \in Page /\ Keeps(tabs[p], new) /\ new.shown = tabs[p].shown
  BY <1>1, <1>2, BindFacts DEF Keeps
<1>4. CASE t = tabs[p].bound
  BY <1>1, <1>2, <1>3, <1>4, BindFacts DEF PageOK, Admissible
<1>5. CASE t # tabs[p].bound
  BY <1>1, <1>2, <1>3, <1>5, BindFacts DEF PageOK, Admissible, Working
<1> QED BY <1>2, <1>3, <1>4, <1>5, BindFacts, <1>1

\* Selecting a thread, here or in another tab, and starting a new chat.
LEMMA ServerStays ==
  ASSUME SessionInv, UNCHANGED server, stored' \in used \cup {NoThread}
  PROVE  ServerMoves
  BY DEF SessionInv, TypesOK, server, ServerMoves

LEMMA NextSelectThread ==
  ASSUME SessionInv, NEW p \in Tab, SelectThread(p)  PROVE SessionInv'
<1>1. PICK t \in tabs[p].history : /\ Render(p, Bind(tabs[p], t), ops) /\ stored' = t
  BY DEF SelectThread
<1>2. t \in used /\ t \in Thread
  BY <1>1 DEF SessionInv, TypesOK, UsedOK, PageKnows
<1>3. ServerMoves /\ used' = used
  BY <1>1, <1>2, ServerStays DEF SelectThread, server
<1> QED BY <1>1, <1>2, <1>3, BindAdmissible, MoveStep

LEMMA NextStartNewChat ==
  ASSUME SessionInv, NEW p \in Tab, StartNewChat(p)  PROVE SessionInv'
<1>1. Render(p, Bind(tabs[p], NoThread), ops) /\ ServerMoves
  BY ServerStays DEF StartNewChat
<1> QED BY <1>1, BindAdmissible, MoveStep

LEMMA NextSync ==
  ASSUME SessionInv, NEW p \in Tab, Sync(p)  PROVE SessionInv'
<1>1. stored \in used \cup {NoThread} /\ stored \in Thread \cup {NoThread}
  BY DEF SessionInv, TypesOK, UsedOK
<1>2. Render(p, Bind(tabs[p], stored), ops) /\ ServerMoves /\ used' = used
  BY <1>1, ServerStays DEF Sync, server
<1>3. PICK t : t = stored
  OBVIOUS
<1> QED BY <1>1, <1>2, <1>3, BindAdmissible, MoveStep

\* Sending a message, stopping the stream, and what the stream reports.
LEMMA WorkAdmissible ==
  ASSUME SessionInv, NEW p \in Tab, NEW new,
         new = [tabs[p] EXCEPT !.phase = "running", !.error = "none"]
  PROVE  Admissible(p, new) /\ Keeps(tabs[p], new) /\ new.thread = tabs[p].thread
<1>1. tabs[p] \in Page /\ PageOK(tabs[p])
  BY DEF SessionInv, TypesOK, PagesOK
<1>2. /\ new \in Page /\ new.phase = "running" /\ new.error = "none"
      /\ new.thread = tabs[p].thread /\ new.bound = tabs[p].bound
      /\ new.shown = tabs[p].shown /\ new.met = tabs[p].met
      /\ new.recovered = tabs[p].recovered /\ Keeps(tabs[p], new)
  BY <1>1 DEF Page, Phase, Keeps
<1> QED BY <1>1, <1>2 DEF Admissible, PageOK, Working

LEMMA NextSendUserMessage ==
  ASSUME SessionInv, NEW p \in Tab, SendUserMessage(p)  PROVE SessionInv'
<1>1. PICK new : new = [tabs[p] EXCEPT !.phase = "running", !.error = "none"]
  OBVIOUS
<1>2. Render(p, new, ops) /\ ServerMoves /\ used' = used
  BY <1>1 DEF SendUserMessage, SessionInv, TypesOK, UsedOK, ServerMoves
<1>3. tabs[p].thread \in used \cup {NoThread}
  BY DEF SessionInv, UsedOK, PageKnows
<1> QED BY <1>1, <1>2, <1>3, WorkAdmissible, MoveStep

\* From work, a tab that keeps its thread may become idle with any answer.
LEMMA IdleAdmissible ==
  ASSUME SessionInv, NEW p \in Tab, tabs[p].phase \in Working, NEW a \in Answer \cup {NoAnswer},
         NEW new, new = [tabs[p] EXCEPT !.phase = "idle", !.last = a]
  PROVE  Admissible(p, new) /\ Keeps(tabs[p], new) /\ new.thread = tabs[p].thread
<1>1. tabs[p] \in Page /\ PageOK(tabs[p])
  BY DEF SessionInv, TypesOK, PagesOK
<1>2. /\ new \in Page /\ new.phase = "idle" /\ new.thread = tabs[p].thread
      /\ new.bound = tabs[p].bound /\ new.shown = tabs[p].shown /\ new.met = tabs[p].met
      /\ new.recovered = tabs[p].recovered /\ Keeps(tabs[p], new)
  BY <1>1 DEF Page, Phase, Keeps
<1> QED BY <1>1, <1>2 DEF Admissible, PageOK, Working

LEMMA LastAnswerType ==
  ASSUME SessionInv, NEW t \in Thread
  PROVE  LastAnswer(t) \in Answer \cup {NoAnswer}
  BY DEF SessionInv, TypesOK, LastAnswer, Answer

LEMMA StopAdmissible ==
  ASSUME SessionInv, NEW p \in Tab, tabs[p].phase = "running",
         NEW new, new = [tabs[p] EXCEPT !.phase = "idle"]
  PROVE  Admissible(p, new) /\ Keeps(tabs[p], new) /\ new.thread = tabs[p].thread
<1>1. tabs[p] \in Page
  BY DEF SessionInv, TypesOK
<1>2. new = [tabs[p] EXCEPT !.phase = "idle", !.last = tabs[p].last]
  BY <1>1 DEF Page
<1>3. tabs[p].last \in Answer \cup {NoAnswer}
  BY <1>1 DEF Page
<1>4. tabs[p].phase \in Working
  BY DEF Working
<1>5. PICK a \in Answer \cup {NoAnswer} : a = tabs[p].last
  BY <1>3
<1> QED BY <1>2, <1>4, <1>5, IdleAdmissible

LEMMA StoppedMoves ==
  ASSUME SessionInv, NEW p \in Tab, NEW under, Stopped(p, under)
  PROVE  /\ ServerMoves /\ used' = used /\ live' = live
         /\ Render(p, [tabs[p] EXCEPT !.phase = "idle"], under)
  BY DEF Stopped, SessionInv, TypesOK, UsedOK, ServerMoves

LEMMA NextStopStream ==
  ASSUME SessionInv, NEW p \in Tab, StopStream(p)  PROVE SessionInv'
<1>1. PICK new : new = [tabs[p] EXCEPT !.phase = "idle"]
  OBVIOUS
<1>2. tabs[p].phase = "running" /\ Stopped(p, ops)
  BY DEF StopStream
<1>3. Render(p, new, ops) /\ ServerMoves /\ used' = used
  BY <1>1, <1>2, StoppedMoves
<1>4. tabs[p].thread \in used \cup {NoThread}
  BY DEF SessionInv, UsedOK, PageKnows
<1> QED BY <1>1, <1>2, <1>3, <1>4, StopAdmissible, MoveStep

\* A thread that the server creates was never there before.
LEMMA NextCreated ==
  ASSUME SessionInv, NEW p \in Tab, Created(p)  PROVE SessionInv'
<1>1. PICK t \in Thread \ used :
        /\ live' = live \cup {t} /\ used' = used \cup {t} /\ busy' = busy \cup {t}
        /\ stored' = t /\ Render(p, [tabs[p] EXCEPT !.thread = t, !.bound = t], ops)
  BY DEF Created
<1>2. ServerMoves
  BY <1>1 DEF Created, SessionInv, TypesOK, ServerMoves
<1>3. PICK new : new = [tabs[p] EXCEPT !.thread = t, !.bound = t]
  OBVIOUS
<1>4. tabs[p] \in Page /\ PageOK(tabs[p]) /\ tabs[p].phase = "running"
  BY DEF SessionInv, TypesOK, PagesOK, Created
<1>5. /\ new \in Page /\ new.phase = "running" /\ new.thread = t /\ new.bound = t
      /\ new.shown = tabs[p].shown /\ new.met = tabs[p].met
      /\ new.recovered = tabs[p].recovered /\ Keeps(tabs[p], new)
  BY <1>3, <1>4 DEF Page, Keeps
<1>6. Admissible(p, new)
  BY <1>4, <1>5 DEF Admissible, PageOK, Working
<1>7. Render(p, new, ops) /\ new.thread \in used' \cup {NoThread}
  BY <1>1, <1>3, <1>5
<1> QED BY <1>2, <1>5, <1>6, <1>7, MoveStep

\* An error of the stream: a missing thread is left, or was left before.
LEMMA FailsStep ==
  ASSUME SessionInv, NEW p \in Tab, tabs[p].phase \in Working,
         NEW error \in {"missing", "other"},
         error = "missing" => tabs[p].bound # NoThread,
         Fails(p, error), UNCHANGED server
  PROVE  SessionInv'
<1>1. /\ tabs[p] \in Page /\ PageOK(tabs[p]) /\ tabs[p].thread = tabs[p].bound
      /\ tabs[p].thread \in used \cup {NoThread} /\ tabs[p].thread \in Thread \cup {NoThread}
      /\ stored \in used \cup {NoThread} /\ tabs[p].met \subseteq Thread
  BY DEF SessionInv, TypesOK, PagesOK, PageOK, UsedOK, PageKnows, Page
<1>2. CASE MissingThread(tabs[p], error) /\ Recoverable(tabs[p])
  <2>1. PICK left : left = Bind(tabs[p], NoThread)
    OBVIOUS
  <2>2. PICK new : new = [left EXCEPT !.recovered = tabs[p].thread,
                                      !.met = @ \cup {tabs[p].thread}]
    OBVIOUS
  <2>3. Render(p, new, ops) /\ stored' = NoThread
    BY <1>2, <2>1, <2>2 DEF Fails
  <2>4. tabs[p].thread \in Thread
    BY <1>1, <1>2 DEF MissingThread
  <2>5. /\ left \in Page /\ left.thread = NoThread /\ left.bound = NoThread
        /\ left.phase # "failed" /\ left.phase # "hydrating"
        /\ left.shown = tabs[p].shown /\ left.met = tabs[p].met
        /\ Keeps(tabs[p], left)
    <3>1. tabs[p].bound # NoThread
      BY <1>1, <2>4, SessionConstants
    <3> QED BY <1>1, <2>1, <3>1, BindFacts DEF Keeps
  <2>6. /\ new \in Page /\ new.thread = NoThread /\ new.bound = NoThread
        /\ new.phase = left.phase /\ new.shown = tabs[p].shown
        /\ new.recovered = tabs[p].thread /\ tabs[p].thread \in new.met
        /\ Keeps(tabs[p], new)
    BY <2>2, <2>4, <2>5 DEF Page, Keeps
  <2>7. Admissible(p, new)
    BY <2>5, <2>6 DEF Admissible, PageOK
  <2> QED BY <2>3, <2>6, <2>7, ServerStays, MoveStep
<1>3. CASE ~(MissingThread(tabs[p], error) /\ Recoverable(tabs[p]))
  <2>1. PICK new : new = [tabs[p] EXCEPT !.phase = "failed", !.error = error]
    OBVIOUS
  <2>2. Render(p, new, ops) /\ stored' = stored
    BY <1>3, <2>1 DEF Fails
  <2>3. /\ new \in Page /\ new.phase = "failed" /\ new.error = error
        /\ new.thread = tabs[p].thread /\ new.bound = tabs[p].bound
        /\ new.shown = tabs[p].shown /\ new.met = tabs[p].met
        /\ new.recovered = tabs[p].recovered /\ Keeps(tabs[p], new)
    BY <1>1, <2>1 DEF Page, Phase, Keeps
  <2>4. error = "missing" => tabs[p].recovered = tabs[p].thread /\ tabs[p].thread # NoThread
    BY <1>1, <1>3 DEF MissingThread, Recoverable
  <2>5. Admissible(p, new)
    BY <1>1, <2>3, <2>4 DEF Admissible, PageOK
  <2>6. ServerMoves /\ used' = used
    BY <1>1, <2>2, ServerStays DEF server
  <2> QED BY <1>1, <2>2, <2>3, <2>5, <2>6, MoveStep
<1> QED BY <1>2, <1>3

LEMMA NextHydrate ==
  ASSUME SessionInv, NEW p \in Tab, Hydrate(p)  PROVE SessionInv'
<1>1. tabs[p].phase = "hydrating" /\ tabs[p].phase \in Working /\ UNCHANGED server
  BY DEF Hydrate, Working
<1>2. /\ tabs[p] \in Page /\ PageOK(tabs[p]) /\ tabs[p].thread = tabs[p].bound
      /\ tabs[p].bound # NoThread /\ tabs[p].thread \in used \cup {NoThread}
      /\ tabs[p].bound \in Thread /\ stored \in used \cup {NoThread}
  BY <1>1 DEF SessionInv, TypesOK, PagesOK, PageOK, UsedOK, PageKnows, Page
<1>3. PICK a : a = LastAnswer(tabs[p].bound)
  OBVIOUS
<1>4. PICK t : t = tabs[p].bound
  OBVIOUS
<1>5. a \in Answer \cup {NoAnswer}
  BY <1>2, <1>3, LastAnswerType
<1>6. ASSUME t \in live, stored' = stored,
             Render(p, [tabs[p] EXCEPT !.phase = IF t \in busy THEN "running" ELSE "idle",
                                       !.last = a], ops)
      PROVE  SessionInv'
  <2>1. PICK new : new = [tabs[p] EXCEPT !.phase = IF t \in busy THEN "running" ELSE "idle",
                                         !.last = a]
    OBVIOUS
  <2>2. /\ new \in Page /\ new.phase \in {"running", "idle"}
        /\ new.thread = tabs[p].thread /\ new.bound = tabs[p].bound
        /\ new.shown = tabs[p].shown /\ new.met = tabs[p].met
        /\ new.recovered = tabs[p].recovered /\ Keeps(tabs[p], new)
    BY <1>2, <1>5, <2>1 DEF Page, Phase, Keeps
  <2>3. Admissible(p, new)
    BY <1>1, <1>2, <2>2 DEF Admissible, PageOK
  <2>4. ServerMoves /\ used' = used
    BY <1>1, <1>2, <1>6, ServerStays DEF server
  <2> QED BY <1>2, <1>6, <2>1, <2>2, <2>3, <2>4, MoveStep
<1>7. Fails(p, "missing") => SessionInv'
  BY <1>1, <1>2, FailsStep
<1>8. Fails(p, "other") => SessionInv'
  BY <1>1, <1>2, FailsStep
<1> QED BY <1>3, <1>4, <1>6, <1>7, <1>8 DEF Hydrate

LEMMA NextRunSeen ==
  ASSUME SessionInv, NEW p \in Tab, RunSeen(p)  PROVE SessionInv'
<1>1. /\ tabs[p].phase = "running" /\ tabs[p].phase \in Working /\ UNCHANGED server
      /\ tabs[p].bound # NoThread
  BY DEF RunSeen, Working
<1>2. /\ tabs[p] \in Page /\ tabs[p].thread \in used \cup {NoThread}
      /\ tabs[p].bound \in Thread /\ stored \in used \cup {NoThread}
  BY <1>1 DEF SessionInv, TypesOK, UsedOK, PageKnows, Page
<1>3. PICK a : a = LastAnswer(tabs[p].bound)
  OBVIOUS
<1>5. a \in Answer \cup {NoAnswer}
  BY <1>2, <1>3, LastAnswerType
<1>6. ASSUME stored' = stored, Render(p, [tabs[p] EXCEPT !.phase = "idle", !.last = a], ops)
      PROVE  SessionInv'
  <2>1. PICK new : new = [tabs[p] EXCEPT !.phase = "idle", !.last = a]
    OBVIOUS
  <2>2. Admissible(p, new) /\ Keeps(tabs[p], new) /\ new.thread = tabs[p].thread
    BY <1>1, <1>5, <2>1, IdleAdmissible
  <2>3. ServerMoves /\ used' = used
    BY <1>1, <1>2, <1>6, ServerStays DEF server
  <2> QED BY <1>2, <1>6, <2>1, <2>2, <2>3, MoveStep
<1>7. Fails(p, "missing") => SessionInv'
  BY <1>1, FailsStep
<1>8. Fails(p, "other") => SessionInv'
  BY <1>1, FailsStep
<1> QED BY <1>3, <1>6, <1>7, <1>8 DEF RunSeen

-----------------------------------------------------------------------------
\* The server and the other tabs.

LEMMA EnvironmentStep ==
  ASSUME SessionInv, ServerMoves, UNCHANGED <<tabs, ops, asked>>
  PROVE  SessionInv'
<1>1. TypesOK' /\ PagesOK' /\ AskedOK' /\ SidebarsOK'
  BY DEF SessionInv, TypesOK, ServerMoves, PagesOK, AskedOK, SidebarsOK
<1>2. UsedOK'
  BY KnowsMore DEF SessionInv, UsedOK, ServerMoves
<1> QED BY <1>1, <1>2 DEF SessionInv

LEMMA NextEnvironment ==
  ASSUME SessionInv,
         \/ SelectedElsewhere \/ DeletedElsewhere
         \/ \E t \in Thread : RunAnswers(t) \/ RunFails(t)
  PROVE  SessionInv'
<1>1. ASSUME SelectedElsewhere PROVE ServerMoves /\ UNCHANGED <<tabs, ops, asked>>
  BY <1>1 DEF SelectedElsewhere, SessionInv, TypesOK, UsedOK, ServerMoves, server
<1>2. ASSUME DeletedElsewhere PROVE ServerMoves /\ UNCHANGED <<tabs, ops, asked>>
  BY <1>2 DEF DeletedElsewhere, SessionInv, TypesOK, UsedOK, ServerMoves
<1>3. ASSUME NEW t \in Thread, RunAnswers(t)
      PROVE  ServerMoves /\ UNCHANGED <<tabs, ops, asked>>
  <2>1. answers' \in [Thread -> 0 .. MaxAnswers]
    BY <1>3, SessionConstants DEF RunAnswers, SessionInv, TypesOK
  <2> QED BY <1>3, <2>1 DEF RunAnswers, SessionInv, TypesOK, UsedOK, ServerMoves
<1>4. ASSUME NEW t \in Thread, RunFails(t)
      PROVE  ServerMoves /\ UNCHANGED <<tabs, ops, asked>>
  BY <1>4 DEF RunFails, SessionInv, TypesOK, UsedOK, ServerMoves
<1> QED BY <1>1, <1>2, <1>3, <1>4, EnvironmentStep

-----------------------------------------------------------------------------
\* Operations under way.

\* A change of the operations and of nothing that the suggestions depend on.
SamePage(old, new) ==
  /\ new.thread = old.thread /\ new.bound = old.bound /\ new.phase = old.phase
  /\ new.error = old.error /\ new.last = old.last /\ new.shown = old.shown
  /\ new.recovered = old.recovered /\ new.met = old.met

LEMMA OpsStep ==
  ASSUME SessionInv, ServerMoves, UNCHANGED asked, ops' \in Seq(Operation),
         tabs' \in [Tab -> Page],
         \A q \in Tab : SamePage(tabs[q], tabs'[q]) /\ PageKnows(tabs'[q], used', live')
                          /\ InSidebar(tabs'[q], ops', q),
         \A i \in DOMAIN ops' : OperationOK(ops'[i], used', live')
  PROVE  SessionInv'
<1>1. TypesOK'
  BY DEF SessionInv, TypesOK, ServerMoves
<1>2. PagesOK'
  BY DEF SessionInv, PagesOK, PageOK, Follows, SamePage
<1>3. AskedOK'
  <2>1. asked \in Seq(SuggestionRequest)
    BY DEF SessionInv, TypesOK
  <2>2. \A i \in DOMAIN asked : asked[i] \in SuggestionRequest
    BY <2>1, DomainOfSeq, ElementOfSeq
  <2>3. \A i \in DOMAIN asked : asked[i].tab \in Tab
    BY <2>2 DEF SuggestionRequest
  <2> QED BY <2>3 DEF SessionInv, AskedOK, Follows, SamePage
<1>4. UsedOK' /\ SidebarsOK'
  BY DEF UsedOK, SidebarsOK, ServerMoves, InSidebar
<1> QED BY <1>1, <1>2, <1>3, <1>4 DEF SessionInv

LEMMA OpsFacts ==
  ASSUME SessionInv
  PROVE  /\ ops \in Seq(Operation) /\ DOMAIN ops = 1 .. Len(ops) /\ Len(ops) \in Nat
         /\ \A i \in DOMAIN ops : ops[i] \in Operation /\ ops[i].tab \in Tab
                                    /\ OperationOK(ops[i], used, live)
         /\ \A q \in Tab : InSidebar(tabs[q], ops, q) /\ PageKnows(tabs[q], used, live)
<1>1. ops \in Seq(Operation)
  BY DEF SessionInv, TypesOK
<1>2. DOMAIN ops = 1 .. Len(ops) /\ Len(ops) \in Nat
  BY <1>1, DomainOfSeq
<1>3. \A i \in DOMAIN ops : ops[i] \in Operation
  BY <1>1, <1>2, ElementOfSeq
<1>4. \A op \in Operation : op.tab \in Tab
  BY DEF Operation
<1> QED BY <1>1, <1>2, <1>3, <1>4 DEF SessionInv, UsedOK, SidebarsOK, InSidebar

LEMMA StartStep ==
  ASSUME SessionInv, NEW op \in Operation, op.kind # "search",
         OperationOK(op, used, live), ops' = Append(ops, op),
         UNCHANGED <<server, stored, tabs, asked>>
  PROVE  SessionInv'
<1>1. /\ ops \in Seq(Operation) /\ DOMAIN ops = 1 .. Len(ops) /\ Len(ops) \in Nat
      /\ \A i \in DOMAIN ops : OperationOK(ops[i], used, live)
      /\ \A q \in Tab : InSidebar(tabs[q], ops, q) /\ PageKnows(tabs[q], used, live)
  BY OpsFacts
<1>2. /\ ops' \in Seq(Operation) /\ DOMAIN ops' = 1 .. Len(ops) + 1
      /\ \A k \in 1 .. Len(ops) : ops'[k] = ops[k]
      /\ ops'[Len(ops) + 1] = op
  BY <1>1, AppendFacts
<1>3. \A q, gone, history : Covered(ops, q, gone, history) => Covered(ops', q, gone, history)
  BY <1>1, AppendCovers DEF InTurn
<1>4. ServerMoves /\ used' = used /\ live' = live
  BY ServerStays DEF SessionInv, UsedOK, server
<1>5. \A i \in DOMAIN ops' : OperationOK(ops'[i], used', live')
  BY <1>1, <1>2, <1>4
<1>6. tabs' = tabs /\ tabs \in [Tab -> Page] /\ asked' = asked
  BY DEF SessionInv, TypesOK
<1>7. \A q \in Tab : SamePage(tabs[q], tabs[q]) /\ InSidebar(tabs[q], ops', q)
  BY <1>1, <1>3 DEF SamePage, InSidebar
<1> QED BY <1>1, <1>2, <1>4, <1>5, <1>6, <1>7, OpsStep

LEMMA DeletionFacts ==
  ASSUME SessionInv, NEW p \in Tab, NEW kind \in {"clear", "delete"},
         NEW t \in used \cup {NoThread}, NEW op, op = Deletion(p, kind, t)
  PROVE  /\ op \in Operation /\ op.kind = kind /\ op.tab = p /\ op.thread = t
         /\ op.seen = tabs[p].history /\ op.stage = "sent" /\ op.answer = {}
         /\ OperationOK(op, used, live)
<1>1. tabs[p].history \subseteq used /\ used \subseteq Thread
  BY DEF SessionInv, TypesOK, UsedOK, PageKnows
<1>2. /\ op \in Operation /\ op.kind = kind /\ op.tab = p /\ op.thread = t
      /\ op.seen = tabs[p].history /\ op.stage = "sent" /\ op.answer = {}
  BY <1>1 DEF Deletion, Search, Operation
<1> QED BY <1>1, <1>2 DEF OperationOK

LEMMA NextDeleteThread ==
  ASSUME SessionInv, NEW p \in Tab, DeleteThread(p)  PROVE SessionInv'
<1>1. PICK t \in tabs[p].history : Start(Deletion(p, "delete", t))
  BY DEF DeleteThread
<1>2. PICK op : op = Deletion(p, "delete", t)
  OBVIOUS
<1>3. t \in used \cup {NoThread}
  BY DEF SessionInv, UsedOK, PageKnows
<1>4. op \in Operation /\ op.kind # "search" /\ OperationOK(op, used, live)
  BY <1>2, <1>3, DeletionFacts
<1>5. ops' = Append(ops, op) /\ UNCHANGED <<server, stored, tabs, asked>>
  BY <1>1, <1>2 DEF Start, DeleteThread
<1> QED BY <1>4, <1>5, StartStep

LEMMA NextClearChat ==
  ASSUME SessionInv, NEW p \in Tab, ClearChat(p)  PROVE SessionInv'
<1>1. PICK sent : sent = Deletion(p, "clear", tabs[p].thread)
  OBVIOUS
<1>2. PICK op : op = [sent EXCEPT !.stage = IF tabs[p].phase = "running" THEN "stopping" ELSE @]
  OBVIOUS
<1>3. tabs[p].thread \in used \cup {NoThread}
  BY DEF SessionInv, UsedOK, PageKnows
<1>4. PICK t \in used \cup {NoThread} : t = tabs[p].thread
  BY <1>3
<1>5. /\ sent \in Operation /\ sent.kind = "clear" /\ sent.stage = "sent"
      /\ OperationOK(sent, used, live)
  BY <1>1, <1>4, DeletionFacts
<1>6. /\ op \in Operation /\ op.kind = "clear" /\ op.stage \in {"sent", "stopping"}
      /\ op.thread = sent.thread /\ op.seen = sent.seen /\ op.answer = sent.answer
  BY <1>2, <1>5 DEF Operation
<1>7. OperationOK(op, used, live)
  BY <1>5, <1>6 DEF OperationOK
<1>8. ops' = Append(ops, op) /\ UNCHANGED <<server, stored, tabs, asked>>
  BY <1>1, <1>2 DEF Start, ClearChat
<1> QED BY <1>6, <1>7, <1>8, StartStep

\* An operation under way changes its stage; what it covers stays covered.
LEMMA ReplacedCovers ==
  ASSUME NEW s \in Seq(Operation), NEW i \in DOMAIN s, NEW op \in Operation,
         NEW t, t = [s EXCEPT ![i] = op], NEW q, NEW gone, NEW history,
         Covered(s, q, gone, history),
         InTurn(op, q) <=> InTurn(s[i], q),
         InTurn(op, q) /\ Clean(s[i], gone) => Clean(op, gone)
  PROVE  Covered(t, q, gone, history)
<1>1. /\ DOMAIN t = DOMAIN s /\ t[i] = op
      /\ \A j \in DOMAIN s : j # i => t[j] = s[j]
  BY DomainOfSeq
<1>2. \A j \in DOMAIN s : /\ InTurn(t[j], q) <=> InTurn(s[j], q)
                          /\ InTurn(t[j], q) /\ Clean(s[j], gone) => Clean(t[j], gone)
  BY <1>1
<1>3. gone \cap history # {} => \E j \in DOMAIN t : InTurn(t[j], q) /\ Clean(t[j], gone)
  BY <1>1, <1>2 DEF Covered
<1>4. ASSUME NEW k \in DOMAIN t, InTurn(t[k], q), ~Clean(t[k], gone)
      PROVE  \E j \in DOMAIN t : k < j /\ InTurn(t[j], q) /\ Clean(t[j], gone)
  <2>1. PICK j \in DOMAIN s : k < j /\ InTurn(s[j], q) /\ Clean(s[j], gone)
    BY <1>1, <1>2, <1>4 DEF Covered
  <2> QED BY <1>1, <1>2, <2>1
<1> QED BY <1>3, <1>4 DEF Covered

LEMMA ReplacedType ==
  ASSUME NEW s \in Seq(Operation), NEW i \in DOMAIN s, NEW op \in Operation,
         NEW had, NEW has, OperationOK(op, had, has),
         \A j \in DOMAIN s : OperationOK(s[j], had, has),
         NEW t, t = [s EXCEPT ![i] = op]
  PROVE  t \in Seq(Operation) /\ \A j \in DOMAIN t : OperationOK(t[j], had, has)
<1>1. DOMAIN t = DOMAIN s /\ t[i] = op /\ \A j \in DOMAIN s : j # i => t[j] = s[j]
  BY DomainOfSeq
<1>2. DOMAIN s = 1 .. Len(s)
  BY DomainOfSeq
<1> QED BY <1>1, <1>2, ExceptSeq

LEMMA NextStopForClear ==
  ASSUME SessionInv, NEW i \in DOMAIN ops, StopForClear(i)  PROVE SessionInv'
<1> DEFINE p == ops[i].tab
<1>1. /\ ops \in Seq(Operation) /\ ops[i] \in Operation /\ p \in Tab
      /\ \A j \in DOMAIN ops : OperationOK(ops[j], used, live)
      /\ \A q \in Tab : InSidebar(tabs[q], ops, q) /\ PageKnows(tabs[q], used, live)
  BY OpsFacts
<1>2. PICK op : op = [ops[i] EXCEPT !.stage = "sent"]
  OBVIOUS
<1>3. PICK on : on = [ops EXCEPT ![i] = op]
  OBVIOUS
<1>4. on = [ops EXCEPT ![i].stage = "sent"]
  BY <1>2, <1>3
<1>5. ops[i].stage = "stopping" /\ ops[i].kind = "clear"
  BY <1>1 DEF StopForClear, OperationOK
<1>6. /\ op \in Operation /\ op.kind = "clear" /\ op.stage = "sent"
      /\ op.thread = ops[i].thread /\ op.seen = ops[i].seen /\ op.answer = ops[i].answer
  BY <1>1, <1>2, <1>5 DEF Operation
<1>7. OperationOK(op, used, live)
  BY <1>1, <1>6 DEF OperationOK
<1>8. on \in Seq(Operation) /\ \A j \in DOMAIN on : OperationOK(on[j], used, live)
  BY <1>1, <1>3, <1>6, <1>7, ReplacedType
<1>9. \A q, gone, history : Covered(ops, q, gone, history) => Covered(on, q, gone, history)
  <2>1. \A q : ~InTurn(op, q) /\ ~InTurn(ops[i], q)
    BY <1>5, <1>6 DEF InTurn
  <2> QED BY <1>1, <1>3, <1>6, <2>1, ReplacedCovers
<1>10. \A q \in Tab : InSidebar(tabs[q], on, q)
  BY <1>1, <1>9 DEF InSidebar
<1>11. CASE tabs[p].phase = "running"
  <2>1. PICK new : new = [tabs[p] EXCEPT !.phase = "idle"]
    OBVIOUS
  <2>2. Stopped(p, on)
    BY <1>4, <1>11 DEF StopForClear
  <2>3. ServerMoves /\ used' = used /\ live' = live /\ Render(p, new, on)
    BY <1>1, <2>1, <2>2, StoppedMoves
  <2>4. Admissible(p, new) /\ Keeps(tabs[p], new) /\ new.thread = tabs[p].thread
    BY <1>1, <1>11, <2>1, StopAdmissible
  <2>5. PageKnows(new, used', live') /\ InSidebar(new, on, p)
    BY <1>1, <1>10, <2>3, <2>4 DEF PageKnows, Keeps, InSidebar
  <2>6. \A j \in DOMAIN on : OperationOK(on[j], used', live')
    BY <1>8, <2>3
  <2> QED BY <1>1, <1>8, <1>10, <2>3, <2>4, <2>5, <2>6, RenderStep
<1>12. CASE tabs[p].phase # "running"
  <2>1. ops' = on /\ UNCHANGED <<server, stored, tabs, asked>>
    BY <1>4, <1>12 DEF StopForClear
  <2>2. ServerMoves /\ used' = used /\ live' = live
    BY <2>1, ServerStays DEF SessionInv, UsedOK, server
  <2>3. tabs' = tabs /\ tabs \in [Tab -> Page]
    BY <2>1 DEF SessionInv, TypesOK
  <2>4. \A q \in Tab : SamePage(tabs[q], tabs[q])
    BY DEF SamePage
  <2> QED BY <1>1, <1>8, <1>10, <2>1, <2>2, <2>3, <2>4, OpsStep
<1> QED BY <1>11, <1>12

\* What the server answers is clean: a thread that was deleted is not there.
LEMMA NextServe ==
  ASSUME SessionInv, NEW i \in DOMAIN ops, Serve(i)  PROVE SessionInv'
<1>1. /\ ops \in Seq(Operation) /\ ops[i] \in Operation
      /\ \A j \in DOMAIN ops : OperationOK(ops[j], used, live)
      /\ \A q \in Tab : InSidebar(tabs[q], ops, q) /\ PageKnows(tabs[q], used, live)
  BY OpsFacts
<1>2. PICK op : op = [ops[i] EXCEPT !.stage = "answered", !.answer = live]
  OBVIOUS
<1>3. ops' = [ops EXCEPT ![i] = op]
  BY <1>2 DEF Serve
<1>4. live \subseteq used /\ used \subseteq Thread /\ tabs \in [Tab -> Page]
  BY DEF SessionInv, TypesOK
<1>5. /\ op \in Operation /\ op.tab = ops[i].tab /\ op.kind = ops[i].kind
      /\ op.late = ops[i].late /\ op.stage = "answered" /\ op.answer = live
      /\ op.thread = ops[i].thread /\ op.seen = ops[i].seen
  BY <1>1, <1>2, <1>4 DEF Operation
<1>6. ServerMoves
  BY DEF Serve, SessionInv, TypesOK, UsedOK, ServerMoves
<1>7. op.kind # "search" => op.thread \notin live'
  BY <1>5 DEF Serve
<1>8. /\ \A j \in DOMAIN ops : OperationOK(ops[j], used', live')
      /\ \A q \in Tab : PageKnows(tabs[q], used', live')
  BY <1>1, <1>6, KnowsMore DEF SessionInv
<1>9. OperationOK(op, used', live')
  BY <1>1, <1>4, <1>5, <1>6, <1>7 DEF OperationOK, ServerMoves
<1>10. ops' \in Seq(Operation) /\ \A j \in DOMAIN ops' : OperationOK(ops'[j], used', live')
  BY <1>1, <1>3, <1>5, <1>8, <1>9, ReplacedType
<1>11. ASSUME NEW q \in Tab PROVE InSidebar(tabs[q], ops', q)
  <2>1. \A r : InTurn(op, r) <=> InTurn(ops[i], r)
    BY <1>5 DEF InTurn
  <2>2. Clean(op, tabs[q].gone)
    BY <1>1, <1>5 DEF Clean, PageKnows
  <2>3. Covered(ops, q, tabs[q].gone, tabs[q].history)
          => Covered(ops', q, tabs[q].gone, tabs[q].history)
    BY <1>1, <1>3, <1>5, <2>1, <2>2, ReplacedCovers
  <2> QED BY <1>1, <2>3 DEF InSidebar
<1>12. \A q \in Tab : SamePage(tabs[q], tabs[q])
  BY DEF SamePage
<1>13. tabs' = tabs /\ asked' = asked
  BY DEF Serve
<1> QED BY <1>4, <1>6, <1>8, <1>10, <1>11, <1>12, <1>13, OpsStep

\* An operation that is not a search of q in its turn may go.
LEMMA RemovedCovers ==
  ASSUME NEW s \in Seq(Operation), NEW i \in DOMAIN s, NEW t, t = RemoveAt(s, i),
         NEW q, NEW gone, NEW history, Covered(s, q, gone, history), ~InTurn(s[i], q)
  PROVE  Covered(t, q, gone, history)
<1>1. DOMAIN s = 1 .. Len(s) /\ Len(s) \in Nat
  BY DomainOfSeq
<1>2. ASSUME NEW j \in DOMAIN s, InTurn(s[j], q)
      PROVE  LET k == IF j < i THEN j ELSE j - 1
             IN  k \in DOMAIN t /\ t[k] = s[j]
  <2>1. j # i
    BY <1>2
  <2> HIDE DEF InTurn
  <2> QED BY <2>1, RemoveAtKeeps
<1>3. gone \cap history # {} => \E k \in DOMAIN t : InTurn(t[k], q) /\ Clean(t[k], gone)
  BY <1>2 DEF Covered
<1>4. ASSUME NEW k \in DOMAIN t, InTurn(t[k], q), ~Clean(t[k], gone)
      PROVE  \E l \in DOMAIN t : k < l /\ InTurn(t[l], q) /\ Clean(t[l], gone)
  <2> DEFINE j == IF k < i THEN k ELSE k + 1
  <2>1. j \in DOMAIN s /\ t[k] = s[j]
    BY RemoveAtKeeps
  <2>2. PICK m \in DOMAIN s : j < m /\ InTurn(s[m], q) /\ Clean(s[m], gone)
    BY <1>4, <2>1 DEF Covered
  <2> DEFINE l == IF m < i THEN m ELSE m - 1
  <2>3. l \in DOMAIN t /\ t[l] = s[m]
    BY <1>2, <2>2
  <2>4. m # i
    BY <2>2
  <2>5. DOMAIN t \subseteq Int
    <3>1. t \in Seq(Operation)
      BY RemoveAtKeeps
    <3> QED BY <3>1, DomainOfSeq
  <2>6. k < l
    BY <1>1, <2>1, <2>2, <2>4, <2>5
  <2> QED BY <2>2, <2>3, <2>6
<1> QED BY <1>3, <1>4 DEF Covered

LEMMA RemovedType ==
  ASSUME NEW s \in Seq(Operation), NEW i \in DOMAIN s, NEW t, t = RemoveAt(s, i),
         NEW had, NEW has, \A j \in DOMAIN s : OperationOK(s[j], had, has)
  PROVE  t \in Seq(Operation) /\ \A j \in DOMAIN t : OperationOK(t[j], had, has)
  BY RemoveAtKeeps

\* A search that is applied in its turn and is not clean has a clean one behind
\* it; the ones in front of it, of its tab, are late from now on.
LEMMA AppliedCovers ==
  ASSUME NEW s \in Seq(Operation), NEW i \in DOMAIN s, NEW rest \in Seq(Operation),
         DOMAIN rest = DOMAIN s, NEW p,
         \A j \in DOMAIN s : j >= i => rest[j] = s[j],
         \A j \in DOMAIN s : j < i => ~InTurn(rest[j], p),
         NEW t, t = RemoveAt(rest, i), NEW gone, NEW history,
         Covered(s, p, gone, history), InTurn(s[i], p), s[i].stage = "answered"
  PROVE  Covered(t, p, gone, s[i].answer)
<1>1. DOMAIN s = 1 .. Len(s) /\ Len(s) \in Nat
  BY DomainOfSeq
<1>2. ASSUME NEW j \in DOMAIN s, i < j
      PROVE  j - 1 \in DOMAIN t /\ t[j - 1] = s[j]
  <2>1. j \in DOMAIN rest /\ j # i /\ ~(j < i) /\ rest[j] = s[j]
    BY <1>1, <1>2
  <2>2. LET k == IF j < i THEN j ELSE j - 1
        IN  k \in DOMAIN t /\ t[k] = rest[j]
    BY <2>1, RemoveAtKeeps
  <2> QED BY <2>1, <2>2
<1>3. gone \cap s[i].answer # {} => \E k \in DOMAIN t : InTurn(t[k], p) /\ Clean(t[k], gone)
  <2>1. SUFFICES ASSUME gone \cap s[i].answer # {}
                 PROVE  \E k \in DOMAIN t : InTurn(t[k], p) /\ Clean(t[k], gone)
    OBVIOUS
  <2>2. ~Clean(s[i], gone)
    BY <2>1 DEF Clean
  <2>3. PICK m \in DOMAIN s : i < m /\ InTurn(s[m], p) /\ Clean(s[m], gone)
    BY <2>2 DEF Covered
  <2> QED BY <1>2, <2>3
<1>4. ASSUME NEW k \in DOMAIN t, InTurn(t[k], p), ~Clean(t[k], gone)
      PROVE  \E l \in DOMAIN t : k < l /\ InTurn(t[l], p) /\ Clean(t[l], gone)
  <2> DEFINE j == IF k < i THEN k ELSE k + 1
  <2>1. j \in DOMAIN s /\ t[k] = rest[j] /\ j # i
    BY RemoveAtKeeps
  <2>2. k \in Int /\ ~(k < i)
    <3>1. t \in Seq(Operation)
      BY RemoveAtKeeps
    <3>2. k \in Int
      BY <3>1, DomainOfSeq
    <3> QED BY <1>4, <2>1, <3>2
  <2>3. j = k + 1 /\ i < j
    BY <1>1, <2>1, <2>2
  <2>4. t[k] = s[j]
    BY <1>1, <2>1, <2>3
  <2> HIDE DEF j
  <2>5. PICK m \in DOMAIN s : j < m /\ InTurn(s[m], p) /\ Clean(s[m], gone)
    BY <1>4, <2>1, <2>4 DEF Covered
  <2>6. i < m /\ k < m - 1
    BY <1>1, <2>1, <2>2, <2>3, <2>5
  <2> QED BY <1>2, <2>5, <2>6
<1> QED BY <1>3, <1>4 DEF Covered

\* The operation ends, or goes on with a search.
LEMMA EndsFacts ==
  ASSUME SessionInv, ServerMoves, NEW i \in DOMAIN ops, NEW p, p = ops[i].tab,
         ops[i].kind # "search", NEW under, under = GoesOn(i)
  PROVE  /\ under \in Seq(Operation)
         /\ \A j \in DOMAIN under : OperationOK(under[j], used', live')
         /\ \A q \in Tab \ {p} : InSidebar(tabs[q], under, q)
         /\ \A page : InSidebar(page, under, p)
<1>1. /\ ops \in Seq(Operation) /\ ops[i] \in Operation /\ p \in Tab
      /\ \A j \in DOMAIN ops : OperationOK(ops[j], used', live')
      /\ \A q \in Tab : InSidebar(tabs[q], ops, q)
  BY OpsFacts, KnowsMore DEF SessionInv
<1>2. PICK rest : rest = RemoveAt(ops, i)
  OBVIOUS
<1>3. rest \in Seq(Operation) /\ \A j \in DOMAIN rest : OperationOK(rest[j], used', live')
  BY <1>1, <1>2, RemovedType
<1>4. /\ under = Append(rest, Search(p)) /\ Search(p) \in Operation
      /\ OperationOK(Search(p), used', live')
      /\ \A gone : Clean(Search(p), gone)
  BY <1>1, <1>2, SearchFacts DEF GoesOn
<1>5. under \in Seq(Operation) /\ \A j \in DOMAIN under : OperationOK(under[j], used', live')
  BY <1>3, <1>4, AppendFacts
<1>6. ASSUME NEW q \in Tab \ {p} PROVE InSidebar(tabs[q], under, q)
  <2>1. ~InTurn(ops[i], q)
    BY DEF InTurn
  <2>2. ASSUME NEW gone, NEW history, Covered(ops, q, gone, history)
        PROVE  Covered(under, q, gone, history)
    <3>1. Covered(rest, q, gone, history)
      BY <1>1, <1>2, <2>1, <2>2, RemovedCovers
    <3> QED BY <1>3, <1>4, <3>1, AppendCovers
  <2> QED BY <1>1, <2>2 DEF InSidebar
<1>7. \A page : InSidebar(page, under, p)
  BY <1>1, <1>3, <1>4, SearchCovers DEF InSidebar
<1> QED BY <1>5, <1>6, <1>7

\* A thread that was deleted is not there any more.
LEMMA GoneFacts ==
  ASSUME SessionInv, NEW i \in DOMAIN ops, ops[i].kind # "search",
         ops[i].stage = "answered", NEW page \in Page, PageKnows(page, used, live),
         NEW new, new = Gone(page, i)
  PROVE  /\ new \in Page /\ PageKnows(new, used, live) /\ SamePage(page, new)
         /\ new.history = page.history
<1>1. /\ ops[i].thread \in used \cup {NoThread} /\ ops[i].thread \notin live
      /\ used \subseteq Thread
  BY DEF SessionInv, TypesOK, UsedOK, OperationOK
<1>2. PICK gone : gone = page.gone \cup ({ops[i].thread} \ {NoThread})
  OBVIOUS
<1>3. gone \subseteq used \ live
  BY <1>1, <1>2 DEF PageKnows
<1>4. new = [page EXCEPT !.gone = gone]
  BY <1>2 DEF Gone
<1>5. gone \subseteq Thread
  BY <1>1, <1>3
<1>6. /\ new \in Page /\ SamePage(page, new) /\ new.history = page.history
      /\ new.gone = gone
  BY <1>4, <1>5 DEF Page, SamePage
<1> QED BY <1>3, <1>6 DEF PageKnows, SamePage

LEMMA NextCleared ==
  ASSUME SessionInv, NEW i \in DOMAIN ops, Cleared(i)  PROVE SessionInv'
<1>1. PICK p : p = ops[i].tab
  OBVIOUS
<1>2. p \in Tab /\ ops[i].kind # "search" /\ ops[i].stage = "answered"
  BY <1>1, OpsFacts DEF Cleared
<1>3. /\ tabs[p] \in Page /\ PageKnows(tabs[p], used, live)
      /\ ops[i].seen \subseteq used /\ used \subseteq Thread
      /\ \A q \in Tab : PageKnows(tabs[q], used, live)
  BY <1>2 DEF SessionInv, TypesOK, UsedOK, OperationOK
<1>4. PICK left : left = Bind(tabs[p], NoThread)
  OBVIOUS
<1>5. PICK page : page = [left EXCEPT !.history = ops[i].seen]
  OBVIOUS
<1>6. PICK new : new = Gone(page, i)
  OBVIOUS
<1>7. PICK under : under = GoesOn(i)
  OBVIOUS
<1>8. Render(p, new, under) /\ ServerMoves /\ used' = used /\ live' = live
  BY <1>1, <1>4, <1>5, <1>6, <1>7, ServerStays DEF Cleared, server
<1>9. left \in Page /\ Admissible(p, left) /\ left.thread = NoThread /\ left.gone = tabs[p].gone
  BY <1>2, <1>3, <1>4, BindAdmissible DEF Admissible, Keeps
<1>10. /\ page \in Page /\ SamePage(left, page) /\ page.history = ops[i].seen
       /\ page.gone = left.gone
  BY <1>3, <1>5, <1>9 DEF Page, SamePage
<1>11. PageKnows(page, used, live)
  BY <1>3, <1>9, <1>10 DEF PageKnows, SamePage
<1>12. new \in Page /\ PageKnows(new, used, live) /\ SamePage(page, new)
  BY <1>2, <1>6, <1>10, <1>11, GoneFacts
<1>13. Admissible(p, new)
  BY <1>9, <1>10, <1>12 DEF Admissible, PageOK, SamePage
<1>14. /\ under \in Seq(Operation)
       /\ \A j \in DOMAIN under : OperationOK(under[j], used', live')
       /\ \A q \in Tab \ {p} : InSidebar(tabs[q], under, q)
       /\ InSidebar(new, under, p)
  BY <1>1, <1>2, <1>7, <1>8, EndsFacts
<1> QED BY <1>2, <1>8, <1>12, <1>13, <1>14, RenderStep

LEMMA NextDeleted ==
  ASSUME SessionInv, NEW i \in DOMAIN ops, Deleted(i)  PROVE SessionInv'
<1>1. PICK p : p = ops[i].tab
  OBVIOUS
<1>2. p \in Tab /\ ops[i].kind # "search" /\ ops[i].stage = "answered"
  BY <1>1, OpsFacts DEF Deleted
<1>3. /\ tabs \in [Tab -> Page] /\ \A q \in Tab : PageKnows(tabs[q], used, live)
      /\ stored \in used \cup {NoThread}
  BY DEF SessionInv, TypesOK, UsedOK
<1>4. PICK new : new = Gone(tabs[p], i)
  OBVIOUS
<1>5. ServerMoves /\ used' = used /\ live' = live /\ asked' = asked
  BY <1>3, ServerStays DEF Deleted, server
<1>6. ops' = GoesOn(i) /\ tabs' = [tabs EXCEPT ![p] = new]
  BY <1>1, <1>4 DEF Deleted
<1>7. new \in Page /\ PageKnows(new, used, live) /\ SamePage(tabs[p], new)
  BY <1>2, <1>3, <1>4, GoneFacts
<1>8. /\ tabs' \in [Tab -> Page] /\ tabs'[p] = new
      /\ \A q \in Tab \ {p} : tabs'[q] = tabs[q]
  BY <1>2, <1>3, <1>6, <1>7
<1>9. /\ ops' \in Seq(Operation)
      /\ \A j \in DOMAIN ops' : OperationOK(ops'[j], used', live')
      /\ \A q \in Tab \ {p} : InSidebar(tabs[q], ops', q)
      /\ InSidebar(new, ops', p)
  BY <1>1, <1>2, <1>5, <1>6, EndsFacts
<1>10. \A q \in Tab : SamePage(tabs[q], tabs'[q]) /\ PageKnows(tabs'[q], used', live')
                        /\ InSidebar(tabs'[q], ops', q)
  BY <1>3, <1>5, <1>7, <1>8, <1>9 DEF SamePage
<1> QED BY <1>5, <1>8, <1>9, <1>10, OpsStep

\* A search or the answer to a deletion that is lost leaves its mark.
LEMMA NextOpLost ==
  ASSUME SessionInv, NEW i \in DOMAIN ops, OpLost(i)  PROVE SessionInv'
<1>1. PICK p : p = ops[i].tab
  OBVIOUS
<1>2. /\ ops \in Seq(Operation) /\ p \in Tab
      /\ \A j \in DOMAIN ops : OperationOK(ops[j], used, live)
      /\ \A q \in Tab : InSidebar(tabs[q], ops, q) /\ PageKnows(tabs[q], used, live)
  BY <1>1, OpsFacts
<1>3. tabs \in [Tab -> Page] /\ stored \in used \cup {NoThread}
  BY DEF SessionInv, TypesOK, UsedOK
<1>4. ServerMoves /\ used' = used /\ live' = live /\ asked' = asked
  BY <1>3, ServerStays DEF OpLost, server
<1>5. PICK new : new = [tabs[p] EXCEPT !.lost = TRUE]
  OBVIOUS
<1>6. ops' = RemoveAt(ops, i) /\ tabs' = [tabs EXCEPT ![p] = new]
  BY <1>1, <1>5 DEF OpLost
<1>7. /\ new \in Page /\ SamePage(tabs[p], new) /\ new.lost
      /\ new.history = tabs[p].history /\ new.gone = tabs[p].gone
  <2>1. tabs[p] \in Page
    BY <1>2, <1>3
  <2> QED BY <1>5, <2>1 DEF Page, SamePage
<1>8. /\ tabs' \in [Tab -> Page] /\ tabs'[p] = new
      /\ \A q \in Tab \ {p} : tabs'[q] = tabs[q]
  BY <1>2, <1>3, <1>6, <1>7
<1>9. ops' \in Seq(Operation) /\ \A j \in DOMAIN ops' : OperationOK(ops'[j], used', live')
  BY <1>2, <1>4, <1>6, RemovedType
<1>10. ASSUME NEW q \in Tab \ {p} PROVE InSidebar(tabs[q], ops', q)
  <2>1. ~InTurn(ops[i], q)
    BY <1>1 DEF InTurn
  <2>2. \A gone, history : Covered(ops, q, gone, history) => Covered(ops', q, gone, history)
    BY <1>2, <1>6, <2>1, RemovedCovers
  <2> QED BY <1>2, <2>2 DEF InSidebar
<1>11. \A q \in Tab : SamePage(tabs[q], tabs'[q]) /\ InSidebar(tabs'[q], ops', q)
  BY <1>7, <1>8, <1>10 DEF SamePage, InSidebar
<1>12. \A q \in Tab : PageKnows(tabs'[q], used', live')
  BY <1>2, <1>4, <1>7, <1>8 DEF PageKnows, SamePage
<1> QED BY <1>4, <1>8, <1>9, <1>11, <1>12, OpsStep

\* What happens to the operations of another tab harms no one.
LEMMA ElsewhereCovers ==
  ASSUME NEW s \in Seq(Operation), NEW t \in Seq(Operation), DOMAIN t = DOMAIN s, NEW q,
         \A j \in DOMAIN s : t[j] = s[j] \/ (~InTurn(t[j], q) /\ ~InTurn(s[j], q)),
         NEW gone, NEW history, Covered(s, q, gone, history)
  PROVE  Covered(t, q, gone, history)
<1>1. \A j \in DOMAIN s : /\ InTurn(t[j], q) <=> InTurn(s[j], q)
                          /\ InTurn(t[j], q) => t[j] = s[j]
  OBVIOUS
<1> HIDE DEF InTurn
<1>2. gone \cap history # {} => \E j \in DOMAIN t : InTurn(t[j], q) /\ Clean(t[j], gone)
  BY <1>1 DEF Covered
<1>3. ASSUME NEW k \in DOMAIN t, InTurn(t[k], q), ~Clean(t[k], gone)
      PROVE  \E j \in DOMAIN t : k < j /\ InTurn(t[j], q) /\ Clean(t[j], gone)
  <2>1. PICK j \in DOMAIN s : k < j /\ InTurn(s[j], q) /\ Clean(s[j], gone)
    BY <1>1, <1>3 DEF Covered
  <2> QED BY <1>1, <2>1
<1> QED BY <1>2, <1>3 DEF Covered

\* Once the search of ops[i] is applied, the older ones of its tab are late.
Overtaken(i) ==
  [j \in DOMAIN ops |->
     IF j < i /\ ops[j].tab = ops[i].tab /\ ops[j].kind = "search"
     THEN [ops[j] EXCEPT !.late = TRUE] ELSE ops[j]]

LEMMA OvertakenFacts ==
  ASSUME SessionInv, NEW i \in DOMAIN ops, NEW p, p = ops[i].tab,
         NEW rest, rest = Overtaken(i)
  PROVE  /\ rest \in Seq(Operation) /\ DOMAIN rest = DOMAIN ops
         /\ \A j \in DOMAIN rest : OperationOK(rest[j], used, live)
         /\ \A j \in DOMAIN ops : rest[j].tab = ops[j].tab
         /\ \A j \in DOMAIN ops : j >= i \/ ops[j].tab # p => rest[j] = ops[j]
         /\ \A j \in DOMAIN ops : j < i => ~InTurn(rest[j], p)
<1>1. /\ ops \in Seq(Operation) /\ DOMAIN ops = 1 .. Len(ops) /\ Len(ops) \in Nat
      /\ \A j \in DOMAIN ops : ops[j] \in Operation /\ OperationOK(ops[j], used, live)
  BY OpsFacts
<1> DEFINE late(j) == [ops[j] EXCEPT !.late = TRUE]
           over(j) == j < i /\ ops[j].tab = p /\ ops[j].kind = "search"
<1>2. \A j \in DOMAIN ops : /\ late(j) \in Operation /\ late(j).late
                            /\ late(j).tab = ops[j].tab /\ late(j).kind = ops[j].kind
                            /\ late(j).thread = ops[j].thread /\ late(j).seen = ops[j].seen
                            /\ late(j).stage = ops[j].stage
                            /\ late(j).answer = ops[j].answer
  BY <1>1 DEF Operation
<1>3. \A j \in DOMAIN ops : OperationOK(late(j), used, live)
  BY <1>1, <1>2 DEF OperationOK
<1>4. rest = [j \in DOMAIN ops |-> IF over(j) THEN late(j) ELSE ops[j]]
  BY DEF Overtaken
<1> HIDE DEF late
<1>5. rest \in [1 .. Len(ops) -> Operation] /\ DOMAIN rest = DOMAIN ops
  BY <1>1, <1>2, <1>4
<1>6. rest \in Seq(Operation)
  BY <1>1, <1>5, MappedSeq
<1>7. \A j \in DOMAIN ops : rest[j] = IF over(j) THEN late(j) ELSE ops[j]
  BY <1>4
<1>8. \A j \in DOMAIN ops : j >= i => ~(j < i)
  BY <1>1
<1>9. \A j \in DOMAIN rest : OperationOK(rest[j], used, live)
  BY <1>1, <1>3, <1>5, <1>7
<1>10. \A j \in DOMAIN ops : rest[j].tab = ops[j].tab
  BY <1>2, <1>7
<1>11. \A j \in DOMAIN ops : j >= i \/ ops[j].tab # p => rest[j] = ops[j]
  BY <1>7, <1>8
<1>12. \A j \in DOMAIN ops : j < i => ~InTurn(rest[j], p)
  BY <1>2, <1>7 DEF InTurn
<1> QED BY <1>5, <1>6, <1>9, <1>10, <1>11, <1>12

LEMMA NextSearched ==
  ASSUME SessionInv, NEW i \in DOMAIN ops, Searched(i)  PROVE SessionInv'
<1>1. PICK p : p = ops[i].tab
  OBVIOUS
<1>2. /\ ops \in Seq(Operation) /\ p \in Tab /\ ops[i] \in Operation
      /\ OperationOK(ops[i], used, live)
      /\ \A q \in Tab : InSidebar(tabs[q], ops, q) /\ PageKnows(tabs[q], used, live)
  BY <1>1, OpsFacts
<1>3. /\ tabs[p] \in Page /\ PageOK(tabs[p]) /\ used \subseteq Thread
      /\ stored \in used \cup {NoThread} /\ stored \in Thread \cup {NoThread}
      /\ ops[i].answer \subseteq used
  BY <1>2 DEF SessionInv, TypesOK, PagesOK, UsedOK, OperationOK
<1>4. ops[i].kind = "search" /\ ops[i].stage = "answered"
  BY DEF Searched
<1>5. ServerMoves /\ used' = used /\ live' = live
  BY <1>3, ServerStays DEF Searched, server
<1>6. PICK page : page = [tabs[p] EXCEPT !.history = ops[i].answer,
                                         !.overtaken = @ \/ ops[i].late]
  OBVIOUS
<1>7. PICK new : new = IF ops[i].answer = tabs[p].history THEN page ELSE Bind(page, stored)
  OBVIOUS
<1>8. PICK rest : rest = Overtaken(i)
  OBVIOUS
<1>9. PICK under : under = RemoveAt(rest, i)
  OBVIOUS
<1>10. Render(p, new, under)
  BY <1>1, <1>6, <1>7, <1>8, <1>9 DEF Searched, Overtaken
<1>11. ops[i].late \in BOOLEAN /\ tabs[p].overtaken \in BOOLEAN
  BY <1>2, <1>3 DEF Operation, Page
<1>12. /\ page \in Page /\ SamePage(tabs[p], page) /\ page.history = ops[i].answer
       /\ page.gone = tabs[p].gone /\ page.lost = tabs[p].lost
       /\ page.overtaken = (tabs[p].overtaken \/ ops[i].late)
  <2>1. PICK late \in BOOLEAN : late = (tabs[p].overtaken \/ ops[i].late)
    BY <1>11
  <2>2. page = [tabs[p] EXCEPT !.history = ops[i].answer, !.overtaken = late]
    BY <1>6, <2>1
  <2> QED BY <1>3, <2>1, <2>2 DEF Page, SamePage
<1>13. /\ new \in Page /\ new.history = ops[i].answer /\ new.gone = tabs[p].gone
       /\ new.lost = tabs[p].lost /\ new.overtaken = (tabs[p].overtaken \/ ops[i].late)
       /\ new.shown = tabs[p].shown
       /\ new.thread \in used \cup {NoThread}
       /\ Admissible(p, new)
  <2>1. CASE ops[i].answer = tabs[p].history
    <3>1. new = page
      BY <1>7, <2>1
    <3>2. page.thread \in used \cup {NoThread}
      BY <1>2, <1>12 DEF PageKnows, SamePage
    <3>3. Admissible(p, page)
      BY <1>3, <1>12 DEF Admissible, PageOK, SamePage
    <3> QED BY <1>12, <3>1, <3>2, <3>3 DEF SamePage
  <2>2. CASE ops[i].answer # tabs[p].history
    <3>1. PICK t \in Thread \cup {NoThread} : t = stored
      BY <1>3
    <3>2. new = Bind(page, t)
      BY <1>7, <2>2, <3>1
    <3>3. PageOK(page)
      BY <1>3, <1>12 DEF PageOK, SamePage
    <3>4. /\ new \in Page /\ new.thread = t /\ new.bound = t
          /\ new.history = page.history /\ new.shown = page.shown
          /\ new.recovered = page.recovered /\ new.met = page.met
          /\ new.gone = page.gone /\ new.overtaken = page.overtaken
          /\ new.lost = page.lost
      BY <1>12, <3>2, BindFacts
    <3>5. CASE t = page.bound
      <4>1. new.phase = page.phase /\ new.error = page.error /\ new.last = page.last
        BY <1>12, <3>2, <3>5, BindFacts
      <4> QED BY <1>3, <1>12, <3>1, <3>3, <3>4, <3>5, <4>1 DEF Admissible, PageOK, SamePage
    <3>6. CASE t # page.bound
      <4>1. /\ new.phase = IF t = NoThread THEN "idle" ELSE "hydrating"
            /\ new.error = "none"
        BY <1>12, <3>2, <3>6, BindFacts
      <4> QED BY <1>3, <1>12, <3>1, <3>3, <3>4, <3>6, <4>1
              DEF Admissible, PageOK, SamePage, Working
    <3> QED BY <3>5, <3>6
  <2> QED BY <2>1, <2>2
<1>14. PageKnows(new, used', live')
  BY <1>2, <1>3, <1>5, <1>13 DEF PageKnows
<1>15. /\ rest \in Seq(Operation) /\ DOMAIN rest = DOMAIN ops
       /\ \A j \in DOMAIN rest : OperationOK(rest[j], used, live)
       /\ \A j \in DOMAIN ops : rest[j].tab = ops[j].tab
       /\ \A j \in DOMAIN ops : j >= i \/ ops[j].tab # p => rest[j] = ops[j]
       /\ \A j \in DOMAIN ops : j < i => ~InTurn(rest[j], p)
  BY <1>1, <1>8, OvertakenFacts
<1>16. under \in Seq(Operation) /\ \A j \in DOMAIN under : OperationOK(under[j], used', live')
  BY <1>5, <1>9, <1>15, RemovedType
<1>17. InSidebar(new, under, p)
  <2>1. CASE tabs[p].overtaken \/ tabs[p].lost \/ ops[i].late
    BY <1>13, <2>1 DEF InSidebar
  <2>2. CASE ~(tabs[p].overtaken \/ tabs[p].lost \/ ops[i].late)
    <3>1. Covered(ops, p, tabs[p].gone, tabs[p].history)
      BY <1>2, <2>2 DEF InSidebar
    <3>2. InTurn(ops[i], p)
      BY <1>1, <1>4, <2>2 DEF InTurn
    <3>3. Covered(under, p, tabs[p].gone, ops[i].answer)
      BY <1>2, <1>4, <1>9, <1>15, <3>1, <3>2, AppliedCovers
    <3> QED BY <1>13, <3>3 DEF InSidebar
  <2> QED BY <2>1, <2>2
<1>18. ASSUME NEW q \in Tab \ {p} PROVE InSidebar(tabs[q], under, q)
  <2>1. \A j \in DOMAIN ops : rest[j] = ops[j] \/ (~InTurn(rest[j], q) /\ ~InTurn(ops[j], q))
    BY <1>15 DEF InTurn
  <2>2. ~InTurn(rest[i], q)
    BY <1>1, <1>15 DEF InTurn
  <2>3. ASSUME NEW gone, NEW history, Covered(ops, q, gone, history)
        PROVE  Covered(under, q, gone, history)
    <3>1. Covered(rest, q, gone, history)
      BY <1>2, <1>15, <2>1, <2>3, ElsewhereCovers
    <3> QED BY <1>9, <1>15, <2>2, <3>1, RemovedCovers
  <2> QED BY <1>2, <2>3 DEF InSidebar
<1> QED BY <1>2, <1>5, <1>10, <1>13, <1>14, <1>16, <1>17, <1>18, RenderStep

-----------------------------------------------------------------------------
\* Suggestions are taken by the tab that still waits for them.
LEMMA NextSuggestionsArrive ==
  ASSUME SessionInv, NEW i \in DOMAIN asked, SuggestionsArrive(i)  PROVE SessionInv'
<1>1. PICK p : p = asked[i].tab
  OBVIOUS
<1>2. /\ asked \in Seq(SuggestionRequest) /\ DOMAIN asked = 1 .. Len(asked)
      /\ \A j \in DOMAIN asked : asked[j] \in SuggestionRequest
  <2>1. asked \in Seq(SuggestionRequest)
    BY DEF SessionInv, TypesOK
  <2> QED BY <2>1, DomainOfSeq, ElementOfSeq
<1>3. p \in Tab /\ asked[i].of \in Answer /\ asked[i].active \in BOOLEAN
      /\ \A j \in DOMAIN asked : asked[j].tab \in Tab
  BY <1>1, <1>2 DEF SuggestionRequest
<1>4. tabs \in [Tab -> Page] /\ tabs[p] \in Page
  BY <1>3 DEF SessionInv, TypesOK
<1>5. \E shown \in {tabs[p].shown, asked[i].of} :
        tabs' = IF asked[i].active THEN [tabs EXCEPT ![p].shown = shown, ![p].loading = FALSE]
                ELSE tabs
  BY <1>1 DEF SuggestionsArrive, Take
<1>6. /\ tabs' \in [Tab -> Page] /\ \A q \in Tab \ {p} : tabs'[q] = tabs[q]
      /\ LET new == tabs'[p] IN
           /\ new.thread = tabs[p].thread /\ new.bound = tabs[p].bound
           /\ new.phase = tabs[p].phase /\ new.error = tabs[p].error
           /\ new.last = tabs[p].last /\ new.recovered = tabs[p].recovered
           /\ new.met = tabs[p].met /\ new.history = tabs[p].history
           /\ new.gone = tabs[p].gone /\ new.overtaken = tabs[p].overtaken
           /\ new.lost = tabs[p].lost
           /\ \/ new.shown = tabs[p].shown
              \/ asked[i].active /\ new.shown = asked[i].of
  <2>1. CASE ~asked[i].active
    <3>1. tabs' = tabs
      BY <1>5, <2>1
    <3> QED BY <1>4, <3>1
  <2>2. CASE asked[i].active
    <3>1. PICK shown \in {tabs[p].shown, asked[i].of} :
            tabs' = [tabs EXCEPT ![p].shown = shown, ![p].loading = FALSE]
      BY <1>5, <2>2
    <3>2. PICK new : new = [tabs[p] EXCEPT !.shown = shown, !.loading = FALSE]
      OBVIOUS
    <3>3. tabs' = [tabs EXCEPT ![p] = new]
      BY <1>3, <1>4, <3>1, <3>2
    <3>4. shown \in Answer \cup {NoAnswer}
      BY <1>3, <1>4 DEF Page
    <3>5. /\ new \in Page
          /\ new.thread = tabs[p].thread /\ new.bound = tabs[p].bound
          /\ new.phase = tabs[p].phase /\ new.error = tabs[p].error
          /\ new.last = tabs[p].last /\ new.recovered = tabs[p].recovered
          /\ new.met = tabs[p].met /\ new.history = tabs[p].history
          /\ new.gone = tabs[p].gone /\ new.overtaken = tabs[p].overtaken
          /\ new.lost = tabs[p].lost /\ new.shown = shown
      BY <1>4, <3>2, <3>4 DEF Page
    <3>6. /\ tabs' \in [Tab -> Page] /\ tabs'[p] = new
          /\ \A q \in Tab \ {p} : tabs'[q] = tabs[q]
      BY <1>3, <1>4, <3>3, <3>5
    <3>7. new.shown = tabs[p].shown \/ new.shown = asked[i].of
      BY <3>1, <3>5
    <3> QED BY <2>2, <3>5, <3>6, <3>7
  <2> QED BY <2>1, <2>2, <1>3
<1>7. /\ asked' \in Seq(SuggestionRequest)
      /\ \A k \in DOMAIN asked' :
           LET j == IF k < i THEN k ELSE k + 1
           IN  j \in DOMAIN asked /\ j # i /\ asked'[k] = asked[j]
      /\ DOMAIN asked' \subseteq Int
  <2>1. asked' = RemoveAt(asked, i)
    BY DEF SuggestionsArrive
  <2>2. asked' \in Seq(SuggestionRequest)
    BY <1>2, <2>1, RemoveAtKeeps
  <2>3. DOMAIN asked' \subseteq Int
    BY <2>2, DomainOfSeq
  <2>4. PICK t : t = RemoveAt(asked, i)
    OBVIOUS
  <2>5. \A k \in DOMAIN t :
          LET j == IF k < i THEN k ELSE k + 1
          IN  j \in DOMAIN asked /\ j # i /\ t[k] = asked[j]
    BY <1>2, <2>4, RemoveAtKeeps
  <2>6. asked' = t
    BY <2>1, <2>4
  <2> QED BY <2>2, <2>3, <2>5, <2>6
<1>8. UNCHANGED server /\ stored' = stored /\ ops' = ops /\ UNCHANGED <<live, used, busy, answers>>
  BY DEF SuggestionsArrive, server
<1>9. TypesOK'
  BY <1>6, <1>7, <1>8 DEF SessionInv, TypesOK
<1>10. PagesOK'
  <2>1. asked[i].active => tabs[p].phase \notin Working /\ Follows(tabs[p], asked[i].of)
    BY <1>1 DEF SessionInv, AskedOK
  <2>2. /\ PageOK(tabs[p])
        /\ tabs[p].phase \in Working => tabs[p].shown = NoAnswer
        /\ tabs[p].shown # NoAnswer => Follows(tabs[p], tabs[p].shown)
    BY <1>3 DEF SessionInv, PagesOK
  <2>3. PageOK(tabs'[p])
    BY <1>6, <2>2 DEF PageOK
  <2>4. tabs'[p].phase \in Working => tabs'[p].shown = NoAnswer
    BY <1>6, <2>1, <2>2
  <2>5. tabs'[p].shown # NoAnswer => Follows(tabs'[p], tabs'[p].shown)
    BY <1>6, <2>1, <2>2 DEF Follows
  <2> QED BY <1>6, <2>3, <2>4, <2>5 DEF SessionInv, PagesOK
<1>11. AskedOK'
  <2>1. ASSUME NEW k \in DOMAIN asked', asked'[k].active
        PROVE  /\ tabs'[asked'[k].tab].phase \notin Working
               /\ Follows(tabs'[asked'[k].tab], asked'[k].of)
    <3>1. PICK j \in DOMAIN asked : asked'[k] = asked[j]
      BY <1>7
    <3>2. /\ tabs[asked[j].tab].phase \notin Working
          /\ Follows(tabs[asked[j].tab], asked[j].of) /\ asked[j].tab \in Tab
      BY <1>3, <2>1, <3>1 DEF SessionInv, AskedOK
    <3> QED BY <1>3, <1>6, <3>1, <3>2 DEF Follows
  <2>2. ASSUME NEW k \in DOMAIN asked', NEW l \in DOMAIN asked', asked'[k].active,
               asked'[l].active, asked'[k].tab = asked'[l].tab
        PROVE  k = l
    <3> DEFINE from(n) == IF n < i THEN n ELSE n + 1
    <3>1. /\ from(k) \in DOMAIN asked /\ asked'[k] = asked[from(k)]
          /\ from(l) \in DOMAIN asked /\ asked'[l] = asked[from(l)]
      BY <1>7
    <3>2. from(k) = from(l)
      <4> HIDE DEF from
      <4> QED BY <2>2, <3>1 DEF SessionInv, AskedOK
    <3>3. k \in Int /\ l \in Int /\ i \in Int
      BY <1>2, <1>7
    <3> QED BY <3>2, <3>3
  <2> QED BY <2>1, <2>2 DEF AskedOK
<1>12. UsedOK' /\ SidebarsOK'
  BY <1>6, <1>8 DEF SessionInv, UsedOK, SidebarsOK, PageKnows
<1> QED BY <1>9, <1>10, <1>11, <1>12 DEF SessionInv

-----------------------------------------------------------------------------
\* The invariant is one.

LEMMA FirstSearches ==
  SetToSeq({Search(p) : p \in Tab}) \in Seq({Search(p) : p \in Tab})
<1> DEFINE S == {Search(p) : p \in Tab}
           f == [p \in Tab |-> Search(p)]
<1>1. f \in Surjection(Tab, S)
  <2>1. f \in [Tab -> S]
    OBVIOUS
  <2>2. \A s \in S : \E p \in Tab : f[p] = s
    OBVIOUS
  <2> HIDE DEF f, S
  <2> QED BY <2>1, <2>2 DEF Surjection
<1>2. IsFiniteSet(S)
  BY <1>1, FS_Surjection, SessionConstants
<1>3. SetToSeq(S) \in Seq(S)
  <2> HIDE DEF S
  <2>1. SetToSeq(S) \in [1 .. Cardinality(S) -> S] /\ Cardinality(S) \in Nat
    BY <1>2, SetToSeqType
  <2> QED BY <2>1, MappedSeq
<1> QED BY <1>3 DEF S

\* A tab that deleted no thread is covered.
LEMMA NothingGone ==
  ASSUME NEW under \in Seq(Operation), NEW q, NEW history
  PROVE  Covered(under, q, {}, history)
  BY DEF Covered, Clean

LEMMA InitSession == SessionInit => SessionInv
<1> SUFFICES ASSUME SessionInit PROVE SessionInv
  OBVIOUS
<1>1. /\ used = Existing /\ live = used /\ busy = {} /\ used \subseteq Thread
      /\ stored \in used \cup {NoThread} /\ asked = <<>>
  BY SessionConstants DEF SessionInit
<1>2. answers \in [Thread -> 0 .. MaxAnswers]
  BY SessionConstants DEF SessionInit
<1>3. PICK first : first =
        [thread |-> stored, history |-> {}, bound |-> stored,
         phase |-> IF stored = NoThread THEN "idle" ELSE "hydrating",
         error |-> "none", last |-> NoAnswer, shown |-> NoAnswer,
         loading |-> FALSE, key |-> NoAnswer, recovered |-> NoThread,
         met |-> {}, gone |-> {}, overtaken |-> FALSE, lost |-> FALSE]
  OBVIOUS
<1>4. /\ first \in Page /\ PageOK(first) /\ first.shown = NoAnswer
      /\ first.thread = stored /\ first.history = {} /\ first.gone = {}
  BY <1>1, <1>3 DEF Page, Phase, PageOK
<1>5. tabs = [p \in Tab |-> first]
  BY <1>3 DEF SessionInit
<1>6. tabs \in [Tab -> Page] /\ \A p \in Tab : tabs[p] = first
  BY <1>4, <1>5
<1>7. ops \in Seq({Search(p) : p \in Tab})
  BY FirstSearches DEF SessionInit
<1>8. \A i \in DOMAIN ops : ops[i] \in {Search(p) : p \in Tab}
  BY <1>7, DomainOfSeq, ElementOfSeq
<1>9. ops \in Seq(Operation) /\ \A i \in DOMAIN ops : OperationOK(ops[i], used, live)
  <2>1. \A s \in {Search(p) : p \in Tab} : s \in Operation /\ OperationOK(s, used, live)
    BY SearchFacts
  <2>2. {Search(p) : p \in Tab} \subseteq Operation
    BY <2>1
  <2>3. DOMAIN ops = 1 .. Len(ops) /\ Len(ops) \in Nat
    BY <1>7, DomainOfSeq
  <2>4. ops \in [1 .. Len(ops) -> Operation]
    BY <1>7, <1>8, <2>2, <2>3
  <2> QED BY <1>8, <2>1, <2>3, <2>4, MappedSeq
<1>10. TypesOK
  BY <1>1, <1>2, <1>6, <1>9 DEF TypesOK
<1>11. PagesOK
  BY <1>4, <1>6 DEF PagesOK
<1>12. AskedOK
  BY <1>1 DEF AskedOK
<1>13. UsedOK
  BY <1>1, <1>4, <1>6, <1>9 DEF UsedOK, PageKnows
<1>14. SidebarsOK
  <2>1. \A p \in Tab : Covered(ops, p, {}, {})
    BY <1>9, NothingGone
  <2>2. \A p \in Tab : tabs[p].gone = {} /\ tabs[p].history = {}
    BY <1>4, <1>6
  <2> QED BY <2>1, <2>2 DEF SidebarsOK
<1> QED BY <1>10, <1>11, <1>12, <1>13, <1>14 DEF SessionInv

LEMMA NextSession == SessionInv /\ [SessionNext]_sessionVars => SessionInv'
<1> SUFFICES ASSUME SessionInv, [SessionNext]_sessionVars PROVE SessionInv'
  OBVIOUS
<1>1. ASSUME NEW p \in Tab,
             \/ SelectThread(p) \/ StartNewChat(p) \/ SendUserMessage(p)
             \/ StopStream(p) \/ ClearChat(p) \/ DeleteThread(p)
             \/ Created(p) \/ Hydrate(p) \/ RunSeen(p) \/ Sync(p)
      PROVE  SessionInv'
  BY <1>1, NextSelectThread, NextStartNewChat, NextSendUserMessage, NextStopStream,
     NextClearChat, NextDeleteThread, NextCreated, NextHydrate, NextRunSeen, NextSync
<1>2. CASE SelectedElsewhere \/ DeletedElsewhere
           \/ \E t \in Thread : RunAnswers(t) \/ RunFails(t)
  BY <1>2, NextEnvironment
<1>3. ASSUME NEW i \in DOMAIN ops,
             \/ StopForClear(i) \/ Serve(i) \/ Cleared(i) \/ Deleted(i) \/ Searched(i)
             \/ OpLost(i)
      PROVE  SessionInv'
  BY <1>3, NextStopForClear, NextServe, NextCleared, NextDeleted, NextSearched, NextOpLost
<1>4. ASSUME NEW i \in DOMAIN asked, SuggestionsArrive(i) PROVE SessionInv'
  BY <1>4, NextSuggestionsArrive
<1>5. CASE UNCHANGED sessionVars
  <2>1. UNCHANGED <<server, stored, tabs, ops, asked>> /\ UNCHANGED <<tabs, ops, asked>>
    BY <1>5 DEF sessionVars
  <2>2. ServerMoves
    BY <2>1, ServerStays DEF SessionInv, UsedOK
  <2> QED BY <2>1, <2>2, EnvironmentStep
<1> QED BY <1>1, <1>2, <1>3, <1>4, <1>5 DEF SessionNext

\* However the tabs, the server and the answers interleave, the invariant of
\* this module holds.
THEOREM SessionInvariant == SessionSpec => []SessionInv
  BY InitSession, NextSession, PTL DEF SessionSpec

\* The pages stay well-formed, and a tab waits for the suggestions of one
\* request at most (activeRequestRef in useSuggestions.ts).
THEOREM SessionTypeCorrect == SessionSpec => []SessionTypeOK
<1>1. SessionInv => SessionTypeOK
  BY DEF SessionInv, TypesOK, AskedOK, SessionTypeOK
<1> QED BY <1>1, SessionInvariant, PTL

\* Suggestions that arrive late, or were asked for before the user selected,
\* asked or stopped something, are never on display under another answer
\* (useSuggestions.ts).
THEOREM SuggestionsFollow == SessionSpec => []SuggestionsOfLastAnswer
<1>1. SessionInv => SuggestionsOfLastAnswer
  BY DEF SessionInv, PagesOK, Follows, SuggestionsOfLastAnswer
<1> QED BY <1>1, SessionInvariant, PTL

\* A tab that stays on a thread that is missing has left that thread before
\* (useChatController.ts).
THEOREM MissingThreadIsLeft == SessionSpec => []MissingThreadLeft
<1>1. SessionInv => MissingThreadLeft
  BY DEF SessionInv, PagesOK, PageOK, MissingThreadLeft
<1> QED BY <1>1, SessionInvariant, PTL

\* The threads that a tab deleted are not in its sidebar once everything under
\* way has ended, unless a search was lost or overtaken.
THEOREM DeletedThreadsLeave == SessionSpec => []DeletedLeavesSidebar
<1>1. SessionInv => DeletedLeavesSidebar
  <2> SUFFICES ASSUME SessionInv, NEW p \in Tab, \A i \in DOMAIN ops : ops[i].tab # p,
                      ~tabs[p].overtaken, ~tabs[p].lost
               PROVE  tabs[p].gone \cap tabs[p].history = {}
    BY DEF DeletedLeavesSidebar
  <2>1. Covered(ops, p, tabs[p].gone, tabs[p].history)
    BY DEF SessionInv, SidebarsOK
  <2> QED BY <2>1 DEF Covered, InTurn
<1> QED BY <1>1, SessionInvariant, PTL

-----------------------------------------------------------------------------
(***************************************************************************)
(* Late callbacks settle.  A tab waits for its thread from the click that  *)
(* sends a message until its thread is created, it is stopped, it fails,   *)
(* or it follows the others to another thread; no other step makes it      *)
(* wait.                                                                   *)
(***************************************************************************)
Waits(page) == page.phase = "running" /\ page.bound = NoThread

\* What a step without a click may do to the selection.
Settles ==
  /\ Creating' \subseteq Creating
  /\ stored' \in {stored, NoThread} \/ Creating' # Creating

LEMMA RenderSettles ==
  ASSUME SessionInv, NEW p \in Tab, NEW new \in Page, NEW under, Render(p, new, under),
         Waits(new) => Waits(tabs[p])
  PROVE  Creating' \subseteq Creating /\ (p \in Creating' <=> Waits(new))
<1>1. tabs \in [Tab -> Page] /\ tabs[p] \in Page
  BY DEF SessionInv, TypesOK
<1>2. tabs' = [tabs EXCEPT ![p] = Rendered(tabs[p], new)]
  BY RenderIs
<1>3. /\ tabs'[p].phase = new.phase /\ tabs'[p].bound = new.bound
      /\ \A q \in Tab \ {p} : tabs'[q] = tabs[q]
  BY <1>1, <1>2, RenderedFacts
<1> QED BY <1>3 DEF Creating, Waits

LEMMA BindWaits ==
  ASSUME NEW page \in Page, NEW t \in Thread \cup {NoThread}
  PROVE  Bind(page, t) \in Page /\ (Waits(Bind(page, t)) => Waits(page))
  BY BindFacts DEF Waits

\* A step that leaves every page its phase and its thread.
LEMMA StayingSettles ==
  ASSUME \A p \in Tab : tabs'[p].phase = tabs[p].phase /\ tabs'[p].bound = tabs[p].bound,
         UNCHANGED stored
  PROVE  Settles
  BY DEF Creating, Settles

LEMMA PagesAreTyped ==
  ASSUME SessionInv
  PROVE  /\ \A p \in Tab : tabs[p] \in Page
         /\ stored \in Thread \cup {NoThread} /\ tabs \in [Tab -> Page]
  BY DEF SessionInv, TypesOK

LEMMA CreatedSettles == ASSUME SessionInv, NEW p \in Tab, Created(p) PROVE Settles
<1>1. PICK t \in Thread \ used : Render(p, [tabs[p] EXCEPT !.thread = t, !.bound = t], ops)
  BY DEF Created
<1>2. PICK new : new = [tabs[p] EXCEPT !.thread = t, !.bound = t]
  OBVIOUS
<1>3. tabs[p] \in Page /\ Waits(tabs[p]) /\ p \in Creating
  BY PagesAreTyped DEF Created, Waits, Creating
<1>4. new \in Page /\ ~Waits(new)
  BY <1>2, <1>3, SessionConstants DEF Page, Waits
<1>5. Creating' \subseteq Creating /\ p \notin Creating'
  BY <1>1, <1>2, <1>4, RenderSettles
<1> QED BY <1>3, <1>5 DEF Settles

LEMMA FailsSettles ==
  ASSUME SessionInv, NEW p \in Tab, tabs[p].bound # NoThread,
         NEW error \in {"missing", "other"}, Fails(p, error)
  PROVE  Settles
<1>1. tabs[p] \in Page
  BY PagesAreTyped
<1>2. CASE MissingThread(tabs[p], error) /\ Recoverable(tabs[p])
  <2>1. PICK left : left = Bind(tabs[p], NoThread)
    OBVIOUS
  <2>2. PICK new : new = [left EXCEPT !.recovered = tabs[p].thread,
                                      !.met = @ \cup {tabs[p].thread}]
    OBVIOUS
  <2>3. Render(p, new, ops) /\ stored' = NoThread
    BY <1>2, <2>1, <2>2 DEF Fails
  <2>4. left \in Page /\ left.phase = "idle" /\ tabs[p].thread \in Thread
    BY <1>1, <1>2, <2>1, BindFacts DEF MissingThread, Page
  <2>5. new \in Page /\ ~Waits(new)
    BY <2>2, <2>4 DEF Page, Waits
  <2> QED BY <2>3, <2>5, RenderSettles DEF Settles
<1>3. CASE ~(MissingThread(tabs[p], error) /\ Recoverable(tabs[p]))
  <2>1. PICK new : new = [tabs[p] EXCEPT !.phase = "failed", !.error = error]
    OBVIOUS
  <2>2. Render(p, new, ops) /\ stored' = stored
    BY <1>3, <2>1 DEF Fails
  <2>3. new \in Page /\ ~Waits(new)
    BY <1>1, <2>1 DEF Page, Phase, Waits
  <2> QED BY <2>2, <2>3, RenderSettles DEF Settles
<1> QED BY <1>2, <1>3

\* A tab that hydrates, or follows a run, has a thread, and keeps it.
LEMMA HydrateSettles == ASSUME SessionInv, NEW p \in Tab, Hydrate(p) PROVE Settles
<1>1. tabs[p] \in Page /\ tabs[p].phase = "hydrating" /\ tabs[p].bound # NoThread
  BY PagesAreTyped DEF SessionInv, PagesOK, PageOK, Hydrate
<1>2. PICK t : t = tabs[p].bound
  OBVIOUS
<1>3. CASE \E phase \in {"running", "idle"} :
             /\ Render(p, [tabs[p] EXCEPT !.phase = phase, !.last = LastAnswer(t)], ops)
             /\ UNCHANGED stored
  <2>1. PICK phase \in {"running", "idle"} :
          /\ Render(p, [tabs[p] EXCEPT !.phase = phase, !.last = LastAnswer(t)], ops)
          /\ UNCHANGED stored
    BY <1>3
  <2>2. LastAnswer(t) \in Answer \cup {NoAnswer}
    <3>1. t \in Thread
      BY <1>1, <1>2 DEF Page
    <3> QED BY <3>1, LastAnswerType
  <2>3. PICK new : new = [tabs[p] EXCEPT !.phase = phase, !.last = LastAnswer(t)]
    OBVIOUS
  <2>4. new \in Page /\ ~Waits(new)
    BY <1>1, <2>2, <2>3 DEF Page, Phase, Waits
  <2> QED BY <2>1, <2>3, <2>4, RenderSettles DEF Settles
<1>4. CASE Fails(p, "missing") \/ Fails(p, "other")
  BY <1>1, <1>4, FailsSettles
<1> QED BY <1>2, <1>3, <1>4 DEF Hydrate

LEMMA RunSeenSettles == ASSUME SessionInv, NEW p \in Tab, RunSeen(p) PROVE Settles
<1>1. tabs[p] \in Page /\ tabs[p].bound # NoThread
  BY PagesAreTyped DEF RunSeen
<1>2. PICK t : t = tabs[p].bound
  OBVIOUS
<1>3. CASE /\ Render(p, [tabs[p] EXCEPT !.phase = "idle", !.last = LastAnswer(t)], ops)
           /\ UNCHANGED stored
  <2>1. LastAnswer(t) \in Answer \cup {NoAnswer}
    <3>1. t \in Thread
      BY <1>1, <1>2 DEF Page
    <3> QED BY <3>1, LastAnswerType
  <2>2. PICK new : new = [tabs[p] EXCEPT !.phase = "idle", !.last = LastAnswer(t)]
    OBVIOUS
  <2>3. new \in Page /\ ~Waits(new)
    BY <1>1, <2>1, <2>2 DEF Page, Phase, Waits
  <2> QED BY <1>3, <2>2, <2>3, RenderSettles DEF Settles
<1>4. CASE Fails(p, "missing") \/ Fails(p, "other")
  BY <1>1, <1>4, FailsSettles
<1> QED BY <1>2, <1>3, <1>4 DEF RunSeen

LEMMA SyncSettles == ASSUME SessionInv, NEW p \in Tab, Sync(p) PROVE Settles
<1>1. tabs[p] \in Page /\ stored \in Thread \cup {NoThread}
  BY PagesAreTyped
<1>2. /\ Bind(tabs[p], stored) \in Page
      /\ Waits(Bind(tabs[p], stored)) => Waits(tabs[p])
  BY <1>1, BindWaits
<1>3. Render(p, Bind(tabs[p], stored), ops) /\ stored' = stored
  BY DEF Sync
<1> QED BY <1>2, <1>3, RenderSettles DEF Settles

LEMMA StopForClearSettles ==
  ASSUME SessionInv, NEW i \in DOMAIN ops, StopForClear(i) PROVE Settles
<1>1. PICK p : p = ops[i].tab
  OBVIOUS
<1>2. p \in Tab /\ tabs[p] \in Page
  BY <1>1, OpsFacts, PagesAreTyped
<1>3. CASE tabs[p].phase = "running"
  <2>1. PICK new : new = [tabs[p] EXCEPT !.phase = "idle"]
    OBVIOUS
  <2>2. Render(p, new, [ops EXCEPT ![i].stage = "sent"]) /\ stored' = stored
    BY <1>1, <1>3, <2>1 DEF StopForClear, Stopped
  <2>3. new \in Page /\ ~Waits(new)
    BY <1>2, <2>1 DEF Page, Phase, Waits
  <2> QED BY <1>2, <2>2, <2>3, RenderSettles DEF Settles
<1>4. CASE tabs[p].phase # "running"
  BY <1>1, <1>4, StayingSettles DEF StopForClear
<1> QED BY <1>3, <1>4

LEMMA ClearedSettles ==
  ASSUME SessionInv, NEW i \in DOMAIN ops, Cleared(i) PROVE Settles
<1>1. PICK p : p = ops[i].tab
  OBVIOUS
<1>2. /\ p \in Tab /\ tabs[p] \in Page /\ ops[i] \in Operation
      /\ ops[i].seen \subseteq Thread
  BY <1>1, OpsFacts, PagesAreTyped DEF Operation
<1>3. PICK left : left = Bind(tabs[p], NoThread)
  OBVIOUS
<1>4. PICK page : page = [left EXCEPT !.history = ops[i].seen]
  OBVIOUS
<1>5. PICK new : new = Gone(page, i)
  OBVIOUS
<1>6. Render(p, new, GoesOn(i)) /\ stored' = NoThread
  BY <1>1, <1>3, <1>4, <1>5 DEF Cleared
<1>7. left \in Page /\ (Waits(left) => Waits(tabs[p]))
  BY <1>2, <1>3, BindWaits
<1>8. page \in Page /\ page.phase = left.phase /\ page.bound = left.bound
  BY <1>2, <1>4, <1>7 DEF Page
<1>9. new \in Page /\ new.phase = page.phase /\ new.bound = page.bound
  <2>1. PICK gone : gone = page.gone \cup ({ops[i].thread} \ {NoThread})
    OBVIOUS
  <2>2. gone \subseteq Thread
    BY <1>2, <1>8, <2>1 DEF Page, Operation
  <2>3. new = [page EXCEPT !.gone = gone]
    BY <1>5, <2>1 DEF Gone
  <2> QED BY <1>8, <2>2, <2>3 DEF Page
<1>10. Waits(new) => Waits(tabs[p])
  BY <1>7, <1>8, <1>9 DEF Waits
<1> QED BY <1>2, <1>6, <1>9, <1>10, RenderSettles DEF Settles

LEMMA SearchedSettles ==
  ASSUME SessionInv, NEW i \in DOMAIN ops, Searched(i) PROVE Settles
<1>1. PICK p : p = ops[i].tab
  OBVIOUS
<1>2. /\ p \in Tab /\ tabs[p] \in Page /\ ops[i] \in Operation
      /\ stored \in Thread \cup {NoThread}
  BY <1>1, OpsFacts, PagesAreTyped
<1>3. PICK late \in BOOLEAN : late = (tabs[p].overtaken \/ ops[i].late)
  BY <1>2 DEF Operation, Page
<1>4. PICK page : page = [tabs[p] EXCEPT !.history = ops[i].answer, !.overtaken = late]
  OBVIOUS
<1>5. page \in Page /\ page.phase = tabs[p].phase /\ page.bound = tabs[p].bound
  BY <1>2, <1>3, <1>4 DEF Page, Operation
<1>6. page = [tabs[p] EXCEPT !.history = ops[i].answer, !.overtaken = @ \/ ops[i].late]
  BY <1>2, <1>3, <1>4 DEF Page
<1>7. PICK new : new = IF ops[i].answer = tabs[p].history THEN page ELSE Bind(page, stored)
  OBVIOUS
<1>8. (\E under : Render(p, new, under)) /\ stored' = stored
  BY <1>1, <1>6, <1>7 DEF Searched
<1>9. new \in Page /\ (Waits(new) => Waits(tabs[p]))
  <2>1. Waits(page) <=> Waits(tabs[p])
    BY <1>5 DEF Waits
  <2>2. Bind(page, stored) \in Page /\ (Waits(Bind(page, stored)) => Waits(page))
    BY <1>2, <1>5, BindWaits
  <2> QED BY <1>5, <1>7, <2>1, <2>2
<1> QED BY <1>2, <1>8, <1>9, RenderSettles DEF Settles

LEMMA DeletedSettles ==
  ASSUME SessionInv, NEW i \in DOMAIN ops, Deleted(i) \/ OpLost(i) PROVE Settles
<1>1. PICK p : p = ops[i].tab
  OBVIOUS
<1>2. p \in Tab /\ tabs[p] \in Page /\ tabs \in [Tab -> Page]
  BY <1>1, OpsFacts, PagesAreTyped
<1>3. PICK new : /\ tabs' = [tabs EXCEPT ![p] = new]
                 /\ new.phase = tabs[p].phase /\ new.bound = tabs[p].bound
  <2>1. CASE Deleted(i)
    <3>1. tabs' = [tabs EXCEPT ![p] = Gone(tabs[p], i)]
      BY <1>1, <2>1 DEF Deleted
    <3>2. /\ Gone(tabs[p], i).phase = tabs[p].phase
          /\ Gone(tabs[p], i).bound = tabs[p].bound
      BY <1>2 DEF Gone, Page
    <3> QED BY <3>1, <3>2
  <2>2. CASE OpLost(i)
    <3>1. PICK lost : lost = [tabs[p] EXCEPT !.lost = TRUE]
      OBVIOUS
    <3>2. tabs' = [tabs EXCEPT ![p] = lost]
      BY <1>1, <2>2, <3>1 DEF OpLost
    <3>3. lost.phase = tabs[p].phase /\ lost.bound = tabs[p].bound
      BY <1>2, <3>1 DEF Page
    <3> QED BY <3>2, <3>3
  <2> QED BY <2>1, <2>2
<1>4. stored' = stored
  BY DEF Deleted, OpLost
<1> QED BY <1>2, <1>3, <1>4, StayingSettles

LEMMA SuggestionsSettles ==
  ASSUME SessionInv, NEW i \in DOMAIN asked, SuggestionsArrive(i) PROVE Settles
<1>1. PICK p : p = asked[i].tab
  OBVIOUS
<1>2. p \in Tab
  <2>1. asked \in Seq(SuggestionRequest)
    BY DEF SessionInv, TypesOK
  <2>2. asked[i] \in SuggestionRequest
    BY <2>1, DomainOfSeq, ElementOfSeq
  <2> QED BY <1>1, <2>2 DEF SuggestionRequest
<1>3. tabs[p] \in Page /\ tabs \in [Tab -> Page]
  BY <1>2, PagesAreTyped
<1>4. \E shown : tabs' = IF asked[i].active
                         THEN [tabs EXCEPT ![p].shown = shown, ![p].loading = FALSE]
                         ELSE tabs
  BY <1>1 DEF SuggestionsArrive, Take
<1>5. \A q \in Tab : tabs'[q].phase = tabs[q].phase /\ tabs'[q].bound = tabs[q].bound
  BY <1>2, <1>3, <1>4 DEF Page
<1>6. stored' = stored
  BY DEF SuggestionsArrive
<1> QED BY <1>5, <1>6, StayingSettles

\* The number of clicks grows with each one.
LEMMA ClicksType == SessionSpec => [](clicks \in Nat)
<1>1. SessionInit => clicks \in Nat
  BY DEF SessionInit
<1>2. clicks \in Nat /\ [SessionNext]_sessionVars => (clicks \in Nat)'
  <2> SUFFICES ASSUME [SessionNext]_sessionVars PROVE Click \/ clicks' = clicks
    BY DEF Click
  <2>1. ASSUME NEW p \in Tab,
               \/ SelectThread(p) \/ StartNewChat(p) \/ SendUserMessage(p)
               \/ StopStream(p) \/ ClearChat(p) \/ DeleteThread(p)
        PROVE  Click
    BY <2>1 DEF SelectThread, StartNewChat, SendUserMessage, StopStream, ClearChat, DeleteThread
  <2>2. ASSUME NEW p \in Tab, Created(p) \/ Hydrate(p) \/ RunSeen(p) \/ Sync(p)
        PROVE  clicks' = clicks
    BY <2>2 DEF Created, Hydrate, RunSeen, Sync
  <2>3. CASE SelectedElsewhere \/ DeletedElsewhere
    BY <2>3 DEF SelectedElsewhere, DeletedElsewhere
  <2>4. CASE \E t \in Thread : RunAnswers(t) \/ RunFails(t)
    BY <2>4 DEF RunAnswers, RunFails
  <2>5. ASSUME NEW i \in DOMAIN ops,
               \/ StopForClear(i) \/ Serve(i) \/ Cleared(i) \/ Deleted(i) \/ Searched(i)
               \/ OpLost(i)
        PROVE  clicks' = clicks
    BY <2>5 DEF StopForClear, Serve, Cleared, Deleted, Searched, OpLost
  <2>6. ASSUME NEW i \in DOMAIN asked, SuggestionsArrive(i) PROVE clicks' = clicks
    BY <2>6 DEF SuggestionsArrive
  <2>7. CASE UNCHANGED sessionVars
    BY <2>7 DEF sessionVars
  <2> QED BY <2>1, <2>2, <2>3, <2>4, <2>5, <2>6, <2>7 DEF SessionNext
<1> QED BY <1>1, <1>2, PTL DEF SessionSpec

\* Without a click, a step of any number of tabs selects no thread but one that
\* a tab was waiting for, which then waits no more: the tabs cannot write each
\* other's threads back for ever (useChatSession.ts).
THEOREM LateCallbacksSettle == SessionSpec => LateStepsSettle
<1>1. ASSUME SessionInv, clicks \in Nat, SessionNext, clicks' = clicks PROVE Settles
  <2>1. ~Click
    BY <1>1 DEF Click
  <2>2. ASSUME NEW p \in Tab, Created(p) \/ Hydrate(p) \/ RunSeen(p) \/ Sync(p)
        PROVE  Settles
    BY <1>1, <2>2, CreatedSettles, HydrateSettles, RunSeenSettles, SyncSettles
  <2>3. CASE \E t \in Thread : RunAnswers(t) \/ RunFails(t)
    BY <2>3, StayingSettles DEF RunAnswers, RunFails
  <2>4. ASSUME NEW i \in DOMAIN ops,
               \/ StopForClear(i) \/ Serve(i) \/ Cleared(i) \/ Deleted(i) \/ Searched(i)
               \/ OpLost(i)
        PROVE  Settles
    BY <1>1, <2>4, StopForClearSettles, ClearedSettles, DeletedSettles, SearchedSettles,
       StayingSettles DEF Serve
  <2>5. ASSUME NEW i \in DOMAIN asked, SuggestionsArrive(i) PROVE Settles
    BY <1>1, <2>5, SuggestionsSettles
  <2> QED BY <1>1, <2>1, <2>2, <2>3, <2>4, <2>5
          DEF SessionNext, SelectThread, StartNewChat, SendUserMessage, StopStream,
              ClearChat, DeleteThread, SelectedElsewhere, DeletedElsewhere
<1>2. SessionInv /\ clicks \in Nat /\ [SessionNext]_sessionVars
        => [clicks' = clicks => /\ Creating' \subseteq Creating
                                /\ stored' \in {stored, NoThread} \/ Creating' # Creating
           ]_sessionVars
  BY <1>1 DEF Settles
<1> QED BY <1>2, SessionInvariant, ClicksType, PTL DEF SessionSpec, LateStepsSettle
=============================================================================
