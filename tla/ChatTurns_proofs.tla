-------------------------- MODULE ChatTurns_proofs --------------------------
(***************************************************************************)
(* Proofs about ChatTurns and KnowledgeSearch: for every number of turns,  *)
(* calls and messages, every set of servers and tools and every choice of  *)
(* call ids by the model.                                                  *)
(*                                                                         *)
(* All steps but Ask rebuild the messages after the latest question, so    *)
(* the invariant ChatInv says what each single turn is (TurnOK).  The      *)
(* analysis of a turn is a recursive function of the number of messages    *)
(* read; what it knows after each of them (ReadOK) is an induction, done   *)
(* with the least number for which it fails (LeastNat).                    *)
(***************************************************************************)
EXTENDS ChatTurns, KnowledgeSearch, FiniteSetTheorems, SequenceTheorems,
        NaturalsInduction, WellFoundedInduction, TLAPS

\* Every non-empty set of numbers has a least one.
LEMMA LeastNat ==
  ASSUME NEW T \in SUBSET Nat, T # {}
  PROVE  \E n \in T : \A m \in T : n <= m
<1>1. PICK x \in T : \A y \in T : ~(<<y, x>> \in OpToRel(<,Nat))
  BY NatLessThanWellFounded, WFMin, Zenon
<1>2. \A y \in T : ~(y < x)
  BY <1>1, Zenon DEF OpToRel
<1> QED
  BY <1>2

\* Every non-empty set of numbers with a bound has a greatest one.
LEMMA GreatestNat ==
  ASSUME NEW T \in SUBSET Nat, T # {}, NEW b \in Nat, \A m \in T : m <= b
  PROVE  \E n \in T : \A m \in T : m <= n
<1> DEFINE U == {n \in Nat : \A m \in T : m <= n}
<1>1. PICK n \in U : \A m \in U : n <= m
  <2>1. U \in SUBSET Nat /\ b \in U
    OBVIOUS
  <2> QED
    BY <2>1, LeastNat
<1>2. n \in T
  <2> SUFFICES ASSUME n \notin T PROVE FALSE
    OBVIOUS
  <2>1. n # 0 /\ n - 1 \in Nat
    <3>1. PICK m \in T : TRUE
      OBVIOUS
    <3>2. m <= n /\ m # n /\ m \in Nat /\ n \in Nat
      OBVIOUS
    <3> QED
      BY <3>2
  <2>2. \A m \in T : m <= n - 1
    OBVIOUS
  <2> QED
    BY <1>1, <2>1, <2>2
<1> QED
  BY <1>2

-----------------------------------------------------------------------------
(***************************************************************************)
(* Messages, turns, and what a step does to them.                          *)
(***************************************************************************)
Message == Human \cup AI \cup Result
Said == AI \cup Result

\* The kind of a message tells which of the three sets it is of.
LEMMA KindsOfMessages ==
  /\ \A m \in Message : m.kind \in {"human", "ai", "tool"}
  /\ \A m \in Message : m.kind = "human" <=> m \in Human
  /\ \A m \in Message : m.kind = "ai" <=> m \in AI
  /\ \A m \in Message : m.kind = "tool" <=> m \in Result
  /\ \A m \in Said : m \in Message /\ m.kind # "human"
  /\ Question \in Human
BY DEF Message, Said, Human, AI, Result, Question

\* The turn of a question, by the messages.
Ends(ms, q, e) ==
  /\ e \in q..Len(ms)
  /\ \A i \in q + 1..e : i \notin Kind("human", ms)
  /\ e < Len(ms) => e + 1 \in Kind("human", ms)
EndIn(ms, q) == CHOOSE e \in q..Len(ms) :
  /\ \A i \in q + 1..e : i \notin Kind("human", ms)
  /\ e < Len(ms) => e + 1 \in Kind("human", ms)
TurnIn(ms, q) == SubSeq(ms, q + 1, EndIn(ms, q))

LEMMA TurnOfIs == \A q : TurnOf(q) = TurnIn(messages, q)
BY DEF TurnOf, EndOf, TurnIn, EndIn, Turns

\* A turn has one end,
LEMMA EndIs ==
  ASSUME NEW ms \in Seq(Message), NEW q \in Nat, NEW e, Ends(ms, q, e)
  PROVE  EndIn(ms, q) = e
<1> DEFINE f == EndIn(ms, q)
<1>1. Ends(ms, q, f)
  BY DEF EndIn, Ends
<1>2. e \in Nat /\ f \in Nat /\ Len(ms) \in Nat
  BY <1>1, LenProperties DEF Ends
<1>3. ~(e < f)
  BY <1>1, <1>2 DEF Ends
<1>4. ~(f < e)
  BY <1>1, <1>2 DEF Ends
<1> HIDE DEF f
<1> QED
  BY <1>2, <1>3, <1>4 DEF f

\* and has one.
LEMMA EndExists ==
  ASSUME NEW ms \in Seq(Message), NEW q \in 0..Len(ms)
  PROVE  Ends(ms, q, EndIn(ms, q))
<1> DEFINE T == {n \in q..Len(ms) : n < Len(ms) => n + 1 \in Kind("human", ms)}
<1>1. Len(ms) \in Nat /\ DOMAIN ms = 1..Len(ms)
  BY LenProperties
<1>2. PICK e \in T : \A m \in T : e <= m
  <2>1. T \in SUBSET Nat /\ Len(ms) \in T
    BY <1>1
  <2> QED
    BY <2>1, LeastNat
<1>3. Ends(ms, q, e)
  <2>1. ASSUME NEW i \in q + 1..e, i \in Kind("human", ms)
        PROVE  FALSE
    <3>1. i \in Nat /\ e \in Nat /\ i - 1 \in T /\ i - 1 < e
      BY <2>1, <1>1 DEF Kind
    <3>2. e <= i - 1
      BY <3>1, <1>2
    <3> QED
      BY <3>1, <3>2
  <2> QED
    BY <2>1, <1>2 DEF Ends
<1> QED
  BY <1>1, <1>3, EndIs

\* LatestHuman is the greatest place of a question, or 0 if there is none.
LEMMA LatestHumanIs ==
  ASSUME NEW ms \in Seq(Message)
  PROVE  /\ LatestHuman(ms) \in 0..Len(ms)
         /\ LatestHuman(ms) \in Kind("human", ms) \cup {0}
         /\ \A j \in Kind("human", ms) : j <= LatestHuman(ms)
         /\ \A h \in Kind("human", ms) \cup {0} :
              (\A j \in Kind("human", ms) : j <= h) => LatestHuman(ms) = h
<1>1. Len(ms) \in Nat /\ DOMAIN ms = 1..Len(ms)
  BY LenProperties
<1> DEFINE T == Kind("human", ms) \cup {0}
<1>2. T \subseteq 0..Len(ms)
  BY <1>1 DEF Kind
<1>3. \E n \in T : \A m \in T : m <= n
  <2>1. T \in SUBSET Nat /\ T # {} /\ \A m \in T : m <= Len(ms)
    BY <1>1, <1>2
  <2> HIDE DEF T
  <2> QED
    BY <1>1, <2>1, GreatestNat
<1>4. \E n \in T : \A m \in Kind("human", ms) : m <= n
  BY <1>3
<1>5. LatestHuman(ms) \in T /\ \A j \in Kind("human", ms) : j <= LatestHuman(ms)
  BY <1>4 DEF LatestHuman
<1>6. ASSUME NEW h \in T, \A j \in Kind("human", ms) : j <= h
      PROVE  LatestHuman(ms) = h
  BY <1>6, <1>5, <1>2, <1>1
<1> QED
  BY <1>2, <1>5, <1>6

\* The messages with another current turn.
Rebuilt(ms, t) == SubSeq(ms, 1, LatestHuman(ms)) \o t

\* The current turn is what follows the latest question.
LEMMA CurrentTurnFacts ==
  ASSUME NEW ms \in Seq(Message), Kind("human", ms) # {}
  PROVE  /\ LatestHuman(ms) \in Kind("human", ms) /\ LatestHuman(ms) \in 1..Len(ms)
         /\ CurrentTurn(ms) \in Seq(Said) /\ Len(CurrentTurn(ms)) = Len(ms) - LatestHuman(ms)
         /\ \A i \in 1..Len(ms) - LatestHuman(ms) : CurrentTurn(ms)[i] = ms[LatestHuman(ms) + i]
         /\ TurnIn(ms, LatestHuman(ms)) = CurrentTurn(ms)
<1> DEFINE h == LatestHuman(ms)
<1>1. Len(ms) \in Nat /\ DOMAIN ms = 1..Len(ms) /\ \A i \in 1..Len(ms) : ms[i] \in Message
  BY LenProperties
<1>2. h \in Kind("human", ms) /\ h \in 1..Len(ms) /\ \A j \in Kind("human", ms) : j <= h
  BY LatestHumanIs, <1>1 DEF Kind
<1>3. \A i \in h + 1..Len(ms) : ms[i] \in Said
  <2>1. \A i \in h + 1..Len(ms) : i \notin Kind("human", ms) /\ i \in 1..Len(ms)
    BY <1>1, <1>2
  <2> QED
    BY <2>1, <1>1, KindsOfMessages DEF Kind, Message, Said
<1> HIDE DEF h
<1> DEFINE c == SubSeq(ms, h + 1, Len(ms))
<1>4. c \in Seq(Said) /\ Len(c) = Len(ms) - h /\ \A i \in 1..Len(ms) - h : c[i] = ms[h + i]
  <2>1. h + 1 \in Int /\ Len(ms) \in Int
    BY <1>1, <1>2
  <2>2. /\ c \in Seq(Said)
        /\ Len(c) = IF h + 1 <= Len(ms) THEN Len(ms) - (h + 1) + 1 ELSE 0
        /\ \A i \in 1..Len(ms) - (h + 1) + 1 : c[i] = ms[h + 1 + i - 1]
    BY <1>3, <2>1, SubSeqProperties
  <2> HIDE DEF c
  <2>3. Len(c) = Len(ms) - h
    BY <2>2, <1>1, <1>2
  <2>4. ASSUME NEW i \in 1..Len(ms) - h
        PROVE  c[i] = ms[h + i]
    <3>1. i \in 1..Len(ms) - (h + 1) + 1 /\ h + 1 + i - 1 = h + i
      BY <1>1, <1>2
    <3> QED
      BY <3>1, <2>2
  <2> QED
    BY <2>2, <2>3, <2>4
<1>5. Ends(ms, h, Len(ms))
  BY <1>1, <1>2 DEF Ends
<1>6. EndIn(ms, h) = Len(ms)
  BY <1>5, <1>2, EndIs
<1> QED
  BY <1>2, <1>4, <1>6 DEF c, h, CurrentTurn, TurnIn

\* Rebuilt(ms, t) is ms with t as its current turn,
LEMMA RebuiltFacts ==
  ASSUME NEW ms \in Seq(Message), Kind("human", ms) # {}, NEW t \in Seq(Said)
  PROVE  /\ Rebuilt(ms, t) \in Seq(Message)
         /\ Len(Rebuilt(ms, t)) = LatestHuman(ms) + Len(t)
         /\ \A i \in 1..LatestHuman(ms) : Rebuilt(ms, t)[i] = ms[i]
         /\ \A i \in 1..Len(t) : Rebuilt(ms, t)[LatestHuman(ms) + i] = t[i]
<1> DEFINE h == LatestHuman(ms)
           s == SubSeq(ms, 1, h)
<1>1. Len(ms) \in Nat /\ h \in 1..Len(ms) /\ \A i \in 1..Len(ms) : ms[i] \in Message
  BY LenProperties, CurrentTurnFacts
<1> HIDE DEF h
<1>2. s \in Seq(Message) /\ Len(s) = h /\ \A i \in 1..h : s[i] = ms[i]
  <2>1. \A i \in 1..h : ms[i] \in Message
    BY <1>1
  <2>2. /\ s \in Seq(Message) /\ Len(s) = IF 1 <= h THEN h - 1 + 1 ELSE 0
        /\ \A i \in 1..h - 1 + 1 : s[i] = ms[1 + i - 1]
    BY <1>1, <2>1, SubSeqProperties
  <2> QED
    BY <1>1, <2>2
<1> HIDE DEF s
<1>3. t \in Seq(Message) /\ Len(t) \in Nat
  BY LenProperties, SeqMonotonic, KindsOfMessages
<1> DEFINE c == s \o t
<1>4. /\ c \in Seq(Message) /\ Len(c) = h + Len(t)
      /\ \A i \in 1..h + Len(t) : c[i] = IF i <= h THEN s[i] ELSE t[i - h]
  BY <1>2, <1>3, ConcatProperties
<1> HIDE DEF c
<1>5. \A i \in 1..h : c[i] = ms[i]
  BY <1>1, <1>2, <1>3, <1>4
<1>6. \A i \in 1..Len(t) : c[h + i] = t[i]
  <2> TAKE i \in 1..Len(t)
  <2>1. PICK j \in 1..h + Len(t) : j = h + i
    BY <1>1, <1>3
  <2>2. ~(j <= h) /\ j - h = i
    BY <2>1, <1>1, <1>3
  <2>3. c[j] = t[j - h]
    BY <2>2, <1>4
  <2> QED
    BY <2>1, <2>2, <2>3
<1> QED
  BY <1>4, <1>5, <1>6 DEF c, h, s, Rebuilt

\* and nothing else is.
LEMMA RebuiltIs ==
  ASSUME NEW ms \in Seq(Message), Kind("human", ms) # {}, NEW t \in Seq(Said),
         NEW r \in Seq(Message), Len(r) = LatestHuman(ms) + Len(t),
         \A i \in 1..LatestHuman(ms) : r[i] = ms[i],
         \A i \in 1..Len(t) : r[LatestHuman(ms) + i] = t[i]
  PROVE  r = Rebuilt(ms, t)
<1> DEFINE h == LatestHuman(ms)
<1>1. h \in Nat /\ Len(t) \in Nat
  BY LenProperties, CurrentTurnFacts
<1>2. ASSUME NEW i \in 1..Len(r)
      PROVE  r[i] = Rebuilt(ms, t)[i]
  <2>1. CASE i <= h
    BY <1>1, <2>1, RebuiltFacts
  <2>2. CASE ~(i <= h)
    <3>1. i - h \in 1..Len(t) /\ h + (i - h) = i
      BY <1>1, <2>2
    <3> QED
      BY <3>1, RebuiltFacts
  <2> QED
    BY <2>1, <2>2
<1>3. Rebuilt(ms, t) \in Seq(Message) /\ Len(Rebuilt(ms, t)) = Len(r)
  BY RebuiltFacts
<1> QED
  BY <1>2, <1>3, SeqEqual

LEMMA SubSeqSame ==
  ASSUME NEW r \in Seq(Message), NEW s \in Seq(Message), NEW q \in Nat, NEW e \in Nat,
         e <= Len(r), e <= Len(s), \A i \in q + 1..e : r[i] = s[i]
  PROVE  SubSeq(r, q + 1, e) = SubSeq(s, q + 1, e)
<1> DEFINE a == SubSeq(r, q + 1, e)
           b == SubSeq(s, q + 1, e)
<1>1. \A i \in q + 1..e : r[i] \in Message /\ s[i] \in Message
  <2>1. Len(r) \in Nat /\ Len(s) \in Nat
    BY LenProperties
  <2>2. \A i \in q + 1..e : i \in 1..Len(r) /\ i \in 1..Len(s)
    BY <2>1
  <2> QED
    BY <2>2, ElementOfSeq
<1>2. q + 1 \in Int /\ e \in Int
  OBVIOUS
<1>3. /\ a \in Seq(Message) /\ Len(a) = IF q + 1 <= e THEN e - (q + 1) + 1 ELSE 0
      /\ \A i \in 1..e - (q + 1) + 1 : a[i] = r[q + 1 + i - 1]
  BY <1>1, <1>2, SubSeqProperties
<1>4. /\ b \in Seq(Message) /\ Len(b) = IF q + 1 <= e THEN e - (q + 1) + 1 ELSE 0
      /\ \A i \in 1..e - (q + 1) + 1 : b[i] = s[q + 1 + i - 1]
  BY <1>1, <1>2, SubSeqProperties
<1> HIDE DEF a, b
<1>5. \A i \in 1..Len(a) : a[i] = b[i]
  <2> TAKE i \in 1..Len(a)
  <2>1. i \in 1..e - (q + 1) + 1 /\ q + 1 + i - 1 \in q + 1..e
    BY <1>2, <1>3
  <2> QED
    BY <2>1, <1>3, <1>4
<1>6. a = b
  BY <1>3, <1>4, <1>5, SeqEqual
<1> QED
  BY <1>6 DEF a, b

\* Rebuilding changes no question and no turn but the current one.
LEMMA RebuiltTurns ==
  ASSUME NEW ms \in Seq(Message), Kind("human", ms) # {}, NEW t \in Seq(Said)
  PROVE  /\ Kind("human", Rebuilt(ms, t)) = Kind("human", ms)
         /\ LatestHuman(Rebuilt(ms, t)) = LatestHuman(ms)
         /\ CurrentTurn(Rebuilt(ms, t)) = t
         /\ TurnIn(Rebuilt(ms, t), LatestHuman(ms)) = t
         /\ \A q \in Kind("human", ms) \ {LatestHuman(ms)} :
              TurnIn(Rebuilt(ms, t), q) = TurnIn(ms, q)
<1> DEFINE h == LatestHuman(ms)
           r == Rebuilt(ms, t)
<1>1. /\ Len(ms) \in Nat /\ DOMAIN ms = 1..Len(ms) /\ h \in 1..Len(ms)
      /\ h \in Kind("human", ms) /\ \A j \in Kind("human", ms) : j <= h
  BY LenProperties, CurrentTurnFacts, LatestHumanIs
<1>2. /\ r \in Seq(Message) /\ Len(r) = h + Len(t) /\ DOMAIN r = 1..Len(r)
      /\ \A i \in 1..h : r[i] = ms[i]
      /\ \A i \in 1..Len(t) : r[h + i] = t[i]
      /\ Len(t) \in Nat /\ \A i \in 1..Len(t) : t[i] \in Said
  BY RebuiltFacts, LenProperties
<1> HIDE DEF h, r
<1>3. Kind("human", r) = Kind("human", ms)
  <2>1. ASSUME NEW i \in Kind("human", r) PROVE i \in Kind("human", ms)
    <3>1. i \in 1..h + Len(t) /\ r[i].kind = "human"
      BY <2>1, <1>2 DEF Kind
    <3>2. i <= h
      <4> SUFFICES ASSUME ~(i <= h) PROVE FALSE
        OBVIOUS
      <4>1. i - h \in 1..Len(t) /\ h + (i - h) = i
        BY <3>1, <1>1, <1>2
      <4>2. r[i] \in Said
        BY <4>1, <1>2
      <4> QED
        BY <4>2, <3>1, KindsOfMessages
    <3> QED
      BY <3>1, <3>2, <1>1, <1>2 DEF Kind
  <2>2. ASSUME NEW i \in Kind("human", ms) PROVE i \in Kind("human", r)
    <3>1. i \in 1..h /\ i \in 1..Len(r)
      BY <1>1, <1>2 DEF Kind
    <3> QED
      BY <3>1, <2>2, <1>2 DEF Kind
  <2> QED
    BY <2>1, <2>2
<1>4. LatestHuman(r) = h
  BY <1>1, <1>2, <1>3, LatestHumanIs
<1>5. /\ CurrentTurn(r) \in Seq(Said) /\ Len(CurrentTurn(r)) = Len(t)
      /\ \A i \in 1..Len(t) : CurrentTurn(r)[i] = t[i]
      /\ TurnIn(r, h) = CurrentTurn(r)
  <2>1. Len(r) - h = Len(t)
    BY <1>1, <1>2
  <2> QED
    BY <1>1, <1>2, <1>3, <1>4, <2>1, CurrentTurnFacts
<1>6. CurrentTurn(r) = t
  BY <1>5, SeqEqual
<1>7. ASSUME NEW q \in Kind("human", ms) \ {h}
      PROVE  TurnIn(r, q) = TurnIn(ms, q)
  <2> DEFINE e == EndIn(ms, q)
  <2>1. q \in 1..Len(ms) /\ q < h
    BY <1>1 DEF Kind
  <2>2. Ends(ms, q, e)
    BY <2>1, EndExists
  <2> HIDE DEF e
  <2>3. e \in Nat /\ e < h
    BY <2>1, <2>2, <1>1 DEF Ends
  <2>4. Ends(r, q, e)
    BY <2>1, <2>2, <2>3, <1>1, <1>2, <1>3 DEF Ends
  <2>5. EndIn(r, q) = e
    BY <2>1, <2>4, <1>2, EndIs
  <2>6. SubSeq(r, q + 1, e) = SubSeq(ms, q + 1, e)
    <3>1. e <= Len(r) /\ e <= Len(ms) /\ \A i \in q + 1..e : r[i] = ms[i]
      BY <2>1, <2>3, <1>1, <1>2
    <3> QED
      BY <3>1, <2>1, <2>3, <1>2, SubSeqSame
  <2> QED
    BY <2>5, <2>6 DEF e, TurnIn
<1> QED
  BY <1>3, <1>4, <1>5, <1>6, <1>7 DEF h, r

\* What the actions do to the messages: one more, some results, another last one,
\* or a question.
LEMMA RebuiltSelf ==
  ASSUME NEW ms \in Seq(Message), Kind("human", ms) # {}
  PROVE  ms = Rebuilt(ms, CurrentTurn(ms))
<1> DEFINE h == LatestHuman(ms)
           t == CurrentTurn(ms)
<1>1. /\ t \in Seq(Said) /\ Len(t) = Len(ms) - h /\ h \in 1..Len(ms) /\ Len(ms) \in Nat
      /\ \A i \in 1..Len(ms) - h : t[i] = ms[h + i]
  BY CurrentTurnFacts, LenProperties
<1> HIDE DEF h, t
<1>2. Len(ms) = h + Len(t) /\ \A i \in 1..Len(t) : ms[h + i] = t[i]
  BY <1>1
<1> QED
  BY <1>1, <1>2, RebuiltIs DEF h, t

\* Adding messages, adding one and replacing the last one are rebuildings.
LEMMA ConcatRebuilds ==
  ASSUME NEW ms \in Seq(Message), Kind("human", ms) # {}, NEW rs \in Seq(Said)
  PROVE  /\ CurrentTurn(ms) \o rs \in Seq(Said)
         /\ ms \o rs \in Seq(Message)
         /\ ms \o rs = Rebuilt(ms, CurrentTurn(ms) \o rs)
<1> DEFINE h == LatestHuman(ms)
           t == CurrentTurn(ms)
           u == t \o rs
           r == ms \o rs
<1>1. /\ t \in Seq(Said) /\ Len(t) = Len(ms) - h /\ h \in 1..Len(ms) /\ Len(ms) \in Nat
      /\ \A i \in 1..Len(ms) - h : t[i] = ms[h + i]
  BY CurrentTurnFacts, LenProperties
<1> HIDE DEF h, t
<1>2. /\ u \in Seq(Said) /\ Len(u) = Len(t) + Len(rs)
      /\ \A i \in 1..Len(t) + Len(rs) : u[i] = IF i <= Len(t) THEN t[i] ELSE rs[i - Len(t)]
  BY <1>1, ConcatProperties
<1>3. rs \in Seq(Message) /\ Len(rs) \in Nat
  BY LenProperties, SeqMonotonic, KindsOfMessages
<1>4. /\ r \in Seq(Message) /\ Len(r) = Len(ms) + Len(rs)
      /\ \A i \in 1..Len(ms) + Len(rs) : r[i] = IF i <= Len(ms) THEN ms[i] ELSE rs[i - Len(ms)]
  BY <1>3, ConcatProperties
<1> HIDE DEF u, r
<1>5. Len(r) = h + Len(u) /\ \A i \in 1..h : r[i] = ms[i]
  BY <1>1, <1>2, <1>3, <1>4
<1>6. ASSUME NEW i \in 1..Len(u)
      PROVE  r[h + i] = u[i]
  <2>1. PICK j \in 1..Len(ms) + Len(rs) : j = h + i
    BY <1>1, <1>2, <1>3
  <2>2. CASE i <= Len(t)
    <3>1. r[j] = ms[j] /\ u[i] = t[i] /\ t[i] = ms[h + i]
      BY <2>1, <2>2, <1>1, <1>2, <1>4
    <3> QED
      BY <3>1, <2>1
  <2>3. CASE ~(i <= Len(t))
    <3>1. ~(j <= Len(ms)) /\ j - Len(ms) = i - Len(t)
      BY <2>1, <2>3, <1>1, <1>2, <1>3
    <3>2. r[j] = rs[j - Len(ms)] /\ u[i] = rs[i - Len(t)]
      BY <3>1, <2>3, <1>2, <1>4
    <3> QED
      BY <3>1, <3>2, <2>1
  <2> QED
    BY <2>2, <2>3
<1>7. r = Rebuilt(ms, u)
  BY <1>2, <1>4, <1>5, <1>6, RebuiltIs DEF h
<1> QED
  BY <1>2, <1>4, <1>7 DEF r, u, t

LEMMA AppendRebuilds ==
  ASSUME NEW ms \in Seq(Message), Kind("human", ms) # {}, NEW m \in Said
  PROVE  /\ Append(CurrentTurn(ms), m) \in Seq(Said)
         /\ Append(ms, m) = Rebuilt(ms, Append(CurrentTurn(ms), m))
<1>1. <<m>> \in Seq(Said) /\ CurrentTurn(ms) \in Seq(Said) /\ m \in Message
  BY CurrentTurnFacts, KindsOfMessages
<1>2. Append(ms, m) = ms \o <<m>> /\ Append(CurrentTurn(ms), m) = CurrentTurn(ms) \o <<m>>
  BY <1>1
<1> QED
  BY <1>1, <1>2, ConcatRebuilds

\* A turn with another last message.
Replaced(t, m) == [t EXCEPT ![Len(t)] = m]

LEMMA ReplaceRebuilds ==
  ASSUME NEW ms \in Seq(Message), Kind("human", ms) # {}, CurrentTurn(ms) # <<>>,
         NEW m \in Said
  PROVE  /\ Replaced(CurrentTurn(ms), m) \in Seq(Said)
         /\ Append(RemoveAt(ms, Len(ms)), m) = Rebuilt(ms, Replaced(CurrentTurn(ms), m))
<1> DEFINE h == LatestHuman(ms)
           t == CurrentTurn(ms)
           u == Replaced(t, m)
           n == Len(ms)
           f == SubSeq(ms, 1, n - 1)
           r == Append(f, m)
<1>1. /\ t \in Seq(Said) /\ Len(t) = n - h /\ h \in 1..n /\ n \in Nat
      /\ \A i \in 1..n - h : t[i] = ms[h + i]
  BY CurrentTurnFacts, LenProperties
<1>2. Len(t) \in Nat \ {0}
  BY <1>1, EmptySeq
<1>3. /\ u \in Seq(Said) /\ Len(u) = Len(t)
      /\ \A i \in 1..Len(t) : u[i] = IF i = Len(t) THEN m ELSE t[i]
  BY <1>1, <1>2, ExceptSeq DEF Replaced
<1>4. f \in Seq(Message) /\ Len(f) = n - 1 /\ \A i \in 1..n - 1 : f[i] = ms[i]
  <2>1. \A i \in 1..n - 1 : ms[i] \in Message
    BY <1>1, ElementOfSeq
  <2>2. /\ f \in Seq(Message) /\ Len(f) = IF 1 <= n - 1 THEN n - 1 - 1 + 1 ELSE 0
        /\ \A i \in 1..n - 1 - 1 + 1 : f[i] = ms[1 + i - 1]
    BY <1>1, <2>1, SubSeqProperties
  <2> HIDE DEF f
  <2> QED
    BY <1>1, <2>2
<1>5. RemoveAt(ms, n) = f
  <2>1. SubSeq(ms, n + 1, n) = <<>>
    BY <1>1, SubSeqEmpty
  <2>2. RemoveAt(ms, n) = f \o <<>>
    BY <2>1 DEF RemoveAt
  <2> HIDE DEF f
  <2> QED
    BY <2>2, <1>4, ConcatEmptySeq
<1>6. /\ r \in Seq(Message) /\ Len(r) = n /\ \A i \in 1..n - 1 : r[i] = ms[i]
      /\ r[n] = m
  <2> HIDE DEF f
  <2> QED
    BY <1>1, <1>4, KindsOfMessages
<1> HIDE DEF h, t, u, n, f, r
<1>7. Len(r) = h + Len(u) /\ \A i \in 1..h : r[i] = ms[i]
  BY <1>1, <1>2, <1>3, <1>6
<1>8. ASSUME NEW i \in 1..Len(u)
      PROVE  r[h + i] = u[i]
  <2>1. CASE i = Len(t)
    BY <2>1, <1>1, <1>3, <1>6
  <2>2. CASE i # Len(t)
    <3>1. PICK j \in 1..n - 1 : j = h + i
      BY <2>2, <1>1, <1>2, <1>3
    <3>2. r[j] = ms[j] /\ u[i] = t[i] /\ t[i] = ms[h + i]
      BY <3>1, <2>2, <1>1, <1>3, <1>6
    <3> QED
      BY <3>1, <3>2
  <2> QED
    BY <2>1, <2>2
<1>9. r = Rebuilt(ms, u)
  BY <1>3, <1>6, <1>7, <1>8, RebuiltIs DEF h
<1> QED
  BY <1>3, <1>5, <1>9 DEF r, u, t, n

\* A question starts a turn and changes no other.
LEMMA AskedTurns ==
  ASSUME NEW ms \in Seq(Message)
  PROVE  /\ Append(ms, Question) \in Seq(Message)
         /\ Kind("human", Append(ms, Question)) = Kind("human", ms) \cup {Len(ms) + 1}
         /\ Len(ms) + 1 \notin Kind("human", ms)
         /\ \A q \in Kind("human", ms) : q < Len(ms) + 1
         /\ LatestHuman(Append(ms, Question)) = Len(ms) + 1
         /\ CurrentTurn(Append(ms, Question)) = <<>>
         /\ TurnIn(Append(ms, Question), Len(ms) + 1) = <<>>
         /\ \A q \in Kind("human", ms) : TurnIn(Append(ms, Question), q) = TurnIn(ms, q)
<1> DEFINE n == Len(ms)
           r == Append(ms, Question)
<1>1. n \in Nat /\ DOMAIN ms = 1..n
  BY LenProperties
<1>2. /\ r \in Seq(Message) /\ Len(r) = n + 1 /\ DOMAIN r = 1..n + 1
      /\ r[n + 1] = Question /\ \A i \in 1..n : r[i] = ms[i]
  BY <1>1, KindsOfMessages DEF Message
<1> HIDE DEF n, r
<1>3. Kind("human", r) = Kind("human", ms) \cup {n + 1}
  <2>1. Question.kind = "human"
    BY DEF Question
  <2>2. ASSUME NEW i \in Kind("human", r) PROVE i \in Kind("human", ms) \cup {n + 1}
    <3>1. i \in 1..n + 1 /\ r[i].kind = "human"
      BY <2>2, <1>2 DEF Kind
    <3>2. CASE i = n + 1
      BY <3>2
    <3>3. CASE i # n + 1
      BY <3>1, <3>3, <1>1, <1>2 DEF Kind
    <3> QED
      BY <3>2, <3>3
  <2>3. ASSUME NEW i \in Kind("human", ms) PROVE i \in Kind("human", r)
    BY <2>3, <1>1, <1>2 DEF Kind
  <2>4. n + 1 \in Kind("human", r)
    BY <2>1, <1>1, <1>2 DEF Kind
  <2> QED
    BY <2>2, <2>3, <2>4
<1>4. n + 1 \notin Kind("human", ms) /\ \A q \in Kind("human", ms) : q < n + 1
  BY <1>1 DEF Kind
<1>5. LatestHuman(r) = n + 1
  <2>1. \A j \in Kind("human", r) : j <= n + 1
    BY <1>1, <1>3, <1>4 DEF Kind
  <2> QED
    BY <2>1, <1>2, <1>3, LatestHumanIs
<1>6. CurrentTurn(r) = <<>> /\ TurnIn(r, n + 1) = <<>>
  <2>1. Kind("human", r) # {}
    BY <1>3
  <2>2. /\ CurrentTurn(r) \in Seq(Said)
        /\ Len(CurrentTurn(r)) = Len(r) - LatestHuman(r)
        /\ TurnIn(r, LatestHuman(r)) = CurrentTurn(r)
    BY <2>1, <1>2, CurrentTurnFacts
  <2>3. Len(CurrentTurn(r)) = 0
    BY <2>2, <1>1, <1>2, <1>5
  <2>4. CurrentTurn(r) = <<>>
    BY <2>2, <2>3, EmptySeq
  <2> QED
    BY <2>2, <2>4, <1>5
<1>7. ASSUME NEW q \in Kind("human", ms)
      PROVE  TurnIn(r, q) = TurnIn(ms, q)
  <2> DEFINE e == EndIn(ms, q)
  <2>1. q \in 1..n
    BY <1>1 DEF Kind
  <2>2. Ends(ms, q, e) /\ e \in Nat /\ e <= n
    <3>1. Ends(ms, q, e)
      BY <2>1, EndExists DEF n
    <3> QED
      BY <3>1, <2>1, <1>1 DEF Ends, n
  <2> HIDE DEF e
  <2>3. Ends(r, q, e)
    BY <2>1, <2>2, <1>1, <1>2, <1>3 DEF Ends, n
  <2>4. EndIn(r, q) = e
    BY <2>1, <2>3, <1>2, EndIs
  <2>5. SubSeq(r, q + 1, e) = SubSeq(ms, q + 1, e)
    <3>1. e <= Len(r) /\ e <= Len(ms) /\ \A i \in q + 1..e : r[i] = ms[i]
      BY <2>1, <2>2, <1>1, <1>2 DEF n
    <3> QED
      BY <3>1, <2>1, <2>2, <1>2, SubSeqSame
  <2> QED
    BY <2>4, <2>5 DEF e, TurnIn
<1> QED
  BY <1>2, <1>3, <1>4, <1>5, <1>6, <1>7 DEF n, r

-----------------------------------------------------------------------------
(***************************************************************************)
(* The analysis of a turn, as a fold over its messages.                    *)
(***************************************************************************)
NoNotes == [pending |-> [id \in CallId |-> NoPlace], inv |-> <<>>]

IsNotes(ms, n, f) ==
  f = [i \in 0..n |-> IF i = 0 THEN NoNotes ELSE Note(f[i - 1], ms[i], i)]

\* The recursive function Notes is well defined,
LEMMA NotesExist ==
  ASSUME NEW ms, NEW n \in Nat
  PROVE  \E f : IsNotes(ms, n, f)
<1> DEFINE T == {k \in Nat : ~ \E f : IsNotes(ms, k, f)}
<1> SUFFICES ASSUME T # {} PROVE FALSE
  OBVIOUS
<1>1. PICK k \in T : \A m \in T : k <= m
  BY LeastNat
<1>2. CASE k = 0
  <2>1. IsNotes(ms, 0, [i \in 0..0 |-> NoNotes])
    BY DEF IsNotes
  <2> QED
    BY <2>1, <1>1, <1>2
<1>3. CASE k # 0
  <2>1. k - 1 \in Nat /\ ~(k <= k - 1)
    BY <1>1, <1>3
  <2>2. k - 1 \notin T
    BY <2>1, <1>1
  <2>3. PICK f : IsNotes(ms, k - 1, f)
    BY <2>1, <2>2
  <2> DEFINE g == [i \in 0..k |-> IF i = k THEN Note(f[k - 1], ms[k], k) ELSE f[i]]
  <2>4. \A i \in 0..k - 1 : f[i] = IF i = 0 THEN NoNotes ELSE Note(f[i - 1], ms[i], i)
    BY <2>1, <2>3 DEF IsNotes
  <2>5. ASSUME NEW i \in 0..k
        PROVE  g[i] = IF i = 0 THEN NoNotes ELSE Note(g[i - 1], ms[i], i)
    <3>1. CASE i = k
      <4>1. g[k] = Note(f[k - 1], ms[k], k) /\ g[k - 1] = f[k - 1]
        BY <2>1, <1>1
      <4> QED
        BY <4>1, <3>1, <1>3
    <3>2. CASE i # k
      <4>1. i \in 0..k - 1 /\ g[i] = f[i] /\ (i # 0 => g[i - 1] = f[i - 1])
        BY <3>2, <1>1
      <4> QED
        BY <4>1, <2>4
    <3> QED
      BY <3>1, <3>2
  <2>6. g = [i \in 0..k |-> IF i = 0 THEN NoNotes ELSE Note(g[i - 1], ms[i], i)]
    <3> HIDE DEF g
    <3> SUFFICES g = [i \in 0..k |-> g[i]]
      BY <2>5, Zenon
    <3> QED
      BY DEF g
  <2>7. IsNotes(ms, k, g)
    BY <2>6 DEF IsNotes
  <2> QED
    BY <2>7, <1>1
<1> QED
  BY <1>2, <1>3

\* so it is the fold its definition says.
LEMMA NotesAre ==
  ASSUME NEW ms, Len(ms) \in Nat
  PROVE  /\ Notes(ms)[0] = NoNotes
         /\ \A i \in 1..Len(ms) : Notes(ms)[i] = Note(Notes(ms)[i - 1], ms[i], i)
<1>1. IsNotes(ms, Len(ms), Notes(ms))
  <2>1. \E f : IsNotes(ms, Len(ms), f)
    BY NotesExist
  <2>2. \E f : f = [i \in 0..Len(ms) |->
          IF i = 0 THEN [pending |-> [id \in CallId |-> NoPlace], inv |-> <<>>]
          ELSE Note(f[i - 1], ms[i], i)]
    BY <2>1, Zenon DEF IsNotes, NoNotes
  <2> QED
    BY <2>2, Zenon DEF Notes, IsNotes, NoNotes
<1> HIDE DEF Notes
<1> QED
  BY <1>1 DEF IsNotes

-----------------------------------------------------------------------------
Invoked == [id : CallId, tool : Tool, got : {"nothing", "success", "error"}]

\* What the analysis knows after i messages: what is pending has got nothing.
AccOK(i, acc) ==
  /\ acc = [pending |-> acc.pending, inv |-> acc.inv]
  /\ DOMAIN acc.pending = CallId
  /\ DOMAIN acc.inv \subseteq (1..i) \X Nat /\ IsFiniteSet(DOMAIN acc.inv)
  /\ acc.inv \in [DOMAIN acc.inv -> Invoked]
  /\ \A id \in CallId : acc.pending[id] # NoPlace =>
       /\ acc.pending[id] \in DOMAIN acc.inv
       /\ acc.inv[acc.pending[id]].id = id /\ acc.inv[acc.pending[id]].got = "nothing"

Got(inv, s) == {p \in DOMAIN inv : inv[p].got = s}
OneMore(S, T) == \E p : p \notin S /\ T = S \cup {p}

\* Of the calls of a message that share an id, LastCall is one.
LEMMA LastCallIs ==
  ASSUME NEW m \in AI, NEW id, NEW k \in DOMAIN m.calls, m.calls[k].id = id
  PROVE  LastCall(m, id) \in DOMAIN m.calls /\ m.calls[LastCall(m, id)].id = id
<1> DEFINE T == {l \in DOMAIN m.calls : m.calls[l].id = id}
<1>1. m.calls \in Seq(Call)
  BY DEF AI
<1>2. DOMAIN m.calls = 1..Len(m.calls) /\ Len(m.calls) \in Nat
  BY <1>1, LenProperties
<1>3. PICK l \in T : \A j \in T : j <= l
  <2>1. T \in SUBSET Nat /\ k \in T /\ \A j \in T : j <= Len(m.calls)
    BY <1>2
  <2> HIDE DEF T
  <2> QED
    BY <2>1, <1>2, GreatestNat
<1>4. l \in DOMAIN m.calls /\ m.calls[l].id = id
      /\ \A j \in DOMAIN m.calls : m.calls[j].id = id => j <= l
  BY <1>3
<1> HIDE DEF T
<1> QED
  BY <1>4 DEF LastCall

\* Reading calls adds no result; reading a result adds that one.
LEMMA NoteCallsFacts ==
  ASSUME NEW i \in Nat \ {0}, NEW acc, AccOK(i - 1, acc), NEW m \in AI
  PROVE  /\ AccOK(i, NoteCalls(acc, m, i))
         /\ \A s \in {"success", "error"} : Got(NoteCalls(acc, m, i).inv, s) = Got(acc.inv, s)
<1> DEFINE new == {i} \X DOMAIN m.calls
           a == NoteCalls(acc, m, i)
<1>1. m.calls \in Seq(Call)
  BY DEF AI
<1>2. /\ DOMAIN m.calls = 1..Len(m.calls) /\ Len(m.calls) \in Nat
      /\ \A k \in DOMAIN m.calls : m.calls[k] \in Call
  BY <1>1, LenProperties
<1>3. /\ a.pending = [id \in CallId |-> IF \E k \in DOMAIN m.calls : m.calls[k].id = id
                                        THEN <<i, LastCall(m, id)>> ELSE acc.pending[id]]
      /\ a.inv = [p \in DOMAIN acc.inv \cup new |->
                    IF p \in DOMAIN acc.inv THEN acc.inv[p]
                    ELSE Invocation(m.calls[p[2]], "nothing")]
      /\ a = [pending |-> a.pending, inv |-> a.inv]
  BY DEF NoteCalls
<1> HIDE DEF a
<1>4. \A p \in new : p \in (1..i) \X Nat /\ p \notin DOMAIN acc.inv /\ p[2] \in DOMAIN m.calls
  <2>1. \A p \in new : p[1] = i /\ p[2] \in DOMAIN m.calls /\ p = <<p[1], p[2]>>
    OBVIOUS
  <2>2. \A p \in DOMAIN acc.inv : p[1] \in 1..i - 1
    BY DEF AccOK
  <2>3. i \in 1..i /\ i \notin 1..i - 1 /\ DOMAIN m.calls \subseteq Nat
    BY <1>2
  <2> QED
    BY <2>1, <2>2, <2>3
<1>5. IsFiniteSet(new)
  <2>1. IsFiniteSet({i})
    BY FS_Singleton
  <2>2. IsFiniteSet(DOMAIN m.calls)
    BY <1>2, FS_Interval
  <2> QED
    BY <2>1, <2>2, FS_Product
<1> HIDE DEF new
<1>6. DOMAIN a.inv = DOMAIN acc.inv \cup new
  BY <1>3
<1>7. DOMAIN a.inv \subseteq (1..i) \X Nat /\ IsFiniteSet(DOMAIN a.inv)
  <2>1. DOMAIN acc.inv \subseteq (1..i - 1) \X Nat /\ IsFiniteSet(DOMAIN acc.inv)
    BY DEF AccOK
  <2>2. 1..i - 1 \subseteq 1..i
    OBVIOUS
  <2>3. DOMAIN a.inv \subseteq (1..i) \X Nat
    BY <2>1, <2>2, <1>4, <1>6
  <2>4. IsFiniteSet(DOMAIN acc.inv \cup new)
    BY <2>1, <1>5, FS_Union
  <2> QED
    BY <2>3, <2>4, <1>6
<1>8. /\ \A p \in DOMAIN acc.inv : a.inv[p] = acc.inv[p] /\ acc.inv[p] \in Invoked
      /\ \A p \in new : a.inv[p] = Invocation(m.calls[p[2]], "nothing") /\ a.inv[p] \in Invoked
                        /\ a.inv[p].id = m.calls[p[2]].id /\ a.inv[p].got = "nothing"
  <2>1. \A p \in DOMAIN acc.inv : a.inv[p] = acc.inv[p] /\ acc.inv[p] \in Invoked
    BY <1>3 DEF AccOK
  <2>2. \A p \in new : a.inv[p] = Invocation(m.calls[p[2]], "nothing")
    BY <1>3, <1>4
  <2>3. \A p \in new : m.calls[p[2]] \in Call
    BY <1>2, <1>4
  <2>4. ASSUME NEW c \in Call
        PROVE  /\ Invocation(c, "nothing") \in Invoked
               /\ Invocation(c, "nothing").id = c.id /\ Invocation(c, "nothing").got = "nothing"
    BY DEF Invocation, Call, Invoked
  <2> QED
    BY <2>1, <2>2, <2>3, <2>4
<1>9. a.inv \in [DOMAIN a.inv -> Invoked]
  BY <1>3, <1>6, <1>8
<1>10. ASSUME NEW id \in CallId, a.pending[id] # NoPlace
       PROVE  /\ a.pending[id] \in DOMAIN a.inv
              /\ a.inv[a.pending[id]].id = id /\ a.inv[a.pending[id]].got = "nothing"
  <2>1. CASE \E k \in DOMAIN m.calls : m.calls[k].id = id
    <3>1. a.pending[id] = <<i, LastCall(m, id)>>
      BY <2>1, <1>3
    <3>2. LastCall(m, id) \in DOMAIN m.calls /\ m.calls[LastCall(m, id)].id = id
      BY <2>1, LastCallIs
    <3>3. <<i, LastCall(m, id)>> \in new /\ <<i, LastCall(m, id)>>[2] = LastCall(m, id)
      BY <3>2 DEF new
    <3> QED
      BY <3>1, <3>2, <3>3, <1>6, <1>8
  <2>2. CASE ~ \E k \in DOMAIN m.calls : m.calls[k].id = id
    <3>1. a.pending[id] = acc.pending[id]
      BY <2>2, <1>3
    <3> QED
      BY <3>1, <1>6, <1>8, <1>10 DEF AccOK
  <2> QED
    BY <2>1, <2>2
<1>11. AccOK(i, a)
  <2>1. DOMAIN a.pending = CallId
    BY <1>3
  <2> QED
    BY <2>1, <1>3, <1>7, <1>9, <1>10 DEF AccOK
<1>12. \A s \in {"success", "error"} : Got(a.inv, s) = Got(acc.inv, s)
  BY <1>6, <1>8 DEF Got
<1> QED
  BY <1>11, <1>12 DEF a

\* A result that a pending call gets.
LEMMA NoteAnswerFacts ==
  ASSUME NEW i \in Nat \ {0}, NEW acc, AccOK(i - 1, acc), NEW m \in Result,
         acc.pending[m.id] # NoPlace
  PROVE  LET p == acc.pending[m.id]
             a == NoteResult(acc, m, i)
         IN /\ a = [pending |-> a.pending, inv |-> a.inv]
            /\ a.pending = [acc.pending EXCEPT ![m.id] = NoPlace]
            /\ p \in DOMAIN acc.inv /\ DOMAIN a.inv = DOMAIN acc.inv
            /\ a.inv[p] = [id |-> m.id, tool |-> acc.inv[p].tool, got |-> m.status]
            /\ \A r \in DOMAIN acc.inv \ {p} : a.inv[r] = acc.inv[r]
            /\ a.inv \in [DOMAIN a.inv -> Invoked]
<1> DEFINE p == acc.pending[m.id]
           a == NoteResult(acc, m, i)
<1>1. m.id \in CallId /\ m.status \in {"success", "error"}
  BY DEF Result
<1>2. p \in DOMAIN acc.inv /\ acc.inv[p].id = m.id /\ acc.inv \in [DOMAIN acc.inv -> Invoked]
  BY <1>1 DEF AccOK
<1>3. /\ a.pending = [acc.pending EXCEPT ![m.id] = NoPlace]
      /\ a.inv = [acc.inv EXCEPT ![p] = [acc.inv[p] EXCEPT !.got = m.status]]
      /\ a = [pending |-> a.pending, inv |-> a.inv]
  BY DEF NoteResult, NotedAt
<1> HIDE DEF a, p
<1>4. PICK v \in Invoked : v = acc.inv[p]
  BY <1>2
<1>5. [v EXCEPT !.got = m.status] = [id |-> v.id, tool |-> v.tool, got |-> m.status]
  BY DEF Invoked
<1>6. [id |-> v.id, tool |-> v.tool, got |-> m.status] \in Invoked
  BY <1>1 DEF Invoked
<1>7. DOMAIN a.inv = DOMAIN acc.inv /\ \A r \in DOMAIN acc.inv \ {p} : a.inv[r] = acc.inv[r]
  BY <1>2, <1>3
<1>8. a.inv[p] = [id |-> m.id, tool |-> acc.inv[p].tool, got |-> m.status]
  BY <1>2, <1>3, <1>4, <1>5
<1>9. a.inv \in [DOMAIN a.inv -> Invoked]
  BY <1>2, <1>3, <1>4, <1>5, <1>6
<1> QED
  BY <1>2, <1>3, <1>7, <1>8, <1>9 DEF a, p

\* A result that no pending call waits for.
LEMMA NoteStrayFacts ==
  ASSUME NEW i \in Nat \ {0}, NEW acc, AccOK(i - 1, acc), NEW m \in Result,
         acc.pending[m.id] = NoPlace
  PROVE  LET p == <<i, 0>>
             a == NoteResult(acc, m, i)
         IN /\ a = [pending |-> acc.pending, inv |-> a.inv]
            /\ p \notin DOMAIN acc.inv /\ DOMAIN a.inv = DOMAIN acc.inv \cup {p}
            /\ a.inv[p] = [id |-> m.id, tool |-> m.tool, got |-> m.status]
            /\ \A r \in DOMAIN acc.inv : a.inv[r] = acc.inv[r]
            /\ a.inv \in [DOMAIN a.inv -> Invoked]
<1> DEFINE p == <<i, 0>>
           a == NoteResult(acc, m, i)
<1>1. m.id \in CallId /\ m.status \in {"success", "error"} /\ m.tool \in Tool
  BY DEF Result
<1>2. acc = [pending |-> acc.pending, inv |-> acc.inv]
      /\ acc.inv \in [DOMAIN acc.inv -> Invoked]
  BY DEF AccOK
<1>3. /\ a = [pending |-> acc.pending, inv |-> a.inv]
      /\ a.inv = [r \in DOMAIN acc.inv \cup {p} |->
                    IF r \in DOMAIN acc.inv THEN acc.inv[r] ELSE Invocation(m, m.status)]
  BY <1>2 DEF NoteResult
<1>4. p \notin DOMAIN acc.inv
  <2>1. \A r \in DOMAIN acc.inv : r[1] \in 1..i - 1
    BY DEF AccOK
  <2>2. p[1] = i /\ i \notin 1..i - 1
    OBVIOUS
  <2> QED
    BY <2>1, <2>2
<1> HIDE DEF a, p
<1>5. /\ Invocation(m, m.status) = [id |-> m.id, tool |-> m.tool, got |-> m.status]
      /\ Invocation(m, m.status) \in Invoked
  BY <1>1 DEF Invocation, Invoked
<1>6. a.inv[p] = Invocation(m, m.status) /\ DOMAIN a.inv = DOMAIN acc.inv \cup {p}
      /\ \A r \in DOMAIN acc.inv : a.inv[r] = acc.inv[r]
  BY <1>3, <1>4
<1>7. a.inv \in [DOMAIN a.inv -> Invoked]
  BY <1>2, <1>3, <1>5
<1> QED
  BY <1>3, <1>4, <1>5, <1>6, <1>7 DEF a, p

LEMMA NoteResultFacts ==
  ASSUME NEW i \in Nat \ {0}, NEW acc, AccOK(i - 1, acc), NEW m \in Result
  PROVE  /\ AccOK(i, NoteResult(acc, m, i))
         /\ \A s \in {"success", "error"} \ {m.status} :
              Got(NoteResult(acc, m, i).inv, s) = Got(acc.inv, s)
         /\ OneMore(Got(acc.inv, m.status), Got(NoteResult(acc, m, i).inv, m.status))
<1> DEFINE a == NoteResult(acc, m, i)
<1>1. m.id \in CallId /\ m.status \in {"success", "error"}
  BY DEF Result
<1>2. DOMAIN acc.inv \subseteq (1..i) \X Nat
  <2>1. DOMAIN acc.inv \subseteq (1..i - 1) \X Nat /\ 1..i - 1 \subseteq 1..i
    BY DEF AccOK
  <2> QED
    BY <2>1
<1>3. CASE acc.pending[m.id] # NoPlace
  <2> DEFINE p == acc.pending[m.id]
  <2>1. /\ a = [pending |-> a.pending, inv |-> a.inv]
        /\ a.pending = [acc.pending EXCEPT ![m.id] = NoPlace]
        /\ p \in DOMAIN acc.inv /\ DOMAIN a.inv = DOMAIN acc.inv
        /\ a.inv[p] = [id |-> m.id, tool |-> acc.inv[p].tool, got |-> m.status]
        /\ \A r \in DOMAIN acc.inv \ {p} : a.inv[r] = acc.inv[r]
        /\ a.inv \in [DOMAIN a.inv -> Invoked]
    BY <1>3, NoteAnswerFacts
  <2>2. acc.inv[p].id = m.id /\ acc.inv[p].got = "nothing"
    BY <1>1, <1>3 DEF AccOK
  <2> HIDE DEF a, p
  <2>3. AccOK(i, a)
    <3>1. DOMAIN a.pending = CallId /\ IsFiniteSet(DOMAIN a.inv)
      BY <2>1 DEF AccOK
    <3>2. ASSUME NEW id \in CallId, a.pending[id] # NoPlace
          PROVE  /\ a.pending[id] \in DOMAIN a.inv
                 /\ a.inv[a.pending[id]].id = id /\ a.inv[a.pending[id]].got = "nothing"
      <4>1. id # m.id /\ a.pending[id] = acc.pending[id]
        BY <3>2, <2>1, <1>1 DEF AccOK
      <4>2. /\ acc.pending[id] \in DOMAIN acc.inv
            /\ acc.inv[acc.pending[id]].id = id /\ acc.inv[acc.pending[id]].got = "nothing"
        BY <4>1, <3>2 DEF AccOK
      <4>3. acc.pending[id] # p
        BY <4>1, <4>2, <2>2
      <4> QED
        BY <4>1, <4>2, <4>3, <2>1
    <3> QED
      BY <3>1, <3>2, <2>1, <1>2 DEF AccOK
  <2>4. \A s \in {"success", "error"} \ {m.status} : Got(a.inv, s) = Got(acc.inv, s)
    BY <2>1, <2>2 DEF Got
  <2>5. p \notin Got(acc.inv, m.status) /\ Got(a.inv, m.status) = Got(acc.inv, m.status) \cup {p}
    BY <2>1, <2>2, <1>1 DEF Got
  <2>6. OneMore(Got(acc.inv, m.status), Got(a.inv, m.status))
    BY <2>5, Zenon DEF OneMore
  <2> QED
    BY <2>3, <2>4, <2>6 DEF a
<1>4. CASE acc.pending[m.id] = NoPlace
  <2> DEFINE p == <<i, 0>>
  <2>1. /\ a = [pending |-> acc.pending, inv |-> a.inv]
        /\ p \notin DOMAIN acc.inv /\ DOMAIN a.inv = DOMAIN acc.inv \cup {p}
        /\ a.inv[p] = [id |-> m.id, tool |-> m.tool, got |-> m.status]
        /\ \A r \in DOMAIN acc.inv : a.inv[r] = acc.inv[r]
        /\ a.inv \in [DOMAIN a.inv -> Invoked]
    BY <1>4, NoteStrayFacts
  <2>2. p \in (1..i) \X Nat
    OBVIOUS
  <2> HIDE DEF a, p
  <2>3. AccOK(i, a)
    <3>1. DOMAIN a.pending = CallId /\ a.pending = acc.pending
      BY <2>1 DEF AccOK
    <3>2. IsFiniteSet(DOMAIN a.inv)
      BY <2>1, FS_AddElement DEF AccOK
    <3>3. ASSUME NEW id \in CallId, a.pending[id] # NoPlace
          PROVE  /\ a.pending[id] \in DOMAIN a.inv
                 /\ a.inv[a.pending[id]].id = id /\ a.inv[a.pending[id]].got = "nothing"
      BY <3>1, <3>3, <2>1 DEF AccOK
    <3>4. DOMAIN a.inv \subseteq (1..i) \X Nat
      BY <2>1, <2>2, <1>2
    <3> QED
      BY <3>1, <3>2, <3>3, <3>4, <2>1 DEF AccOK
  <2>4. \A s \in {"success", "error"} \ {m.status} : Got(a.inv, s) = Got(acc.inv, s)
    BY <2>1 DEF Got
  <2>5. p \notin Got(acc.inv, m.status) /\ Got(a.inv, m.status) = Got(acc.inv, m.status) \cup {p}
    BY <2>1 DEF Got
  <2>6. OneMore(Got(acc.inv, m.status), Got(a.inv, m.status))
    BY <2>5, Zenon DEF OneMore
  <2> QED
    BY <2>3, <2>4, <2>6 DEF a
<1> QED
  BY <1>3, <1>4

LEMMA SaidFacts ==
  ASSUME NEW t \in Seq(Said)
  PROVE  /\ Len(t) \in Nat /\ DOMAIN t = 1..Len(t)
         /\ \A i \in 1..Len(t) : /\ t[i] \in Said /\ t[i].kind \in {"ai", "tool"}
                                 /\ t[i].kind = "ai" <=> t[i] \in AI
                                 /\ t[i].kind = "tool" <=> t[i] \in Result
BY LenProperties DEF Said, AI, Result

Told(t, i, s) == {j \in 1..i : t[j].kind = "tool" /\ t[j].status = s}

\* Results and errors are counted once each.
LEMMA NotesCount ==
  ASSUME NEW t \in Seq(Said), NEW i \in 0..Len(t)
  PROVE  /\ AccOK(i, Notes(t)[i])
         /\ \A s \in {"success", "error"} :
              Cardinality(Got(Notes(t)[i].inv, s)) = Cardinality(Told(t, i, s))
<1> DEFINE OK(j) == /\ AccOK(j, Notes(t)[j])
                    /\ \A s \in {"success", "error"} :
                         Cardinality(Got(Notes(t)[j].inv, s)) = Cardinality(Told(t, j, s))
           T == {j \in 0..Len(t) : ~OK(j)}
<1>1. /\ Len(t) \in Nat /\ DOMAIN t = 1..Len(t)
      /\ \A j \in 1..Len(t) : t[j] \in AI \/ t[j] \in Result
  BY SaidFacts DEF Said
<1>2. /\ Notes(t)[0] = NoNotes
      /\ \A j \in 1..Len(t) : Notes(t)[j] = Note(Notes(t)[j - 1], t[j], j)
  BY <1>1, NotesAre
<1>3. OK(0)
  <2>1. DOMAIN NoNotes.inv = {} /\ NoNotes.inv \in [{} -> Invoked]
    BY DEF NoNotes
  <2>2. AccOK(0, NoNotes)
    BY <2>1, FS_EmptySet DEF AccOK, NoNotes
  <2>3. \A s : Got(NoNotes.inv, s) = {} /\ Told(t, 0, s) = {}
    BY <2>1 DEF Got, Told
  <2> QED
    BY <2>2, <2>3, <1>2
<1>4. ASSUME NEW k \in 1..Len(t), OK(k - 1)
      PROVE  OK(k)
  <2> DEFINE acc == Notes(t)[k - 1]
             a == Notes(t)[k]
  <2>1. AccOK(k - 1, acc) /\ a = Note(acc, t[k], k) /\ k \in Nat \ {0}
    BY <1>1, <1>2, <1>4
  <2>2. \A s \in {"success", "error"} : Cardinality(Got(acc.inv, s)) = Cardinality(Told(t, k - 1, s))
    BY <1>4
  <2>3. \A s : IsFiniteSet(Got(acc.inv, s)) /\ IsFiniteSet(Told(t, k - 1, s))
    <3>1. IsFiniteSet(DOMAIN acc.inv) /\ IsFiniteSet(1..k - 1)
      BY <2>1, FS_Interval DEF AccOK
    <3>2. \A s : Got(acc.inv, s) \in SUBSET DOMAIN acc.inv /\ Told(t, k - 1, s) \in SUBSET (1..k - 1)
      BY DEF Got, Told
    <3> HIDE DEF acc
    <3> QED
      BY <3>1, <3>2, FS_Subset
  <2>4. 1..k = (1..k - 1) \cup {k} /\ k \notin 1..k - 1
    OBVIOUS
  <2> HIDE DEF acc, a
  <2>5. CASE t[k] \in AI
    <3>1. t[k].kind = "ai"
      BY <2>5 DEF AI
    <3>2. a = NoteCalls(acc, t[k], k)
      BY <3>1, <2>1 DEF Note
    <3>3. AccOK(k, a) /\ \A s \in {"success", "error"} : Got(a.inv, s) = Got(acc.inv, s)
      <4>1. PICK m \in AI : m = t[k]
        BY <2>5
      <4>2. /\ AccOK(k, NoteCalls(acc, m, k))
            /\ \A s \in {"success", "error"} : Got(NoteCalls(acc, m, k).inv, s) = Got(acc.inv, s)
        BY <2>1, NoteCallsFacts
      <4>3. a = NoteCalls(acc, m, k)
        BY <3>2, <4>1
      <4> QED
        BY <4>2, <4>3, Zenon
    <3>4. \A s : Told(t, k, s) = Told(t, k - 1, s)
      BY <3>1, <2>4 DEF Told
    <3> QED
      BY <3>3, <3>4, <2>2 DEF a
  <2>6. CASE t[k] \in Result
    <3>1. t[k].kind = "tool" /\ t[k].status \in {"success", "error"}
      BY <2>6 DEF Result
    <3>2. a = NoteResult(acc, t[k], k)
      BY <3>1, <2>1 DEF Note
    <3>4. PICK m \in Result : m = t[k]
      BY <2>6
    <3>5. /\ AccOK(k, a)
          /\ \A s \in {"success", "error"} \ {m.status} : Got(a.inv, s) = Got(acc.inv, s)
          /\ OneMore(Got(acc.inv, m.status), Got(a.inv, m.status))
      <4>1. a = NoteResult(acc, m, k)
        BY <3>2, <3>4
      <4>3. k \in Nat \ {0} /\ AccOK(k - 1, acc)
        BY <2>1
      <4>2. /\ AccOK(k, NoteResult(acc, m, k))
            /\ \A s \in {"success", "error"} \ {m.status} :
                 Got(NoteResult(acc, m, k).inv, s) = Got(acc.inv, s)
            /\ OneMore(Got(acc.inv, m.status), Got(NoteResult(acc, m, k).inv, m.status))
        <5>1. AccOK(k, NoteResult(acc, m, k))
          BY <4>3, NoteResultFacts
        <5>2. ASSUME NEW s \in {"success", "error"} \ {m.status}
              PROVE Got(NoteResult(acc, m, k).inv, s) = Got(acc.inv, s)
          BY <4>3, NoteResultFacts
        <5>3. OneMore(Got(acc.inv, m.status), Got(NoteResult(acc, m, k).inv, m.status))
          BY <4>3, NoteResultFacts
        <5> QED
          BY <5>1, <5>2, <5>3
      <4> QED
        BY <4>1, <4>2, Zenon
    <3>3. AccOK(k, a)
      BY <3>5
    <3>6. ASSUME NEW s \in {"success", "error"}
          PROVE  Cardinality(Got(a.inv, s)) = Cardinality(Told(t, k, s))
      <4>1. CASE s # t[k].status
        <5>1. Got(a.inv, s) = Got(acc.inv, s)
          BY <3>4, <3>5, <4>1
        <5>2. Told(t, k, s) = Told(t, k - 1, s)
          BY <4>1, <2>4 DEF Told
        <5> QED
          BY <5>1, <5>2, <2>2
      <4>2. CASE s = t[k].status
        <5>1. PICK p : p \notin Got(acc.inv, s) /\ Got(a.inv, s) = Got(acc.inv, s) \cup {p}
          BY <3>4, <3>5, <4>2 DEF OneMore
        <5>2. Told(t, k, s) = Told(t, k - 1, s) \cup {k} /\ k \notin Told(t, k - 1, s)
          BY <3>1, <4>2, <2>4 DEF Told
        <5>3. Cardinality(Got(a.inv, s)) = Cardinality(Got(acc.inv, s)) + 1
          BY <5>1, <2>3, FS_AddElement
        <5>4. Cardinality(Told(t, k, s)) = Cardinality(Told(t, k - 1, s)) + 1
          BY <5>2, <2>3, FS_AddElement
        <5> QED
          BY <5>3, <5>4, <2>2
      <4> QED
        BY <4>1, <4>2
    <3> QED
      BY <3>3, <3>6 DEF a
  <2> QED
    BY <2>5, <2>6, <1>1
<1> HIDE DEF OK
<1>5. T = {}
  <2> SUFFICES ASSUME T # {} PROVE FALSE
    OBVIOUS
  <2>1. PICK k \in T : \A m \in T : k <= m
    <3>1. T \in SUBSET Nat
      BY <1>1
    <3> HIDE DEF T
    <3> QED
      BY <3>1, LeastNat
  <2>2. k \in 1..Len(t) /\ k - 1 \in 0..Len(t) /\ ~(k <= k - 1)
    BY <2>1, <1>1, <1>3
  <2>3. OK(k - 1)
    BY <2>1, <2>2
  <2> QED
    BY <2>1, <2>2, <2>3, <1>4
<1>6. OK(i)
  BY <1>5
<1> QED
  BY <1>6 DEF OK

\* The analysis, with calls left open as incomplete.
LEMMA InvocationsAre ==
  ASSUME NEW t \in Seq(Said)
  PROVE  LET acc == Notes(t)[Len(t)]
         IN /\ AccOK(Len(t), acc) /\ DOMAIN Invocations(t) = DOMAIN acc.inv
            /\ \A p \in DOMAIN acc.inv :
                 Invocations(t)[p] =
                   IF acc.pending[acc.inv[p].id] = p
                   THEN Invocation(acc.inv[p], "incomplete") ELSE acc.inv[p]
<1>1. AccOK(Len(t), Notes(t)[Len(t)])
  <2>1. Len(t) \in 0..Len(t)
    BY LenProperties
  <2> QED
    BY <2>1, NotesCount
<1> QED
  BY <1>1 DEF Invocations

\* No result is lost or counted twice, whatever the ids are.
LEMMA InvocationsCount ==
  ASSUME NEW t \in Seq(Said), NEW s \in {"success", "error"}
  PROVE  Cardinality({p \in DOMAIN Invocations(t) : Invocations(t)[p].got = s}) =
         Cardinality({i \in Kind("tool", t) : t[i].status = s})
<1> DEFINE acc == Notes(t)[Len(t)]
           inv == Invocations(t)
<1>1. /\ AccOK(Len(t), acc) /\ DOMAIN inv = DOMAIN acc.inv
      /\ \A p \in DOMAIN acc.inv :
           inv[p] = IF acc.pending[acc.inv[p].id] = p
                    THEN Invocation(acc.inv[p], "incomplete") ELSE acc.inv[p]
  BY InvocationsAre
<1>2. Cardinality(Got(acc.inv, s)) = Cardinality(Told(t, Len(t), s))
  <2>1. Len(t) \in 0..Len(t)
    BY LenProperties
  <2> QED
    BY <2>1, NotesCount
<1>3. {i \in Kind("tool", t) : t[i].status = s} = Told(t, Len(t), s)
  BY SaidFacts DEF Kind, Told
<1> HIDE DEF acc, inv
<1>4. ASSUME NEW p \in DOMAIN acc.inv
      PROVE  inv[p].got = s <=> acc.inv[p].got = s
  <2>1. acc.inv[p].id \in CallId
    BY <1>1 DEF AccOK, Invoked
  <2>2. CASE acc.pending[acc.inv[p].id] = p
    <3>1. p # NoPlace
      <4>1. p \in (1..Len(t)) \X Nat
        BY <1>1 DEF AccOK
      <4> QED
        BY <4>1 DEF NoPlace
    <3>2. acc.inv[p].got = "nothing"
      BY <3>1, <2>1, <2>2, <1>1 DEF AccOK
    <3>3. inv[p].got = "incomplete"
      <4>1. inv[p] = Invocation(acc.inv[p], "incomplete")
        BY <2>2, <1>1
      <4>2. \A c : Invocation(c, "incomplete").got = "incomplete"
        BY DEF Invocation
      <4> QED
        BY <4>1, <4>2
    <3> QED
      BY <3>2, <3>3
  <2>3. CASE acc.pending[acc.inv[p].id] # p
    BY <2>3, <1>1
  <2> QED
    BY <2>2, <2>3
<1>5. {p \in DOMAIN inv : inv[p].got = s} = Got(acc.inv, s)
  BY <1>1, <1>4 DEF Got
<1> QED
  BY <1>2, <1>3, <1>5 DEF inv

CallAt(t, p) == t[p[1]].calls[p[2]]

\* CallsIn has the places of the calls.
LEMMA CallsAre ==
  ASSUME NEW t \in Seq(Said)
  PROVE  /\ \A p \in CallsIn(t) : /\ p[1] \in 1..Len(t) /\ t[p[1]] \in AI
                                  /\ p[2] \in DOMAIN t[p[1]].calls /\ p[2] \in Nat \ {0}
                                  /\ p = <<p[1], p[2]>> /\ CallAt(t, p) \in Call
         /\ \A i \in 1..Len(t) : t[i] \in AI =>
              \A k \in DOMAIN t[i].calls : <<i, k>> \in CallsIn(t)
         /\ \A p \in CallsIn(t) : p # NoPlace
<1>1. /\ Len(t) \in Nat /\ DOMAIN t = 1..Len(t)
      /\ \A i \in 1..Len(t) : t[i].kind = "ai" <=> t[i] \in AI
  BY SaidFacts
<1>2. ASSUME NEW m \in AI
      PROVE  \A k \in DOMAIN m.calls : k \in Nat \ {0} /\ m.calls[k] \in Call
  <2>1. m.calls \in Seq(Call)
    BY DEF AI
  <2> QED
    BY <2>1, LenProperties
<1>3. ASSUME NEW p \in CallsIn(t)
      PROVE  /\ p[1] \in 1..Len(t) /\ t[p[1]] \in AI
             /\ p[2] \in DOMAIN t[p[1]].calls /\ p[2] \in Nat \ {0}
             /\ p = <<p[1], p[2]>> /\ CallAt(t, p) \in Call
  <2>1. PICK i \in Kind("ai", t) : p \in {i} \X DOMAIN t[i].calls
    BY DEF CallsIn
  <2>2. p[1] = i /\ p[2] \in DOMAIN t[i].calls /\ p = <<p[1], p[2]>>
    BY <2>1
  <2>3. i \in 1..Len(t) /\ t[i] \in AI
    BY <1>1 DEF Kind
  <2>4. p[2] \in Nat \ {0} /\ t[i].calls[p[2]] \in Call
    BY <1>2, <2>2, <2>3
  <2> QED
    BY <2>2, <2>3, <2>4 DEF CallAt
<1>4. ASSUME NEW i \in 1..Len(t), t[i] \in AI, NEW k \in DOMAIN t[i].calls
      PROVE  <<i, k>> \in CallsIn(t)
  BY <1>1, <1>4 DEF CallsIn, Kind
<1>5. \A p \in CallsIn(t) : p # NoPlace
  BY <1>3 DEF NoPlace
<1> QED
  BY <1>3, <1>4, <1>5

\* The result at m answers call k of the message k places before.
Answering(t, m, k) ==
  /\ m - k \in 1..Len(t) /\ t[m - k] \in AI /\ k \in DOMAIN t[m - k].calls
  /\ \A j \in m - k + 1..m : t[j].kind = "tool"
  /\ t[m].id = t[m - k].calls[k].id /\ t[m].tool = t[m - k].calls[k].tool

\* What the nodes of the graph leave: every result answers a call by its place.
Shape(t) == \A m \in Kind("tool", t) : \E k \in Nat \ {0} : Answering(t, m, k)

\* The first i messages have a result for call p.
HasResult(t, i, p) == \A l \in 1..p[2] : p[1] + l \in Kind("tool", t) /\ p[1] + l <= i

\* A message of the agent is the result of no call.
LEMMA NoResultYet ==
  ASSUME NEW t \in Seq(Said), NEW i \in 1..Len(t), t[i] \in AI, NEW p \in CallsIn(t)
  PROVE  /\ HasResult(t, i, p) <=> HasResult(t, i - 1, p)
         /\ p[1] = i => ~HasResult(t, i, p)
<1>1. p[1] \in Nat /\ p[2] \in Nat \ {0}
  BY CallsAre
<1>2. i \notin Kind("tool", t)
  BY DEF Kind, AI
<1>3. ASSUME NEW l \in 1..p[2], p[1] + l \in Kind("tool", t)
      PROVE  p[1] + l <= i <=> p[1] + l <= i - 1
  BY <1>1, <1>2, <1>3
<1>4. HasResult(t, i, p) <=> HasResult(t, i - 1, p)
  BY <1>3 DEF HasResult
<1>5. p[1] = i => ~HasResult(t, i, p)
  <2>1. 1 \in 1..p[2] /\ (p[1] = i => ~(p[1] + 1 <= i))
    BY <1>1
  <2> QED
    BY <2>1 DEF HasResult
<1> QED
  BY <1>4, <1>5

\* A tool message is the result of one call, by its place.
LEMMA ResultOfOne ==
  ASSUME NEW t \in Seq(Said), NEW i \in 1..Len(t), NEW k \in Nat \ {0}, Answering(t, i, k)
  PROVE  /\ <<i - k, k>> \in CallsIn(t) /\ i - k <= i - 1
         /\ HasResult(t, i, <<i - k, k>>) /\ ~HasResult(t, i - 1, <<i - k, k>>)
         /\ \A p \in CallsIn(t) \ {<<i - k, k>>} :
              HasResult(t, i, p) <=> HasResult(t, i - 1, p)
<1>1. /\ Len(t) \in Nat /\ i - k \in 1..Len(t) /\ <<i - k, k>> \in CallsIn(t)
      /\ t[i - k] \in AI
  BY CallsAre, LenProperties DEF Answering
<1>2. \A j \in i - k + 1..i : j \in Kind("tool", t)
  BY <1>1, SaidFacts DEF Answering, Kind
<1>3. HasResult(t, i, <<i - k, k>>)
  BY <1>1, <1>2 DEF HasResult
<1>4. ~HasResult(t, i - 1, <<i - k, k>>)
  BY <1>1 DEF HasResult
<1>5. ASSUME NEW p \in CallsIn(t) \ {<<i - k, k>>}, HasResult(t, i, p)
      PROVE  HasResult(t, i - 1, p)
  <2>1. p[1] \in Nat /\ p[2] \in Nat \ {0} /\ t[p[1]] \in AI /\ p = <<p[1], p[2]>>
    BY CallsAre
  <2>2. p[1] \notin Kind("tool", t) /\ i - k \notin Kind("tool", t)
    BY <2>1, <1>1 DEF Kind, AI
  <2>3. \A l \in 1..p[2] : p[1] + l \in Kind("tool", t) /\ p[1] + l <= i
    BY <1>5 DEF HasResult
  <2>4. ASSUME NEW l \in 1..p[2], ~(p[1] + l <= i - 1)
        PROVE  FALSE
    <3>1. p[1] + l = i /\ l \in Nat
      <4>1. l \in Nat /\ i \in Nat
        BY <2>1, <1>1
      <4>2. \A a \in Nat : a + l <= i /\ ~(a + l <= i - 1) => a + l = i
        BY <4>1
      <4>3. p[1] + l <= i
        BY <2>3
      <4> QED
        BY <4>1, <4>2, <4>3, <2>1, <2>4
    <3>2. p[1] = i - k
      <4>1. ~(p[1] < i - k)
        <5> SUFFICES ASSUME p[1] < i - k PROVE FALSE
          OBVIOUS
        <5>1. PICK n \in 1..p[2] : p[1] + n = i - k
          <6>1. \A a, b \in Nat : l <= b /\ a + l = i /\ a < i - k =>
                  i - k - a \in 1..b /\ a + (i - k - a) = i - k
            BY <3>1, <1>1
          <6>2. l <= p[2]
            BY <2>1, <3>1
          <6> QED
            BY <6>1, <6>2, <2>1, <3>1
        <5> QED
          BY <5>1, <2>2, <2>3
      <4>2. ~(p[1] > i - k)
        <5> SUFFICES ASSUME p[1] > i - k PROVE FALSE
          OBVIOUS
        <5>1. p[1] \in i - k + 1..i
          BY <2>1, <3>1, <1>1
        <5> QED
          BY <5>1, <2>2, <1>2
      <4> QED
        BY <4>1, <4>2, <2>1, <1>1
    <3>3. k <= p[2] /\ p[1] + p[2] <= i
      <4>1. p[2] \in 1..p[2]
        BY <2>1
      <4> QED
        BY <4>1, <3>1, <3>2, <2>1, <2>3
    <3>4. p[2] = k
      BY <3>2, <3>3, <2>1
    <3> QED
      BY <3>2, <3>4, <2>1
  <2> QED
    BY <2>3, <2>4 DEF HasResult
<1>6. ASSUME NEW p \in CallsIn(t), HasResult(t, i - 1, p)
      PROVE  HasResult(t, i, p)
  <2>1. p[1] \in Nat /\ p[2] \in Nat
    BY CallsAre
  <2>2. \A l \in 1..p[2] : p[1] + l <= i - 1 => p[1] + l <= i
    BY <2>1
  <2> QED
    BY <1>6, <2>2 DEF HasResult
<1> QED
  BY <1>1, <1>3, <1>4, <1>5, <1>6

\* If ids are unique, the analysis has what the positions say.
CallsTo(t, i) == {p \in CallsIn(t) : p[1] <= i}
ReadAt(t, i, p) ==
  [id |-> CallAt(t, p).id, tool |-> CallAt(t, p).tool,
   got |-> IF HasResult(t, i, p) THEN t[p[1] + p[2]].status ELSE "nothing"]
ReadOK(t, i, acc) ==
  /\ DOMAIN acc.inv = CallsTo(t, i)
  /\ \A p \in CallsTo(t, i) :
       /\ acc.inv[p] = ReadAt(t, i, p)
       /\ acc.pending[CallAt(t, p).id] = IF HasResult(t, i, p) THEN NoPlace ELSE p

\* With unique ids, an id names a call.
LEMMA UniqueCalls ==
  ASSUME NEW t \in Seq(Said), UniqueIds(t)
  PROVE  \A p, r \in CallsIn(t) : CallAt(t, p).id = CallAt(t, r).id => p = r
BY DEF UniqueIds, CallAt

\* ReadOK is kept by reading calls and by reading results,
LEMMA ReadCalls ==
  ASSUME NEW t \in Seq(Said), UniqueIds(t), NEW i \in 1..Len(t), t[i] \in AI,
         NEW acc, AccOK(i - 1, acc), ReadOK(t, i - 1, acc)
  PROVE  ReadOK(t, i, NoteCalls(acc, t[i], i))
<1> DEFINE m == t[i]
           a == NoteCalls(acc, m, i)
           new == {i} \X DOMAIN m.calls
<1>1. Len(t) \in Nat /\ i \in Nat /\ m \in AI
  BY LenProperties
<1>2. /\ a.pending = [id \in CallId |-> IF \E k \in DOMAIN m.calls : m.calls[k].id = id
                                        THEN <<i, LastCall(m, id)>> ELSE acc.pending[id]]
      /\ a.inv = [p \in DOMAIN acc.inv \cup new |->
                    IF p \in DOMAIN acc.inv THEN acc.inv[p]
                    ELSE Invocation(m.calls[p[2]], "nothing")]
  BY DEF NoteCalls
<1> HIDE DEF a
<1>3. \A p \in new : p \in CallsIn(t) /\ p[1] = i /\ CallAt(t, p) = m.calls[p[2]]
  <2>1. \A p \in new : p[1] = i /\ p[2] \in DOMAIN m.calls /\ p = <<p[1], p[2]>>
    OBVIOUS
  <2>2. \A k \in DOMAIN m.calls : <<i, k>> \in CallsIn(t)
    BY <1>1, CallsAre
  <2> QED
    BY <2>1, <2>2 DEF CallAt
<1>4. CallsTo(t, i) = CallsTo(t, i - 1) \cup new
  <2>1. ASSUME NEW p \in CallsTo(t, i), p[1] = i PROVE p \in new
    <3>1. p[2] \in DOMAIN t[p[1]].calls /\ p = <<p[1], p[2]>>
      BY CallsAre DEF CallsTo
    <3>2. p[2] \in DOMAIN m.calls /\ p = <<i, p[2]>>
      BY <3>1, <2>1
    <3> QED
      BY <3>2
  <2> HIDE DEF new, m
  <2>2. ASSUME NEW p \in CallsTo(t, i), p[1] # i PROVE p \in CallsTo(t, i - 1)
    <3>1. p[1] \in Nat /\ p[1] <= i /\ p \in CallsIn(t)
      BY CallsAre DEF CallsTo
    <3>2. \A n \in Nat : n <= i /\ n # i => n <= i - 1
      BY <1>1
    <3> QED
      BY <3>1, <3>2, <2>2 DEF CallsTo
  <2>3. ASSUME NEW p \in CallsTo(t, i - 1) PROVE p \in CallsTo(t, i)
    <3>1. p[1] \in Nat /\ p[1] <= i - 1 /\ p \in CallsIn(t)
      BY CallsAre DEF CallsTo
    <3>2. \A n \in Nat : n <= i - 1 => n <= i
      BY <1>1
    <3> QED
      BY <3>1, <3>2 DEF CallsTo
  <2>4. \A p \in new : p \in CallsTo(t, i)
    BY <1>1, <1>3 DEF CallsTo
  <2> QED
    BY <2>1, <2>2, <2>3, <2>4
<1>5. \A p \in CallsTo(t, i - 1) : p \in CallsIn(t) /\ p[1] # i /\ p \notin new
  <2>1. \A p \in CallsTo(t, i - 1) : p \in CallsIn(t) /\ p[1] \in Nat /\ p[1] <= i - 1
    BY CallsAre DEF CallsTo
  <2>2. \A n \in Nat : n <= i - 1 => n # i
    BY <1>1
  <2> QED
    BY <2>1, <2>2, <1>3
<1>6. DOMAIN a.inv = CallsTo(t, i)
  BY <1>2, <1>4 DEF ReadOK
<1> HIDE DEF new
<1>7. ASSUME NEW p \in CallsTo(t, i - 1)
      PROVE  /\ a.inv[p] = ReadAt(t, i, p)
             /\ a.pending[CallAt(t, p).id] = IF HasResult(t, i, p) THEN NoPlace ELSE p
  <2>1. p \in CallsIn(t) /\ p[1] # i /\ CallAt(t, p).id \in CallId
    BY <1>5, CallsAre DEF Call
  <2>2. HasResult(t, i, p) <=> HasResult(t, i - 1, p)
    BY <2>1, NoResultYet
  <2>3. a.inv[p] = acc.inv[p]
    BY <1>2 DEF ReadOK
  <2>4. ~ \E k \in DOMAIN m.calls : m.calls[k].id = CallAt(t, p).id
    <3> SUFFICES ASSUME NEW k \in DOMAIN m.calls, m.calls[k].id = CallAt(t, p).id
                 PROVE  FALSE
      OBVIOUS
    <3>1. <<i, k>> \in new /\ <<i, k>>[1] = i /\ <<i, k>>[2] = k
      BY DEF new
    <3>2. <<i, k>> \in CallsIn(t) /\ CallAt(t, <<i, k>>).id = CallAt(t, p).id
      BY <3>1, <1>3
    <3> QED
      BY <3>1, <3>2, <2>1, UniqueCalls
  <2>5. a.pending[CallAt(t, p).id] = acc.pending[CallAt(t, p).id]
    BY <2>1, <2>4, <1>2
  <2> QED
    BY <2>2, <2>3, <2>5 DEF ReadOK, ReadAt
<1>8. ASSUME NEW p \in new
      PROVE  /\ a.inv[p] = ReadAt(t, i, p)
             /\ a.pending[CallAt(t, p).id] = IF HasResult(t, i, p) THEN NoPlace ELSE p
  <2>1. /\ p \in CallsIn(t) /\ p[1] = i /\ CallAt(t, p) = m.calls[p[2]]
        /\ p[2] \in DOMAIN m.calls /\ p = <<p[1], p[2]>> /\ CallAt(t, p) \in Call
    BY <1>3, CallsAre
  <2>2. ~HasResult(t, i, p)
    BY <2>1, NoResultYet
  <2>3. p \notin DOMAIN acc.inv
    BY <1>5 DEF ReadOK
  <2>4. a.inv[p] = Invocation(CallAt(t, p), "nothing")
    BY <2>1, <2>3, <1>2
  <2>5. a.inv[p] = ReadAt(t, i, p)
    BY <2>2, <2>4 DEF ReadAt, Invocation
  <2> DEFINE id == CallAt(t, p).id
  <2>6. id \in CallId /\ m.calls[p[2]].id = id
    BY <2>1 DEF Call
  <2> HIDE DEF id
  <2>7. LastCall(m, id) \in DOMAIN m.calls /\ m.calls[LastCall(m, id)].id = id
    BY <2>1, <2>6, <1>1, LastCallIs
  <2>8. a.pending[id] = <<i, LastCall(m, id)>>
    BY <2>1, <2>6, <1>2
  <2> DEFINE r == <<i, LastCall(m, id)>>
  <2>9. r \in new /\ r[1] = i /\ r[2] = LastCall(m, id)
    BY <2>7 DEF new
  <2>10. r \in CallsIn(t) /\ CallAt(t, r).id = id
    BY <2>7, <2>9, <1>3
  <2>11. r = p
    BY <2>1, <2>10, UniqueCalls DEF id
  <2> QED
    BY <2>2, <2>5, <2>8, <2>11 DEF id
<1>9. ReadOK(t, i, a)
  BY <1>4, <1>6, <1>7, <1>8 DEF ReadOK
<1> QED
  BY <1>9 DEF a, m

LEMMA ReadResult ==
  ASSUME NEW t \in Seq(Said), UniqueIds(t), NEW i \in 1..Len(t), t[i] \in Result,
         NEW k \in Nat \ {0}, Answering(t, i, k),
         NEW acc, AccOK(i - 1, acc), ReadOK(t, i - 1, acc)
  PROVE  ReadOK(t, i, NoteResult(acc, t[i], i))
<1> DEFINE a == NoteResult(acc, t[i], i)
           c == <<i - k, k>>
<1>1. Len(t) \in Nat /\ i \in Nat \ {0}
  BY LenProperties
<1>2. /\ c \in CallsIn(t) /\ i - k <= i - 1 /\ HasResult(t, i, c) /\ ~HasResult(t, i - 1, c)
      /\ \A p \in CallsIn(t) \ {c} : HasResult(t, i, p) <=> HasResult(t, i - 1, p)
  BY ResultOfOne
<1>3. c[1] = i - k /\ c[2] = k /\ c[1] + c[2] = i
  BY <1>1
<1>4. t[i].id = CallAt(t, c).id /\ t[i].tool = CallAt(t, c).tool
  BY <1>3 DEF Answering, CallAt
<1>5. c \in CallsTo(t, i - 1)
  BY <1>2, <1>3 DEF CallsTo
<1>6. acc.pending[t[i].id] = c /\ c # NoPlace
  BY <1>2, <1>4, <1>5, CallsAre DEF ReadOK
<1> DEFINE q == acc.pending[t[i].id]
<1>7. /\ a.pending = [acc.pending EXCEPT ![t[i].id] = NoPlace]
      /\ q \in DOMAIN acc.inv /\ DOMAIN a.inv = DOMAIN acc.inv
      /\ a.inv[q] = [id |-> t[i].id, tool |-> acc.inv[q].tool, got |-> t[i].status]
      /\ \A r \in DOMAIN acc.inv \ {q} : a.inv[r] = acc.inv[r]
  <2>1. PICK m \in Result : m = t[i]
    OBVIOUS
  <2>2. acc.pending[m.id] # NoPlace
    BY <2>1, <1>6
  <2> DEFINE s == acc.pending[m.id]
             b == NoteResult(acc, m, i)
  <2>3. /\ b.pending = [acc.pending EXCEPT ![m.id] = NoPlace]
        /\ s \in DOMAIN acc.inv /\ DOMAIN b.inv = DOMAIN acc.inv
        /\ b.inv[s] = [id |-> m.id, tool |-> acc.inv[s].tool, got |-> m.status]
        /\ \A r \in DOMAIN acc.inv \ {s} : b.inv[r] = acc.inv[r]
    BY <1>1, <2>2, NoteAnswerFacts
  <2> QED
    BY <2>1, <2>3, Zenon
<1> HIDE DEF a, c, q
<1>8. q = c
  BY <1>6 DEF q
<1>9. CallsTo(t, i) = CallsTo(t, i - 1)
  <2>1. \A p \in CallsIn(t) : p[1] \in Nat /\ p[1] # i
    <3>1. \A p \in CallsIn(t) : p[1] \in 1..Len(t) /\ t[p[1]] \in AI
      BY CallsAre
    <3>2. t[i] \notin AI
      BY DEF Result, AI
    <3> QED
      BY <3>1, <3>2, <1>1
  <2>2. \A n \in Nat : n # i => (n <= i <=> n <= i - 1)
    BY <1>1
  <2> QED
    BY <2>1, <2>2 DEF CallsTo
<1>10. t[i].id \in CallId
  BY DEF Result
<1>11. ASSUME NEW p \in CallsTo(t, i), p # c
       PROVE  /\ a.inv[p] = ReadAt(t, i, p)
              /\ a.pending[CallAt(t, p).id] = IF HasResult(t, i, p) THEN NoPlace ELSE p
  <2>1. p \in CallsIn(t) /\ p \in CallsTo(t, i - 1)
    BY <1>9 DEF CallsTo
  <2>2. a.inv[p] = acc.inv[p]
    BY <1>7, <1>8, <1>11, <2>1 DEF ReadOK
  <2>3. CallAt(t, p).id # t[i].id /\ CallAt(t, p).id \in CallId
    BY <1>2, <1>4, <1>11, <2>1, UniqueCalls, CallsAre DEF Call
  <2>4. a.pending[CallAt(t, p).id] = acc.pending[CallAt(t, p).id]
    BY <1>7, <2>3 DEF AccOK
  <2>5. HasResult(t, i, p) <=> HasResult(t, i - 1, p)
    BY <1>2, <1>11, <2>1
  <2> QED
    BY <2>1, <2>2, <2>4, <2>5 DEF ReadOK, ReadAt
<1>12. /\ a.inv[c] = ReadAt(t, i, c)
       /\ a.pending[CallAt(t, c).id] = IF HasResult(t, i, c) THEN NoPlace ELSE c
  <2>1. acc.inv[c].tool = CallAt(t, c).tool
    <3>1. acc.inv[c] = ReadAt(t, i - 1, c)
      BY <1>5 DEF ReadOK
    <3>2. ReadAt(t, i - 1, c).tool = CallAt(t, c).tool
      BY DEF ReadAt
    <3> QED
      BY <3>1, <3>2
  <2>2. a.inv[c] = [id |-> t[i].id, tool |-> acc.inv[c].tool, got |-> t[i].status]
    BY <1>7, <1>8
  <2>3. a.inv[c] = ReadAt(t, i, c)
    BY <2>1, <2>2, <1>2, <1>3, <1>4 DEF ReadAt
  <2>4. a.pending[t[i].id] = NoPlace
    BY <1>7, <1>10 DEF AccOK
  <2> QED
    BY <2>3, <2>4, <1>2, <1>4
<1>13. DOMAIN a.inv = CallsTo(t, i)
  BY <1>7, <1>9 DEF ReadOK
<1>14. ReadOK(t, i, a)
  BY <1>11, <1>12, <1>13 DEF ReadOK
<1> QED
  BY <1>14 DEF a

\* so it holds after every message of a turn.
LEMMA NotesRead ==
  ASSUME NEW t \in Seq(Said), UniqueIds(t), Shape(t), NEW i \in 0..Len(t)
  PROVE  ReadOK(t, i, Notes(t)[i])
<1> DEFINE T == {j \in 0..Len(t) : ~ReadOK(t, j, Notes(t)[j])}
<1>1. /\ Len(t) \in Nat /\ DOMAIN t = 1..Len(t)
      /\ \A j \in 1..Len(t) : t[j] \in AI \/ t[j] \in Result
  BY SaidFacts DEF Said
<1>2. /\ Notes(t)[0] = NoNotes
      /\ \A j \in 1..Len(t) : Notes(t)[j] = Note(Notes(t)[j - 1], t[j], j)
  BY <1>1, NotesAre
<1>3. ReadOK(t, 0, Notes(t)[0])
  <2>1. CallsTo(t, 0) = {}
    <3>1. \A p \in CallsIn(t) : p[1] \in 1..Len(t)
      BY CallsAre
    <3>2. \A n \in 1..Len(t) : ~(n <= 0)
      BY <1>1
    <3> QED
      BY <3>1, <3>2 DEF CallsTo
  <2> QED
    BY <1>2, <2>1 DEF ReadOK, NoNotes
<1>4. ASSUME NEW k \in 1..Len(t), ReadOK(t, k - 1, Notes(t)[k - 1])
      PROVE  ReadOK(t, k, Notes(t)[k])
  <2> DEFINE acc == Notes(t)[k - 1]
             a == Notes(t)[k]
  <2>1. AccOK(k - 1, acc) /\ a = Note(acc, t[k], k)
    <3>1. k - 1 \in 0..Len(t)
      BY <1>1
    <3> QED
      BY <3>1, <1>2, NotesCount
  <2> HIDE DEF acc, a
  <2>2. CASE t[k] \in AI
    <3>1. a = NoteCalls(acc, t[k], k)
      <4>1. t[k].kind = "ai"
        BY <2>2 DEF AI
      <4> QED
        BY <4>1, <2>1 DEF Note
    <3>2. ReadOK(t, k, NoteCalls(acc, t[k], k))
      BY <2>1, <2>2, <1>4, ReadCalls DEF acc
    <3> QED
      BY <3>1, <3>2 DEF a
  <2>3. CASE t[k] \in Result
    <3>1. t[k].kind = "tool"
      BY <2>3 DEF Result
    <3>2. a = NoteResult(acc, t[k], k)
      BY <3>1, <2>1 DEF Note
    <3>3. PICK j \in Nat \ {0} : Answering(t, k, j)
      <4>1. k \in Kind("tool", t)
        BY <3>1, <1>1 DEF Kind
      <4> QED
        BY <4>1 DEF Shape
    <3>4. ReadOK(t, k, NoteResult(acc, t[k], k))
      BY <2>1, <2>3, <3>3, <1>4, ReadResult DEF acc
    <3> QED
      BY <3>2, <3>4 DEF a
  <2> QED
    BY <2>2, <2>3, <1>1
<1>5. T = {}
  <2> SUFFICES ASSUME T # {} PROVE FALSE
    OBVIOUS
  <2>1. PICK k \in T : \A m \in T : k <= m
    <3>1. T \in SUBSET Nat
      BY <1>1
    <3> HIDE DEF T
    <3> QED
      BY <3>1, LeastNat
  <2>2. k \in 1..Len(t) /\ k - 1 \in 0..Len(t) /\ ~(k <= k - 1)
    BY <2>1, <1>1, <1>3
  <2>3. ReadOK(t, k - 1, Notes(t)[k - 1])
    BY <2>1, <2>2
  <2> QED
    BY <2>1, <2>2, <2>3, <1>4
<1> QED
  BY <1>5

\* The reference Became, by HasResult.
LEMMA BecameIs ==
  ASSUME NEW t \in Seq(Said), NEW p \in CallsIn(t)
  PROVE  Became(t, p[1], p[2]) =
           IF HasResult(t, Len(t), p) THEN t[p[1] + p[2]].status ELSE "incomplete"
<1>1. \A j \in Kind("tool", t) : j <= Len(t)
  BY LenProperties DEF Kind
<1>2. HasResult(t, Len(t), p) <=> \A j \in 1..p[2] : p[1] + j \in Kind("tool", t)
  BY <1>1 DEF HasResult
<1> QED
  BY <1>2 DEF Became

\* The analysis of a turn with unique ids says of each call what became of it.
LEMMA InvocationsRead ==
  ASSUME NEW t \in Seq(Said), UniqueIds(t), Shape(t)
  PROVE  Invocations(t) = [p \in CallsIn(t) |->
           Invocation(t[p[1]].calls[p[2]], Became(t, p[1], p[2]))]
<1> DEFINE acc == Notes(t)[Len(t)]
           inv == Invocations(t)
<1>1. /\ DOMAIN inv = DOMAIN acc.inv
      /\ inv = [p \in DOMAIN inv |-> inv[p]]
      /\ \A p \in DOMAIN acc.inv :
           inv[p] = IF acc.pending[acc.inv[p].id] = p
                    THEN Invocation(acc.inv[p], "incomplete") ELSE acc.inv[p]
  <2>1. inv = [p \in DOMAIN inv |-> inv[p]]
    BY DEF Invocations
  <2> QED
    BY <2>1, InvocationsAre
<1>2. ReadOK(t, Len(t), acc)
  <2>1. Len(t) \in 0..Len(t)
    BY LenProperties
  <2> QED
    BY <2>1, NotesRead
<1> HIDE DEF acc, inv
<1>3. CallsTo(t, Len(t)) = CallsIn(t)
  <2>1. \A p \in CallsIn(t) : p[1] \in 1..Len(t)
    BY CallsAre
  <2> QED
    BY <2>1, LenProperties DEF CallsTo
<1>4. ASSUME NEW p \in CallsIn(t)
      PROVE  inv[p] = Invocation(CallAt(t, p), Became(t, p[1], p[2]))
  <2>1. /\ acc.inv[p] = ReadAt(t, Len(t), p) /\ p \in DOMAIN acc.inv
        /\ acc.pending[CallAt(t, p).id] = IF HasResult(t, Len(t), p) THEN NoPlace ELSE p
    BY <1>2, <1>3 DEF ReadOK
  <2>2. acc.inv[p].id = CallAt(t, p).id
    <3>1. ReadAt(t, Len(t), p).id = CallAt(t, p).id
      BY DEF ReadAt
    <3> QED
      BY <2>1, <3>1
  <2>3. p # NoPlace
    BY CallsAre
  <2>4. CASE HasResult(t, Len(t), p)
    <3>1. inv[p] = ReadAt(t, Len(t), p)
      BY <2>1, <2>2, <2>3, <2>4, <1>1
    <3>2. ReadAt(t, Len(t), p) = Invocation(CallAt(t, p), Became(t, p[1], p[2]))
      BY <2>4, BecameIs DEF ReadAt, Invocation
    <3> QED
      BY <3>1, <3>2
  <2>5. CASE ~HasResult(t, Len(t), p)
    <3>1. inv[p] = Invocation(ReadAt(t, Len(t), p), "incomplete")
      BY <2>1, <2>2, <2>5, <1>1
    <3>2. Invocation(ReadAt(t, Len(t), p), "incomplete") = Invocation(CallAt(t, p), "incomplete")
      BY DEF ReadAt, Invocation
    <3>3. Became(t, p[1], p[2]) = "incomplete"
      BY <2>5, BecameIs
    <3> QED
      BY <3>1, <3>2, <3>3
  <2> QED
    BY <2>4, <2>5
<1>5. DOMAIN inv = CallsIn(t)
  BY <1>1, <1>2, <1>3 DEF ReadOK
<1>6. inv = [p \in CallsIn(t) |-> Invocation(CallAt(t, p), Became(t, p[1], p[2]))]
  BY <1>1, <1>4, <1>5
<1> QED
  BY <1>6 DEF inv, CallAt

-----------------------------------------------------------------------------
(***************************************************************************)
(* The inductive invariant: types, what each node finds, and what each     *)
(* turn is, whichever run left it.                                         *)
(***************************************************************************)
Steps == {"agent", "tools", "compose"}
Current == CurrentTurn(messages)

Typed ==
  /\ messages \in Seq(Message)
  /\ node \in {"idle", "direct", "rag", "setup", "agent", "tools", "compose"}
  /\ mode \in Mode \cup {"direct"} /\ left \in -1..RoundLimit
  /\ recipe.keys \in SUBSET Server /\ recipe.digest \in [recipe.keys -> Behaviour]
  /\ used \subseteq Server \X Behaviour

Bounded ==
  /\ Cardinality(Turns) <= MaxTurns
  /\ IsFiniteSet(CallsIn(messages)) /\ CallsMade <= MaxCalls

\* What a node finds in the turn it continues.
AtNode ==
  /\ node # "idle" => Turns # {}
  /\ node \in {"direct", "rag", "setup"} => Current = <<>>
  /\ node \in Steps =>
       Finals(Current) = {} /\ left = RoundLimit - Cardinality(Kind("ai", Current))
  /\ node \in {"agent", "tools"} => left >= 0
  /\ node \in {"tools", "compose"} =>
       /\ Current # <<>> /\ messages[Len(messages)] \in AI
       /\ node = "tools" <=> messages[Len(messages)].calls # <<>>

\* Whose tools answered, by the recipe of the turn.
OfRecipe ==
  /\ node \in Steps =>
       /\ \A i \in Kind("tool", Current) :
            Current[i].status = "success" => Current[i].tool \in recipe.keys \cup {Oracle}
       /\ \A u \in used : u[1] \in recipe.keys /\ u[2] = recipe.digest[u[1]]
  /\ node \notin Steps => used = {}

\* What a turn is made of.
Ordered(t) ==
  /\ Shape(t)
  /\ \A f \in Finals(t) : f = Len(t) /\ t[f].calls = <<>>
  /\ \A i \in Kind("ai", t) \ Finals(t) : t[i].text \in AgentText \cup {"limit"}
  /\ \A i \in Kind("tool", t) : t[i].failed \/ t[i].status = "error" => t[i].docs = {}

\* What an answer may say after the messages of a turn.
Sourced(t, a) ==
  /\ a.outcome # "none" => a.docs \subseteq UNION {t[i].docs : i \in Kind("tool", t)}
  /\ a.text \in {"no_context", "retrieval_failed"} => a.docs = {}
Frank(t, a) ==
  /\ Trivial(a.text) => \A i \in Kind("tool", t) : t[i].status = "success"
  /\ Trivial(a.text) /\ UniqueIds(t) =>
       \A p \in CallsIn(t) : Became(t, p[1], p[2]) # "incomplete"
  /\ a.outcome = "success" => ~EvidenceIn(t).error
  /\ a.outcome = "error" =>
       a.text \in {"exception", "policy", "tools_failed", "retrieval_failed"}

TurnOK(t) ==
  Ordered(t) /\ \A f \in Finals(t) : Sourced(t, t[f]) /\ Frank(t, t[f])
TurnsOK(ms) == \A q \in Kind("human", ms) : TurnOK(TurnIn(ms, q))

ChatInv == Typed /\ Bounded /\ AtNode /\ OfRecipe /\ TurnsOK(messages)

\* An answer closes a turn: as one more message or in place of the last one,
\* which calls no tool.
Closes(t, u, a) ==
  /\ a \in AI /\ a.final /\ a.calls = <<>>
  /\ u \in Seq(Said) /\ Len(u) \in Nat \ {0} /\ u[Len(u)] = a
  /\ \A i \in 1..Len(u) - 1 : u[i] = t[i]
  /\ \/ Len(u) = Len(t) + 1
     \/ Len(u) = Len(t) /\ t[Len(t)] \in AI /\ t[Len(t)].calls = <<>>

\* Two turns with the same calls and results.
SameTools(t, u) ==
  /\ Kind("tool", u) = Kind("tool", t) /\ \A i \in Kind("tool", t) : u[i] = t[i]
  /\ CallsIn(u) = CallsIn(t) /\ \A p \in CallsIn(t) : CallAt(u, p) = CallAt(t, p)

LEMMA LatestRetrieval ==
  ASSUME NEW t \in Seq(Said), Retrievals(t) # {}
  PROVE  (CHOOSE i \in Retrievals(t) : \A j \in Retrievals(t) : j <= i) \in Retrievals(t)
<1> DEFINE T == Retrievals(t)
<1>1. T \in SUBSET Nat /\ \A j \in T : j <= Len(t)
  BY LenProperties DEF Retrievals, Kind
<1>2. Len(t) \in Nat
  BY LenProperties
<1>3. \E i \in T : \A j \in T : j <= i
  <2> HIDE DEF T
  <2> QED
    BY <1>1, <1>2, GreatestNat DEF T
<1> QED
  BY <1>3

\* Evidence and outcomes depend on the calls and results of a turn alone.
LEMMA SameReading ==
  ASSUME NEW t \in Seq(Said), NEW u \in Seq(Said), SameTools(t, u)
  PROVE  /\ EvidenceIn(u) = EvidenceIn(t)
         /\ UniqueIds(u) <=> UniqueIds(t)
         /\ \A p \in CallsIn(t) : Became(u, p[1], p[2]) = Became(t, p[1], p[2])
         /\ UNION {u[i].docs : i \in Kind("tool", u)} = UNION {t[i].docs : i \in Kind("tool", t)}
<1>1. Retrievals(u) = Retrievals(t) /\ Retrievals(t) \subseteq Kind("tool", t)
  BY DEF Retrievals, SameTools
<1>2. EvidenceIn(u) = EvidenceIn(t)
  <2>1. CASE Retrievals(t) = {}
    BY <1>1, <2>1 DEF EvidenceIn
  <2>2. CASE Retrievals(t) # {}
    <3> DEFINE c == CHOOSE i \in Retrievals(t) : \A j \in Retrievals(t) : j <= i
               d == CHOOSE i \in Retrievals(u) : \A j \in Retrievals(u) : j <= i
    <3>1. d = c
      BY <1>1
    <3>2. c \in Retrievals(t)
      BY <2>2, LatestRetrieval
    <3>3. EvidenceIn(t) = [found |-> TRUE, docs |-> t[c].docs,
                           error |-> t[c].failed \/ t[c].status = "error"]
      BY <2>2 DEF EvidenceIn
    <3>4. EvidenceIn(u) = [found |-> TRUE, docs |-> u[d].docs,
                           error |-> u[d].failed \/ u[d].status = "error"]
      BY <2>2, <1>1 DEF EvidenceIn
    <3> HIDE DEF c, d
    <3>5. u[d] = t[c]
      BY <3>1, <3>2, <1>1 DEF SameTools
    <3> QED
      BY <3>3, <3>4, <3>5
  <2> QED
    BY <2>1, <2>2
<1>3. UniqueIds(u) <=> UniqueIds(t)
  BY DEF UniqueIds, SameTools, CallAt
<1>4. ASSUME NEW p \in CallsIn(t)
      PROVE  Became(u, p[1], p[2]) = Became(t, p[1], p[2])
  <2>1. p[2] \in 1..p[2]
    BY CallsAre
  <2>2. CASE \A j \in 1..p[2] : p[1] + j \in Kind("tool", t)
    BY <2>1, <2>2 DEF SameTools, Became
  <2>3. CASE ~ \A j \in 1..p[2] : p[1] + j \in Kind("tool", t)
    BY <2>3 DEF SameTools, Became
  <2> QED
    BY <2>2, <2>3
<1>5. {u[i].docs : i \in Kind("tool", u)} = {t[i].docs : i \in Kind("tool", t)}
  BY DEF SameTools
<1> QED
  BY <1>2, <1>3, <1>4, <1>5

LEMMA SameJudgement ==
  ASSUME NEW t \in Seq(Said), NEW u \in Seq(Said), SameTools(t, u), NEW a
  PROVE  Sourced(t, a) /\ Frank(t, a) => Sourced(u, a) /\ Frank(u, a)
<1>1. Sourced(t, a) => Sourced(u, a)
  BY SameReading DEF Sourced
<1>2. CallsIn(u) = CallsIn(t) /\ Kind("tool", u) = Kind("tool", t)
      /\ \A i \in Kind("tool", t) : u[i] = t[i]
  BY DEF SameTools
<1>3. Frank(t, a) => Frank(u, a)
  BY <1>2, SameReading DEF Frank
<1> QED
  BY <1>1, <1>3

\* A longer turn keeps the places of the shorter one.
LEMMA AnsweringKept ==
  ASSUME NEW t \in Seq(Said), NEW u \in Seq(Said), NEW m \in 1..Len(t), m <= Len(u),
         \A i \in 1..m : u[i] = t[i], NEW k \in Nat \ {0}, Answering(t, m, k)
  PROVE  Answering(u, m, k)
<1>1. Len(t) \in Nat /\ Len(u) \in Nat
  BY LenProperties
<1>2. m - k \in 1..m /\ m - k \in 1..Len(u) /\ \A j \in m - k + 1..m : j \in 1..m
  BY <1>1 DEF Answering
<1>3. u[m - k] = t[m - k] /\ u[m] = t[m] /\ \A j \in m - k + 1..m : u[j] = t[j]
  BY <1>1, <1>2
<1> QED
  BY <1>2, <1>3 DEF Answering

\* An answer disturbs no call and no result, and is the only final message.
LEMMA ClosesTurn ==
  ASSUME NEW t \in Seq(Said), NEW u, NEW a, Closes(t, u, a), Ordered(t), Finals(t) = {}
  PROVE  SameTools(t, u) /\ Finals(u) = {Len(u)} /\ Ordered(u)
<1> DEFINE n == Len(u)
<1>1. /\ u \in Seq(Said) /\ n \in Nat \ {0} /\ DOMAIN u = 1..n /\ u[n] = a
      /\ Len(t) \in Nat /\ DOMAIN t = 1..Len(t) /\ n - 1 <= Len(t)
      /\ \A i \in 1..n - 1 : u[i] = t[i] /\ i \in 1..Len(t)
      /\ \A i \in 1..Len(t) : i \in 1..n - 1 \/ (i = n /\ t[i] \in AI /\ t[i].calls = <<>>)
  <2>1. u \in Seq(Said) /\ n \in Nat \ {0} /\ u[n] = a /\ \A i \in 1..n - 1 : u[i] = t[i]
    BY DEF Closes
  <2>2. Len(t) \in Nat /\ DOMAIN t = 1..Len(t) /\ DOMAIN u = 1..n
    BY <2>1, LenProperties
  <2>3. n = Len(t) + 1 \/ (n = Len(t) /\ t[Len(t)] \in AI /\ t[Len(t)].calls = <<>>)
    BY DEF Closes
  <2> HIDE DEF n
  <2>4. n - 1 <= Len(t) /\ \A i \in 1..n - 1 : i \in 1..Len(t)
    <3>1. n = Len(t) + 1 \/ n = Len(t)
      BY <2>3, Zenon
    <3>2. \A l \in Nat, m \in Nat \ {0} : m = l + 1 \/ m = l =>
            m - 1 <= l /\ \A i \in 1..m - 1 : i \in 1..l
      OBVIOUS
    <3>3. Len(t) \in Nat /\ n \in Nat \ {0}
      BY <2>1, <2>2
    <3> QED
      BY <3>1, <3>2, <3>3
  <2>5. ASSUME NEW i \in 1..Len(t), i \notin 1..n - 1
        PROVE  i = n /\ t[i] \in AI /\ t[i].calls = <<>>
    <3>1. i = n /\ i = Len(t)
      <4>1. n = Len(t) + 1 \/ n = Len(t)
        BY <2>3, Zenon
      <4>2. \A l \in Nat, m \in Nat \ {0} : (m = l + 1 \/ m = l) =>
              \A j \in 1..l : j \notin 1..m - 1 => j = m /\ j = l
        OBVIOUS
      <4>3. Len(t) \in Nat /\ n \in Nat \ {0}
        BY <2>1, <2>2
      <4> QED
        BY <4>1, <4>2, <4>3, <2>5
    <3> QED
      BY <3>1, <2>1, <2>2, <2>3
  <2> QED
    BY <2>1, <2>2, <2>4, <2>5
<1>2. a \in AI /\ a.final /\ a.calls = <<>> /\ a.kind = "ai" /\ DOMAIN a.calls = {}
  BY DEF Closes, AI
<1> HIDE DEF n
<1>3. Kind("tool", u) = Kind("tool", t) /\ Kind("tool", t) \subseteq 1..n - 1
  <2>1. \A i \in Kind("tool", t) : i \in 1..n - 1
    BY <1>1 DEF Kind, AI
  <2>2. \A i \in Kind("tool", u) : i \in 1..n - 1
    BY <1>1, <1>2 DEF Kind
  <2>3. ASSUME NEW i \in 1..n - 1 PROVE i \in Kind("tool", u) <=> i \in Kind("tool", t)
    BY <1>1 DEF Kind
  <2> QED
    BY <2>1, <2>2, <2>3
<1>4. \A i \in Kind("tool", t) : u[i] = t[i]
  BY <1>1, <1>3
<1>5. CallsIn(u) = CallsIn(t) /\ \A p \in CallsIn(t) : CallAt(u, p) = CallAt(t, p)
  <2>1. ASSUME NEW p \in CallsIn(t)
        PROVE  p \in CallsIn(u) /\ CallAt(u, p) = CallAt(t, p)
    <3>1. /\ p[1] \in 1..Len(t) /\ t[p[1]] \in AI /\ p[2] \in DOMAIN t[p[1]].calls
          /\ p = <<p[1], p[2]>>
      BY CallsAre
    <3>2. p[1] \in 1..n - 1
      <4> SUFFICES ASSUME p[1] \notin 1..n - 1 PROVE FALSE
        OBVIOUS
      <4>1. t[p[1]].calls = <<>>
        BY <3>1, <1>1
      <4> QED
        BY <3>1, <4>1
    <3>3. u[p[1]] = t[p[1]] /\ p[1] \in 1..Len(u)
      BY <3>2, <1>1 DEF n
    <3>4. <<p[1], p[2]>> \in CallsIn(u)
      BY <3>1, <3>3, <1>1, CallsAre
    <3> QED
      BY <3>1, <3>3, <3>4 DEF CallAt
  <2>2. ASSUME NEW p \in CallsIn(u)
        PROVE  p \in CallsIn(t)
    <3>1. /\ p[1] \in 1..n /\ u[p[1]] \in AI /\ p[2] \in DOMAIN u[p[1]].calls
          /\ p = <<p[1], p[2]>>
      BY <1>1, CallsAre DEF n
    <3>2. p[1] # n
      <4> SUFFICES ASSUME p[1] = n PROVE FALSE
        OBVIOUS
      <4>1. u[p[1]] = a
        BY <1>1
      <4> QED
        BY <4>1, <3>1, <1>2
    <3>3. p[1] \in 1..n - 1
      BY <3>1, <3>2, <1>1
    <3>4. u[p[1]] = t[p[1]] /\ p[1] \in 1..Len(t)
      BY <3>3, <1>1
    <3>5. <<p[1], p[2]>> \in CallsIn(t)
      BY <3>1, <3>4, CallsAre
    <3> QED
      BY <3>1, <3>5
  <2> QED
    BY <2>1, <2>2
<1>6. SameTools(t, u)
  BY <1>3, <1>4, <1>5 DEF SameTools
<1>7. Finals(u) = {n}
  <2>1. n \in Finals(u)
    BY <1>1, <1>2 DEF Finals, Kind
  <2>2. ASSUME NEW f \in Finals(u), f # n PROVE FALSE
    <3>1. f \in 1..n - 1 /\ u[f].kind = "ai" /\ u[f].final
      BY <2>2, <1>1 DEF Finals, Kind
    <3>2. f \in Finals(t)
      BY <3>1, <1>1 DEF Finals, Kind
    <3> QED
      BY <3>2
  <2> QED
    BY <2>1, <2>2
<1>8. Shape(u)
  <2> SUFFICES ASSUME NEW m \in Kind("tool", u) PROVE \E k \in Nat \ {0} : Answering(u, m, k)
    BY DEF Shape
  <2>1. m \in Kind("tool", t) /\ m \in 1..n - 1
    BY <1>3
  <2>2. PICK k \in Nat \ {0} : Answering(t, m, k)
    BY <2>1 DEF Ordered, Shape
  <2>3. m \in 1..Len(t) /\ m <= n /\ \A i \in 1..m : u[i] = t[i]
    <3>1. \A i \in 1..m : i \in 1..n - 1
      BY <2>1, <1>1
    <3> QED
      BY <2>1, <3>1, <1>1
  <2>4. Answering(u, m, k)
    BY <2>2, <2>3, <1>1, AnsweringKept DEF n
  <2> QED
    BY <2>4
<1>9. \A i \in Kind("ai", u) \ Finals(u) : u[i].text \in AgentText \cup {"limit"}
  <2> SUFFICES ASSUME NEW i \in Kind("ai", u) \ Finals(u)
               PROVE  u[i].text \in AgentText \cup {"limit"}
    OBVIOUS
  <2>1. i \in 1..n - 1
    BY <1>1, <1>7 DEF Kind
  <2>2. u[i] = t[i] /\ i \in Kind("ai", t)
    BY <2>1, <1>1 DEF Kind
  <2> QED
    BY <2>2 DEF Ordered
<1>10. \A f \in Finals(u) : f = Len(u) /\ u[f].calls = <<>>
  BY <1>1, <1>2, <1>7 DEF n
<1>11. \A i \in Kind("tool", u) : u[i].failed \/ u[i].status = "error" => u[i].docs = {}
  BY <1>3, <1>4 DEF Ordered
<1> QED
  BY <1>6, <1>7, <1>8, <1>9, <1>10, <1>11 DEF Ordered, n

\* A turn stays as it should be under an answer that may follow its messages.
LEMMA ClosedTurnOK ==
  ASSUME NEW t \in Seq(Said), NEW u, NEW a, Closes(t, u, a), TurnOK(t), Finals(t) = {},
         Sourced(t, a), Frank(t, a)
  PROVE  TurnOK(u) /\ Finals(u) # {} /\ u[Len(u)] = a
<1>1. SameTools(t, u) /\ Finals(u) = {Len(u)} /\ Ordered(u)
  BY ClosesTurn DEF TurnOK
<1>2. u \in Seq(Said) /\ u[Len(u)] = a
  BY DEF Closes
<1>3. Sourced(u, a) /\ Frank(u, a)
  BY <1>1, <1>2, SameJudgement
<1> QED
  BY <1>1, <1>2, <1>3 DEF TurnOK

\* Another current turn leaves the other turns as they are.
LEMMA RebuiltTurnsOK ==
  ASSUME NEW ms \in Seq(Message), Kind("human", ms) # {}, TurnsOK(ms),
         NEW u \in Seq(Said), TurnOK(u)
  PROVE  TurnsOK(Rebuilt(ms, u))
<1> SUFFICES ASSUME NEW q \in Kind("human", Rebuilt(ms, u))
             PROVE  TurnOK(TurnIn(Rebuilt(ms, u), q))
  BY DEF TurnsOK
<1>1. q \in Kind("human", ms)
  BY RebuiltTurns
<1>2. CASE q = LatestHuman(ms)
  BY <1>2, RebuiltTurns
<1>3. CASE q # LatestHuman(ms)
  BY <1>1, <1>3, RebuiltTurns DEF TurnsOK
<1> QED
  BY <1>2, <1>3

\* Steps that make no call of a tool.
LEMMA NoNewCalls ==
  ASSUME NEW ms \in Seq(Message), Kind("human", ms) # {}, NEW u \in Seq(Said),
         \A i \in 1..Len(u) : u[i] \in AI =>
           u[i].calls = <<>> \/ (i \in 1..Len(CurrentTurn(ms)) /\ u[i] = CurrentTurn(ms)[i])
  PROVE  CallsIn(Rebuilt(ms, u)) \subseteq CallsIn(ms)
<1> DEFINE h == LatestHuman(ms)
           r == Rebuilt(ms, u)
           t == CurrentTurn(ms)
<1>1. /\ h \in 1..Len(ms) /\ Len(ms) \in Nat /\ DOMAIN ms = 1..Len(ms)
      /\ Len(t) = Len(ms) - h /\ \A i \in 1..Len(ms) - h : t[i] = ms[h + i]
  BY CurrentTurnFacts, LenProperties
<1>2. /\ r \in Seq(Message) /\ Len(r) = h + Len(u) /\ Len(u) \in Nat /\ DOMAIN r = 1..Len(r)
      /\ \A i \in 1..h : r[i] = ms[i]
      /\ \A i \in 1..Len(u) : r[h + i] = u[i]
  BY RebuiltFacts, LenProperties
<1> HIDE DEF h, r, t
<1>3. ASSUME NEW i \in Kind("ai", r), r[i].calls # <<>>
      PROVE  i \in Kind("ai", ms) /\ r[i] = ms[i]
  <2>1. i \in 1..h + Len(u) /\ r[i].kind = "ai"
    BY <1>2 DEF Kind
  <2>2. CASE i <= h
    BY <2>1, <2>2, <1>1, <1>2 DEF Kind
  <2>3. CASE ~(i <= h)
    <3>1. PICK j \in 1..Len(u) : i = h + j
      <4>1. i - h \in 1..Len(u) /\ i = h + (i - h)
        BY <2>1, <2>3, <1>1, <1>2
      <4> QED
        BY <4>1
    <3>2. r[i] = u[j] /\ u[j].kind = "ai"
      BY <2>1, <3>1, <1>2
    <3>3. u[j] \in AI
      BY <3>2, SaidFacts
    <3>4. j \in 1..Len(t) /\ u[j] = t[j]
      BY <3>2, <3>3, <1>3 DEF t
    <3>5. t[j] = ms[h + j] /\ h + j \in 1..Len(ms)
      BY <3>4, <1>1
    <3> QED
      BY <3>1, <3>2, <3>4, <3>5, <1>1 DEF Kind
  <2> QED
    BY <2>2, <2>3
<1>4. ASSUME NEW p \in CallsIn(r)
      PROVE  p \in CallsIn(ms)
  <2>1. PICK i \in Kind("ai", r) : p \in {i} \X DOMAIN r[i].calls
    BY DEF CallsIn
  <2>2. r[i].calls # <<>>
    BY <2>1
  <2>3. i \in Kind("ai", ms) /\ r[i] = ms[i]
    BY <2>2, <1>3
  <2> QED
    BY <2>1, <2>3 DEF CallsIn
<1> QED
  BY <1>4 DEF r

LEMMA CallsBounded ==
  ASSUME NEW S, NEW T, IsFiniteSet(T), Cardinality(T) <= MaxCalls, S \subseteq T
  PROVE  IsFiniteSet(S) /\ Cardinality(S) <= MaxCalls
<1>1. IsFiniteSet(S) /\ Cardinality(S) <= Cardinality(T)
  BY FS_Subset
<1>2. Cardinality(S) \in Nat /\ Cardinality(T) \in Nat /\ MaxCalls \in Nat
  BY <1>1, FS_CardinalityType, ChatConstants
<1> QED
  BY <1>1, <1>2

\* One more message of the agent.
LEMMA CallsOfOneMore ==
  ASSUME NEW ms \in Seq(Message), NEW m \in AI, IsFiniteSet(CallsIn(ms))
  PROVE  /\ IsFiniteSet(CallsIn(Append(ms, m)))
         /\ Cardinality(CallsIn(Append(ms, m))) <= Cardinality(CallsIn(ms)) + Len(m.calls)
<1> DEFINE n == Len(ms)
           r == Append(ms, m)
           new == {n + 1} \X DOMAIN m.calls
<1>1. n \in Nat /\ DOMAIN ms = 1..n /\ m.kind = "ai" /\ m.calls \in Seq(Call)
  BY LenProperties DEF AI
<1>2. DOMAIN r = 1..n + 1 /\ r[n + 1] = m /\ \A i \in 1..n : r[i] = ms[i]
  BY <1>1
<1> HIDE DEF n, r
<1>3. Kind("ai", r) = Kind("ai", ms) \cup {n + 1} /\ Kind("ai", ms) \subseteq 1..n
  <2>1. 1..n + 1 = (1..n) \cup {n + 1}
    BY <1>1
  <2> QED
    BY <2>1, <1>1, <1>2 DEF Kind
<1>4. CallsIn(r) = CallsIn(ms) \cup new
  <2> HIDE DEF new
  <2>1. ASSUME NEW p \in CallsIn(r) PROVE p \in CallsIn(ms) \cup new
    <3>1. PICK i \in Kind("ai", r) : p \in {i} \X DOMAIN r[i].calls
      BY DEF CallsIn
    <3>2. CASE i = n + 1
      BY <3>1, <3>2, <1>2 DEF new
    <3>3. CASE i # n + 1
      <4>1. i \in Kind("ai", ms) /\ r[i] = ms[i]
        BY <3>3, <1>2, <1>3
      <4> QED
        BY <3>1, <4>1 DEF CallsIn
    <3> QED
      BY <3>2, <3>3
  <2>2. ASSUME NEW p \in CallsIn(ms) PROVE p \in CallsIn(r)
    <3>1. PICK i \in Kind("ai", ms) : p \in {i} \X DOMAIN ms[i].calls
      BY DEF CallsIn
    <3>2. i \in Kind("ai", r) /\ r[i] = ms[i]
      BY <1>2, <1>3
    <3> QED
      BY <3>1, <3>2 DEF CallsIn
  <2>3. ASSUME NEW p \in new PROVE p \in CallsIn(r)
    <3>1. n + 1 \in Kind("ai", r) /\ p \in {n + 1} \X DOMAIN r[n + 1].calls
      BY <1>2, <1>3 DEF new
    <3> QED
      BY <3>1 DEF CallsIn
  <2> QED
    BY <2>1, <2>2, <2>3
<1>5. IsFiniteSet(new) /\ Cardinality(new) = Len(m.calls) /\ Len(m.calls) \in Nat
  <2>1. DOMAIN m.calls = 1..Len(m.calls) /\ Len(m.calls) \in Nat
    BY <1>1, LenProperties
  <2>2. IsFiniteSet(DOMAIN m.calls) /\ Cardinality(DOMAIN m.calls) = Len(m.calls)
    BY <2>1, FS_Interval
  <2>3. IsFiniteSet({n + 1}) /\ Cardinality({n + 1}) = 1
    BY FS_Singleton
  <2>4. IsFiniteSet(new) /\ Cardinality(new) = 1 * Len(m.calls)
    BY <2>2, <2>3, FS_Product
  <2> QED
    BY <2>1, <2>4
<1>6. /\ IsFiniteSet(CallsIn(ms) \cup new)
      /\ Cardinality(CallsIn(ms) \cup new) =
           Cardinality(CallsIn(ms)) + Cardinality(new) - Cardinality(CallsIn(ms) \cap new)
  BY <1>5, FS_Union
<1>7. Cardinality(CallsIn(ms)) \in Nat /\ Cardinality(CallsIn(ms) \cap new) \in Nat
  BY <1>5, FS_CardinalityType, FS_Intersection
<1> QED
  BY <1>4, <1>5, <1>6, <1>7 DEF r

\* The turn after the agent spoke.
LEMMA SpokenTurn ==
  ASSUME NEW t \in Seq(Said), TurnOK(t), Finals(t) = {},
         NEW m \in AI, ~m.final, m.text \in AgentText \cup {"limit"}
  PROVE  /\ Append(t, m) \in Seq(Said) /\ Append(t, m) # <<>>
         /\ TurnOK(Append(t, m)) /\ Finals(Append(t, m)) = {}
         /\ Kind("tool", Append(t, m)) = Kind("tool", t)
         /\ \A i \in 1..Len(t) : Append(t, m)[i] = t[i]
         /\ Cardinality(Kind("ai", t)) \in Nat
         /\ Cardinality(Kind("ai", Append(t, m))) = Cardinality(Kind("ai", t)) + 1
<1> DEFINE n == Len(t)
           u == Append(t, m)
<1>1. n \in Nat /\ DOMAIN t = 1..n /\ m.kind = "ai" /\ m \in Said
  BY LenProperties DEF AI, Said
<1>2. /\ u \in Seq(Said) /\ Len(u) = n + 1 /\ DOMAIN u = 1..n + 1
      /\ u[n + 1] = m /\ \A i \in 1..n : u[i] = t[i]
  BY <1>1
<1>3. u # <<>>
  BY <1>1, <1>2
<1> HIDE DEF n, u
<1>4. 1..n + 1 = (1..n) \cup {n + 1} /\ n + 1 \notin 1..n
  BY <1>1
<1>5. Kind("tool", u) = Kind("tool", t) /\ Kind("tool", t) \subseteq 1..n
  BY <1>1, <1>2, <1>4 DEF Kind
<1>6. /\ Kind("ai", u) = Kind("ai", t) \cup {n + 1} /\ n + 1 \notin Kind("ai", t)
      /\ Kind("ai", t) \subseteq 1..n
  BY <1>1, <1>2, <1>4 DEF Kind
<1>7. Finals(u) = {}
  BY <1>2, <1>6 DEF Finals
<1>8. Shape(u)
  <2> SUFFICES ASSUME NEW j \in Kind("tool", u) PROVE \E k \in Nat \ {0} : Answering(u, j, k)
    BY DEF Shape
  <2>1. j \in Kind("tool", t) /\ j \in 1..n
    BY <1>5
  <2>2. PICK k \in Nat \ {0} : Answering(t, j, k)
    BY <2>1 DEF TurnOK, Ordered, Shape
  <2>3. j \in 1..Len(t) /\ j <= Len(u) /\ \A i \in 1..j : u[i] = t[i]
    <3>1. j \in Nat /\ j <= n + 1 /\ \A i \in 1..j : i \in 1..n
      BY <2>1, <1>1
    <3> QED
      BY <2>1, <3>1, <1>2 DEF n
  <2>4. Answering(u, j, k)
    BY <2>2, <2>3, <1>2, AnsweringKept
  <2> QED
    BY <2>4
<1>9. \A i \in Kind("ai", u) \ Finals(u) : u[i].text \in AgentText \cup {"limit"}
  <2> SUFFICES ASSUME NEW i \in Kind("ai", u) PROVE u[i].text \in AgentText \cup {"limit"}
    OBVIOUS
  <2>1. CASE i = n + 1
    BY <2>1, <1>2
  <2>2. CASE i # n + 1
    <3>1. i \in Kind("ai", t) \ Finals(t) /\ u[i] = t[i]
      BY <2>2, <1>2, <1>6
    <3> QED
      BY <3>1 DEF TurnOK, Ordered
  <2> QED
    BY <2>1, <2>2
<1>10. \A i \in Kind("tool", u) : u[i].failed \/ u[i].status = "error" => u[i].docs = {}
  BY <1>2, <1>5 DEF TurnOK, Ordered
<1>11. TurnOK(u)
  BY <1>7, <1>8, <1>9, <1>10 DEF TurnOK, Ordered
<1>12. Cardinality(Kind("ai", t)) \in Nat /\ Cardinality(Kind("ai", u)) = Cardinality(Kind("ai", t)) + 1
  <2>1. IsFiniteSet(1..n)
    BY <1>1, FS_Interval
  <2>2. IsFiniteSet(Kind("ai", t))
    BY <2>1, <1>6, FS_Subset
  <2> QED
    BY <2>2, <1>6, FS_AddElement, FS_CardinalityType
<1> QED
  BY <1>2, <1>3, <1>5, <1>7, <1>11, <1>12 DEF n, u

\* The turn after the tools answered.
LEMMA AnsweredTurn ==
  ASSUME NEW t \in Seq(Said), TurnOK(t), Finals(t) = {}, t # <<>>, t[Len(t)] \in AI,
         NEW rs \in Seq(Result), Len(rs) = Len(t[Len(t)].calls),
         \A k \in 1..Len(rs) : /\ rs[k].id = t[Len(t)].calls[k].id
                               /\ rs[k].tool = t[Len(t)].calls[k].tool
                               /\ rs[k].failed \/ rs[k].status = "error" => rs[k].docs = {}
  PROVE  /\ t \o rs \in Seq(Said) /\ TurnOK(t \o rs) /\ Finals(t \o rs) = {}
         /\ Kind("ai", t \o rs) = Kind("ai", t)
         /\ \A i \in Kind("ai", t) : i \in 1..Len(t) /\ (t \o rs)[i] = t[i]
         /\ \A i \in Kind("tool", t \o rs) :
              \/ i \in Kind("tool", t) /\ (t \o rs)[i] = t[i]
              \/ \E k \in 1..Len(rs) : (t \o rs)[i] = rs[k]
<1> DEFINE n == Len(t)
           u == t \o rs
           c == t[n].calls
<1>1. n \in Nat \ {0} /\ DOMAIN t = 1..n /\ Len(rs) \in Nat /\ n \in 1..n
  <2>1. n \in Nat /\ DOMAIN t = 1..n /\ Len(rs) \in Nat
    BY LenProperties
  <2>2. n # 0
    BY EmptySeq
  <2> HIDE DEF n
  <2> QED
    BY <2>1, <2>2
<1>2. rs \in Seq(Said) /\ \A k \in 1..Len(rs) : rs[k] \in Result /\ rs[k].kind = "tool"
  <2>1. \A k \in 1..Len(rs) : rs[k] \in Result
    BY ElementOfSeq
  <2>2. Result \subseteq Said
    BY DEF Said
  <2>3. rs \in Seq(Said)
    BY <2>2, SeqMonotonic
  <2> QED
    BY <2>1, <2>3 DEF Result
<1>3. /\ u \in Seq(Said) /\ Len(u) = n + Len(rs)
      /\ \A i \in 1..n + Len(rs) : u[i] = IF i <= n THEN t[i] ELSE rs[i - n]
  <2>1. PICK s \in Seq(Said) : s = rs
    BY <1>2
  <2> HIDE DEF n
  <2> DEFINE v == t \o s
  <2>2. /\ v \in Seq(Said) /\ Len(v) = Len(t) + Len(s)
        /\ \A i \in 1..Len(t) + Len(s) : v[i] = IF i <= Len(t) THEN t[i] ELSE s[i - Len(t)]
    BY ConcatProperties
  <2>3. v = u
    BY <2>1, Zenon
  <2> HIDE DEF u, v
  <2> QED
    BY <2>1, <2>2, <2>3 DEF n
<1> HIDE DEF u
<1>4. DOMAIN u = 1..n + Len(rs)
  BY <1>3, LenProperties
<1>5. c \in Seq(Call) /\ Len(c) = Len(rs) /\ DOMAIN c = 1..Len(rs)
  <2>1. PICK m \in AI : m = t[n]
    OBVIOUS
  <2>2. m.calls \in Seq(Call)
    BY DEF AI
  <2> QED
    BY <2>1, <2>2, LenProperties
<1>6. /\ t[n] \in AI
      /\ \A k \in 1..Len(rs) :
           /\ rs[k].id = c[k].id /\ rs[k].tool = c[k].tool
           /\ rs[k].failed \/ rs[k].status = "error" => rs[k].docs = {}
  OBVIOUS
<1> HIDE DEF n, c
<1>7. \A i \in 1..n : u[i] = t[i] /\ i \in 1..n + Len(rs)
  BY <1>1, <1>3
<1>8. ASSUME NEW k \in 1..Len(rs)
      PROVE  n + k \in 1..n + Len(rs) /\ u[n + k] = rs[k]
  <2>1. PICK i \in 1..n + Len(rs) : i = n + k
    BY <1>1
  <2>2. ~(i <= n) /\ i - n = k
    BY <2>1, <1>1
  <2>3. u[i] = rs[i - n]
    BY <2>2, <1>3
  <2> QED
    BY <2>1, <2>2, <2>3
<1>9. \A i \in 1..n + Len(rs) : i \in 1..n \/ \E k \in 1..Len(rs) : i = n + k
  <2> TAKE i \in 1..n + Len(rs)
  <2>1. CASE i <= n
    BY <2>1, <1>1
  <2>2. CASE ~(i <= n)
    <3>1. i - n \in 1..Len(rs) /\ i = n + (i - n)
      BY <2>2, <1>1
    <3> QED
      BY <3>1
  <2> QED
    BY <2>1, <2>2
<1>10. /\ Kind("ai", u) = Kind("ai", t) /\ Kind("ai", t) \subseteq 1..n
       /\ \A i \in Kind("ai", t) : u[i] = t[i]
  <2>1. ASSUME NEW i \in Kind("ai", u) PROVE i \in Kind("ai", t)
    <3>1. i \in 1..n + Len(rs) /\ u[i].kind = "ai"
      BY <1>4 DEF Kind
    <3>2. CASE i \in 1..n
      BY <3>1, <3>2, <1>1, <1>7 DEF Kind
    <3>3. CASE \E k \in 1..Len(rs) : i = n + k
      BY <3>1, <3>3, <1>2, <1>8
    <3> QED
      BY <3>1, <3>2, <3>3, <1>9
  <2>2. \A i \in Kind("ai", t) : i \in 1..n /\ i \in Kind("ai", u)
    BY <1>1, <1>4, <1>7 DEF Kind
  <2> QED
    BY <2>1, <2>2, <1>7
<1>11. Finals(u) = {}
  BY <1>10 DEF Finals
<1>12. \A i \in Kind("tool", u) :
         \/ i \in Kind("tool", t) /\ i \in 1..n /\ u[i] = t[i]
         \/ \E k \in 1..Len(rs) : i = n + k /\ u[i] = rs[k]
  <2> TAKE i \in Kind("tool", u)
  <2>1. i \in 1..n + Len(rs) /\ u[i].kind = "tool"
    BY <1>4 DEF Kind
  <2>2. CASE i \in 1..n
    BY <2>1, <2>2, <1>1, <1>7 DEF Kind
  <2>3. CASE \E k \in 1..Len(rs) : i = n + k
    BY <2>3, <1>8
  <2> QED
    BY <2>1, <2>2, <2>3, <1>9
<1>13. Shape(u)
  <2> SUFFICES ASSUME NEW j \in Kind("tool", u) PROVE \E k \in Nat \ {0} : Answering(u, j, k)
    BY DEF Shape
  <2>1. CASE j \in Kind("tool", t) /\ j \in 1..n
    <3>1. PICK k \in Nat \ {0} : Answering(t, j, k)
      BY <2>1 DEF TurnOK, Ordered, Shape
    <3>2. j \in 1..Len(t) /\ j <= Len(u) /\ \A i \in 1..j : u[i] = t[i]
      <4>1. j \in Nat /\ j <= n + Len(rs) /\ \A i \in 1..j : i \in 1..n
        BY <2>1, <1>1
      <4> QED
        BY <2>1, <4>1, <1>3, <1>7 DEF n
    <3>3. Answering(u, j, k)
      BY <3>1, <3>2, <1>3, AnsweringKept
    <3> QED
      BY <3>3
  <2>2. CASE \E k \in 1..Len(rs) : j = n + k /\ u[j] = rs[k]
    <3>1. PICK k \in 1..Len(rs) : j = n + k /\ u[j] = rs[k]
      BY <2>2
    <3>2. j - k = n /\ n \in 1..Len(u) /\ u[n] = t[n] /\ k \in Nat \ {0}
      BY <3>1, <1>1, <1>3, <1>7
    <3>3. \A l \in j - k + 1..j : u[l].kind = "tool"
      <4> TAKE l \in j - k + 1..j
      <4>1. PICK d \in 1..Len(rs) : l = n + d
        <5>1. l - n \in 1..Len(rs) /\ l = n + (l - n)
          BY <3>1, <3>2, <1>1
        <5> QED
          BY <5>1
      <4> QED
        BY <4>1, <1>2, <1>8
    <3>4. u[n] \in AI /\ u[n].calls = c /\ k \in DOMAIN c
      BY <3>2, <1>5, <1>6 DEF c
    <3>5. u[j].id = c[k].id /\ u[j].tool = c[k].tool
      <4>1. rs[k].id = c[k].id /\ rs[k].tool = c[k].tool
        BY <1>6
      <4> QED
        BY <3>1, <4>1
    <3>6. Answering(u, j, k)
      BY <3>2, <3>3, <3>4, <3>5 DEF Answering
    <3> QED
      BY <3>2, <3>6
  <2> QED
    BY <2>1, <2>2, <1>12
<1>14. \A i \in Kind("ai", u) \ Finals(u) : u[i].text \in AgentText \cup {"limit"}
  BY <1>10, <1>11 DEF TurnOK, Ordered
<1>15. \A i \in Kind("tool", u) : u[i].failed \/ u[i].status = "error" => u[i].docs = {}
  <2> TAKE i \in Kind("tool", u)
  <2>1. CASE i \in Kind("tool", t) /\ u[i] = t[i]
    BY <2>1 DEF TurnOK, Ordered
  <2>2. CASE \E k \in 1..Len(rs) : u[i] = rs[k]
    BY <2>2, <1>6
  <2> QED
    BY <2>1, <2>2, <1>12
<1>16. TurnOK(u)
  BY <1>11, <1>13, <1>14, <1>15 DEF TurnOK, Ordered
<1> QED
  BY <1>3, <1>10, <1>11, <1>12, <1>16 DEF u, n

LEMMA FunctionIsSeq ==
  ASSUME NEW S, NEW n \in Nat, NEW f \in [1..n -> S]
  PROVE  f \in Seq(S)
BY SeqDef

\* Reranking drops documents and adds none.
LEMMA RerankedFewer ==
  ASSUME NEW d, NEW k \in Reranked(d)
  PROVE  k \subseteq d
<1>1. \A r \in Ranked(d) : r.docs \subseteq d
  BY DEF Ranked
<1>2. \A r \in Ranked(d) : \A x \in Filtered(d) \cup {r.docs} : x \subseteq d
  BY <1>1 DEF Filtered
<1>3. CASE Reranker
  <2>1. PICK r \in Ranked(d) : k \in IF r.status = "failed" THEN Filtered(d) ELSE {r.docs}
    BY <1>3 DEF Reranked
  <2>2. k \in Filtered(d) \cup {r.docs}
    BY <2>1
  <2> QED
    BY <1>2, <2>2
<1>4. CASE ~Reranker
  BY <1>4 DEF Reranked
<1> QED
  BY <1>3, <1>4

LEMMA FoundDocs ==
  ASSUME NEW d \in Found
  PROVE  d \subseteq Doc
<1>1. PICK c \in Candidates : d = c.docs
  BY DEF Found
<1>2. \A x \in Candidates : x.docs \subseteq Doc
  BY DEF Candidates
<1> QED
  BY <1>1, <1>2

\* A result names its call; only an offered tool succeeds, and a failure has no documents.
LEMMA ResultsAre ==
  ASSUME NEW c \in Call, NEW load, NEW r \in Results(c, load)
  PROVE  /\ r \in Result /\ r.id = c.id /\ r.tool = c.tool
         /\ (r.failed \/ r.status = "error") => r.docs = {}
         /\ r.status = "success" => c.tool \in Offered(load)
<1>1. c.id \in CallId /\ c.tool \in Tool
  BY DEF Call
<1>2. ASSUME NEW status \in {"success", "error"}, NEW failed \in BOOLEAN, NEW docs \in SUBSET Doc
      PROVE  /\ ResultOf(c, status, failed, docs) \in Result
             /\ ResultOf(c, status, failed, docs).id = c.id
             /\ ResultOf(c, status, failed, docs).tool = c.tool
             /\ ResultOf(c, status, failed, docs).status = status
             /\ ResultOf(c, status, failed, docs).failed = failed
             /\ ResultOf(c, status, failed, docs).docs = docs
  BY <1>1 DEF ResultOf, Result
<1>3. CASE r = ResultOf(c, "error", FALSE, {})
  BY <1>2, <1>3
<1>4. CASE r # ResultOf(c, "error", FALSE, {})
  <2>1. c.tool \in Offered(load)
    BY <1>4 DEF Results
  <2>2. \/ \E d \in SUBSET Doc : r = ResultOf(c, "success", FALSE, d)
        \/ r = ResultOf(c, "success", TRUE, {})
    <3>1. CASE c.tool = Oracle
      <4>1. \/ \E d \in UNION {Filtered(docs) : docs \in Found} : r = ResultOf(c, "success", FALSE, d)
            \/ r = ResultOf(c, "success", TRUE, {})
        BY <1>4, <2>1, <3>1 DEF Results
      <4>2. \A d \in UNION {Filtered(docs) : docs \in Found} : d \in SUBSET Doc
        BY FoundDocs DEF Filtered
      <4> QED
        BY <4>1, <4>2
    <3>2. CASE c.tool # Oracle
      BY <1>4, <2>1, <3>2 DEF Results
    <3> QED
      BY <3>1, <3>2
  <2>3. CASE \E d \in SUBSET Doc : r = ResultOf(c, "success", FALSE, d)
    <3>1. PICK d \in SUBSET Doc : r = ResultOf(c, "success", FALSE, d)
      BY <2>3
    <3>2. r \in Result /\ r.id = c.id /\ r.tool = c.tool /\ r.status = "success" /\ r.failed = FALSE
      BY <1>2, <3>1
    <3> QED
      BY <3>2, <2>1
  <2>4. CASE r = ResultOf(c, "success", TRUE, {})
    <3>1. r \in Result /\ r.id = c.id /\ r.tool = c.tool /\ r.status = "success" /\ r.docs = {}
      BY <1>2, <2>4
    <3> QED
      BY <3>1, <2>1
  <2> QED
    BY <2>2, <2>3, <2>4
<1> QED
  BY <1>3, <1>4

\* What a node loads is of the recipe, and as it was unless it changed just now.
LEMMA LoadsAre ==
  ASSUME recipe.keys \in SUBSET Server, NEW load \in Loads
  PROVE  /\ DOMAIN load.serves \subseteq recipe.keys
         /\ \A s \in DOMAIN load.serves :
              /\ load.serves[s] \in Behaviour
              /\ load.steady => load.serves[s] = recipe.digest[s]
<1>1. PICK seen, config \in Configurations, parent \in SUBSET Server :
        /\ Compatible(seen) /\ load.steady = (seen = config)
        /\ DOMAIN load.serves \subseteq SelectKeys(config, Requested, RunKeys(parent))
        /\ \A s \in DOMAIN load.serves : load.serves[s] = config[s].does
  BY DEF Loads
<1>2. DOMAIN config \subseteq Server
  BY DEF Configurations
<1>3. Requested # {} /\ Requested \cap DOMAIN config \subseteq recipe.keys
  BY <1>2, ChatConstants DEF Requested
<1>4. DOMAIN load.serves \subseteq recipe.keys
  <2>1. SelectKeys(config, Requested, RunKeys(parent)) = Requested \cap DOMAIN config
    BY <1>3 DEF SelectKeys
  <2> QED
    BY <1>1, <1>3, <2>1
<1>5. ASSUME NEW s \in DOMAIN load.serves
      PROVE  load.serves[s] \in Behaviour
  <2>1. load.serves \in UNION {[S -> Behaviour] : S \in SUBSET Server}
    BY DEF Loads
  <2> QED
    BY <2>1
<1>6. ASSUME NEW s \in DOMAIN load.serves, load.steady
      PROVE  load.serves[s] = recipe.digest[s]
  <2>1. seen = config
    BY <1>1, <1>6
  <2>2. recipe.digest = Digest(config, recipe.keys)
    BY <1>1, <2>1 DEF Compatible
  <2>3. s \in recipe.keys
    BY <1>4
  <2>4. recipe.digest[s] = config[s].does
    BY <2>2, <2>3 DEF Digest
  <2> QED
    BY <1>1, <2>4
<1> QED
  BY <1>4, <1>5, <1>6

\* What the composition takes for the agent's answer.
LEMMA FinalAnswerIs ==
  ASSUME NEW t \in Seq(Said), Ordered(t), Finals(t) = {}
  PROVE  FinalAnswer(t) \in AgentText \cup {"limit"}
<1>1. CASE FinalAnswers(t) = {}
  BY <1>1 DEF FinalAnswer, AgentText
<1>2. CASE FinalAnswers(t) # {}
  <2> DEFINE T == FinalAnswers(t)
             c == CHOOSE i \in T : \A j \in T : j <= i
  <2>1. Len(t) \in Nat /\ T \in SUBSET Nat /\ T \subseteq Kind("ai", t) /\ \A j \in T : j <= Len(t)
    BY LenProperties DEF FinalAnswers, Kind
  <2>2. FinalAnswer(t) = t[c].text
    BY <1>2 DEF FinalAnswer
  <2>3. \E i \in T : \A j \in T : j <= i
    <3> HIDE DEF T
    <3> QED
      BY <1>2, <2>1, GreatestNat DEF T
  <2>4. c \in T
    BY <2>3
  <2> HIDE DEF T, c
  <2>5. c \in Kind("ai", t) \ Finals(t)
    BY <2>1, <2>4
  <2> QED
    BY <2>2, <2>5 DEF Ordered
<1> QED
  BY <1>1, <1>2

LEMMA AnswersAre ==
  ASSUME NEW text \in Text, NEW outcome \in Outcome, NEW docs \in SUBSET Doc
  PROVE  /\ Answers(text, outcome, docs) \in AI
         /\ Answers(text, outcome, docs).final /\ Answers(text, outcome, docs).calls = <<>>
         /\ Answers(text, outcome, docs).text = text
         /\ Answers(text, outcome, docs).outcome = outcome
         /\ Answers(text, outcome, docs).docs = docs
<1>1. <<>> \in Seq(Call)
  OBVIOUS
<1> QED
  BY <1>1 DEF Answers, AI

LEMMA OneMoreCloses ==
  ASSUME NEW t \in Seq(Said), NEW a \in AI, a.final, a.calls = <<>>
  PROVE  Closes(t, Append(t, a), a)
<1> DEFINE n == Len(t)
           u == Append(t, a)
<1>1. n \in Nat /\ a \in Said
  BY LenProperties DEF Said
<1>2. u \in Seq(Said) /\ Len(u) = n + 1 /\ u[n + 1] = a /\ \A i \in 1..n : u[i] = t[i]
  BY <1>1
<1> HIDE DEF n, u
<1>3. Len(u) \in Nat \ {0} /\ Len(u) - 1 = n /\ u[Len(u)] = a
  BY <1>1, <1>2
<1>4. Closes(t, u, a)
  BY <1>2, <1>3 DEF Closes, n
<1> QED
  BY <1>4 DEF u

LEMMA AnotherLastCloses ==
  ASSUME NEW t \in Seq(Said), t # <<>>, t[Len(t)] \in AI, t[Len(t)].calls = <<>>,
         NEW a \in AI, a.final, a.calls = <<>>
  PROVE  Closes(t, Replaced(t, a), a)
<1> DEFINE n == Len(t)
           u == Replaced(t, a)
<1>1. n \in Nat \ {0} /\ a \in Said
  BY LenProperties, EmptySeq DEF Said
<1>2. u \in Seq(Said) /\ Len(u) = n /\ \A i \in 1..n : u[i] = IF i = n THEN a ELSE t[i]
  BY <1>1, ExceptSeq DEF Replaced
<1> HIDE DEF n, u
<1>3. u[n] = a /\ \A i \in 1..n - 1 : u[i] = t[i]
  BY <1>1, <1>2
<1>4. Closes(t, u, a)
  BY <1>1, <1>2, <1>3 DEF Closes, n
<1> QED
  BY <1>4 DEF u

LEMMA LastAIIs ==
  ASSUME messages \in Seq(Message), messages # <<>>, messages[Len(messages)] \in AI
  PROVE  LastAI = Len(messages)
<1> DEFINE n == Len(messages)
           T == Kind("ai", messages)
<1>1. n \in Nat \ {0} /\ DOMAIN messages = 1..n
  BY LenProperties, EmptySeq
<1>2. n \in T
  BY <1>1 DEF Kind, AI
<1>3. T \subseteq 1..n
  BY <1>1 DEF Kind
<1> HIDE DEF n, T
<1>4. \A i \in T : (\A j \in T : j <= i) => i = n
  BY <1>1, <1>2, <1>3
<1>5. \A j \in T : j <= n
  BY <1>1, <1>3
<1>6. LastAI = CHOOSE i \in T : \A j \in T : j <= i
  BY DEF LastAI, T
<1> QED
  BY <1>2, <1>4, <1>5, <1>6 DEF n

\* Where the composition puts its answer.
LEMMA Placed ==
  ASSUME messages \in Seq(Message), Turns # {}, Current # <<>>,
         messages[Len(messages)] \in AI, messages[Len(messages)].calls = <<>>,
         Ordered(Current), Finals(Current) = {},
         NEW text \in Text, NEW outcome \in Outcome, NEW docs \in SUBSET Doc,
         Place(text, outcome, docs)
  PROVE  \E u \in Seq(Said), a \in AI :
           /\ messages' = Rebuilt(messages, u) /\ Closes(Current, u, a)
           /\ a.outcome = outcome /\ a.docs = docs
           /\ a.text = text \/ (text = "empty" /\ a.text \in AgentText \cup {"limit"})
<1> DEFINE t == Current
           h == LatestHuman(messages)
           n == Len(messages)
<1>1. /\ t \in Seq(Said) /\ Len(t) = n - h /\ h \in 1..n /\ n \in Nat
      /\ \A i \in 1..n - h : t[i] = messages[h + i]
  BY CurrentTurnFacts, LenProperties DEF Turns, Current
<1>2. Len(t) \in Nat \ {0}
  BY <1>1, EmptySeq
<1>3. t[Len(t)] = messages[n] /\ n \in 1..n
  <2> HIDE DEF t, h, n
  <2>1. Len(t) \in 1..n - h /\ h + Len(t) = n /\ n \in 1..n
    BY <1>1, <1>2
  <2> QED
    BY <2>1, <1>1
<1>4. messages # <<>> /\ LastAI = n
  <2>1. messages # <<>>
    BY <1>1
  <2> QED
    BY <2>1, LastAIIs
<1>5. CASE /\ text = "empty" \/ messages[LastAI].text = text
           /\ messages' = Relabelled(LastAI, outcome, docs)
  <2>1. PICK m \in AI : m = messages[n]
    OBVIOUS
  <2> DEFINE a == WithReferences(m, outcome, docs)
             u == Replaced(t, a)
  <2>2. a \in AI /\ a.final /\ a.calls = m.calls /\ a.text = m.text /\ a.outcome = outcome /\ a.docs = docs
    BY DEF WithReferences, AI
  <2> HIDE DEF a
  <2>3. m.calls = <<>> /\ a \in Said
    BY <2>1, <2>2 DEF Said
  <2>4. u \in Seq(Said) /\ Append(RemoveAt(messages, n), a) = Rebuilt(messages, u)
    BY <2>3, ReplaceRebuilds DEF Turns, Current
  <2>5. messages' = Append(RemoveAt(messages, n), a)
    BY <1>4, <1>5, <2>1 DEF Relabelled, a
  <2>6. Closes(t, u, a)
    BY <1>1, <1>3, <2>2, <2>3, AnotherLastCloses
  <2>7. m.text \in AgentText \cup {"limit"}
    <3>1. Len(t) \in Kind("ai", t) \ Finals(t)
      <4>1. DOMAIN t = 1..Len(t) /\ t[Len(t)].kind = "ai"
        BY <1>1, <1>3, LenProperties DEF AI
      <4>2. Len(t) \in 1..Len(t)
        BY <1>2
      <4> QED
        BY <4>1, <4>2 DEF Kind
    <3> QED
      BY <3>1, <2>1, <1>3 DEF Ordered
  <2>8. a.text = text \/ (text = "empty" /\ a.text \in AgentText \cup {"limit"})
    BY <1>4, <1>5, <2>1, <2>2, <2>7
  <2> HIDE DEF u, t
  <2> QED
    BY <2>2, <2>4, <2>5, <2>6, <2>8 DEF t
<1>6. CASE messages' = Append(messages, Answers(text, outcome, docs))
  <2> DEFINE a == Answers(text, outcome, docs)
             u == Append(t, a)
  <2>1. a \in AI /\ a.final /\ a.calls = <<>> /\ a.text = text /\ a.outcome = outcome /\ a.docs = docs
    BY AnswersAre
  <2> HIDE DEF a
  <2>2. a \in Said
    BY <2>1 DEF Said
  <2>3. u \in Seq(Said) /\ Append(messages, a) = Rebuilt(messages, u)
    BY <2>2, AppendRebuilds DEF Turns, Current
  <2>4. Closes(t, u, a)
    BY <1>1, <2>1, OneMoreCloses
  <2>5. messages' = Rebuilt(messages, u)
    BY <1>6, <2>3 DEF a
  <2> HIDE DEF u, t
  <2> QED
    BY <2>1, <2>3, <2>4, <2>5 DEF t
<1> QED
  BY <1>5, <1>6 DEF Place

\* An analysis without a failure means that everything went well.
LEMMA NothingFailed ==
  ASSUME NEW t \in Seq(Said), Shape(t), ~ToolFailed(Invocations(t))
  PROVE  /\ \A i \in Kind("tool", t) : t[i].status = "success"
         /\ UniqueIds(t) => \A p \in CallsIn(t) : Became(t, p[1], p[2]) # "incomplete"
<1> DEFINE inv == Invocations(t)
           E == {i \in Kind("tool", t) : t[i].status = "error"}
<1>1. {p \in DOMAIN inv : inv[p].got = "error"} = {}
  BY DEF ToolFailed
<1>2. Cardinality(E) = 0
  <2>1. Cardinality({p \in DOMAIN inv : inv[p].got = "error"}) = Cardinality(E)
    <3>1. \A s \in {"success", "error"} :
            Cardinality({p \in DOMAIN Invocations(t) : Invocations(t)[p].got = s}) =
            Cardinality({i \in Kind("tool", t) : t[i].status = s})
      BY InvocationsCount
    <3> QED
      BY <3>1, Zenon
  <2>2. Cardinality({}) = 0
    BY FS_EmptySet
  <2> HIDE DEF E, inv
  <2> QED
    BY <1>1, <2>1, <2>2, Zenon
<1>3. E = {}
  <2>1. E \subseteq 1..Len(t) /\ Len(t) \in Nat
    BY LenProperties DEF Kind
  <2>2. IsFiniteSet(E)
    <3>1. IsFiniteSet(1..Len(t)) /\ E \in SUBSET (1..Len(t))
      BY <2>1, FS_Interval
    <3> HIDE DEF E
    <3> QED
      BY <3>1, FS_Subset
  <2> QED
    BY <1>2, <2>2, FS_EmptySet
<1>4. \A i \in Kind("tool", t) : t[i].status = "success"
  <2>1. \A i \in Kind("tool", t) : t[i] \in Result
    BY SaidFacts DEF Kind
  <2>2. \A r \in Result : r.status \in {"success", "error"}
    BY DEF Result
  <2> QED
    BY <2>1, <2>2, <1>3
<1>5. ASSUME UniqueIds(t), NEW p \in CallsIn(t)
      PROVE  Became(t, p[1], p[2]) # "incomplete"
  <2>1. inv = [r \in CallsIn(t) |-> Invocation(t[r[1]].calls[r[2]], Became(t, r[1], r[2]))]
    BY <1>5, InvocationsRead
  <2>2. \A c, got : Invocation(c, got).got = got
    BY DEF Invocation
  <2>3. p \in DOMAIN inv /\ inv[p].got = Became(t, p[1], p[2])
    BY <2>1, <2>2
  <2> QED
    BY <2>3 DEF ToolFailed
<1> QED
  BY <1>4, <1>5

\* Evidence has only documents of the turn's results, and none after an error.
LEMMA EvidenceIs ==
  ASSUME NEW t \in Seq(Said), Ordered(t)
  PROVE  /\ EvidenceIn(t).docs \subseteq UNION {t[i].docs : i \in Kind("tool", t)}
         /\ EvidenceIn(t).docs \subseteq Doc
         /\ EvidenceIn(t).error => EvidenceIn(t).docs = {}
<1>1. CASE Retrievals(t) = {}
  <2>1. EvidenceIn(t) = NoEvidence
    BY <1>1 DEF EvidenceIn
  <2> QED
    BY <2>1 DEF NoEvidence
<1>2. CASE Retrievals(t) # {}
  <2> DEFINE c == CHOOSE i \in Retrievals(t) : \A j \in Retrievals(t) : j <= i
  <2>1. c \in Kind("tool", t)
    BY <1>2, LatestRetrieval DEF Retrievals
  <2>2. EvidenceIn(t) = [found |-> TRUE, docs |-> t[c].docs,
                         error |-> t[c].failed \/ t[c].status = "error"]
    BY <1>2 DEF EvidenceIn
  <2> HIDE DEF c
  <2>3. t[c] \in Result
    BY <2>1, SaidFacts DEF Kind
  <2>4. t[c].docs \subseteq Doc /\ (t[c].failed \/ t[c].status = "error" => t[c].docs = {})
    BY <2>1, <2>3 DEF Ordered, Result
  <2>5. EvidenceIn(t).docs = t[c].docs /\ EvidenceIn(t).error = (t[c].failed \/ t[c].status = "error")
    <3> DEFINE d == t[c].docs
               e == t[c].failed \/ t[c].status = "error"
    <3>1. EvidenceIn(t) = [found |-> TRUE, docs |-> d, error |-> e]
      BY <2>2
    <3> HIDE DEF d, e
    <3>2. EvidenceIn(t).docs = d /\ EvidenceIn(t).error = e
      BY <3>1
    <3> QED
      BY <3>2 DEF d, e
  <2> QED
    BY <2>1, <2>4, <2>5
<1> QED
  BY <1>1, <1>2

\* The reasons of a mixed answer: trivial only if no tool failed, success only without an error.
LEMMA MixedAnswersAre ==
  ASSUME NEW policy, NEW inv, NEW answer \in AgentText \cup {"limit"}, NEW found,
         found.error => found.docs = {}, NEW kept, kept \subseteq found.docs,
         NEW a \in MixedAnswers(policy, inv, answer, found, kept)
  PROVE  /\ a[1] \in Text /\ a[2] \in {"success", "error"}
         /\ Trivial(a[1]) => ~ToolFailed(inv)
         /\ a[2] = "success" => ~found.error
         /\ a[2] = "error" => a[1] \in {"policy", "tools_failed", "retrieval_failed"}
         /\ a[1] \in {"no_context", "retrieval_failed"} => kept = {}
<1>1. CASE Missing(policy, inv) # {}
  <2>1. a = <<"policy", "error">>
    BY <1>1 DEF MixedAnswers
  <2> QED
    BY <2>1 DEF Text, Trivial
<1>2. CASE Missing(policy, inv) = {} /\ Trivial(answer) /\ ToolFailed(inv)
  <2>1. a = <<"tools_failed", "error">>
    BY <1>2 DEF MixedAnswers
  <2> QED
    BY <2>1 DEF Text, Trivial
<1>3. CASE Missing(policy, inv) = {} /\ ~(Trivial(answer) /\ ToolFailed(inv)) /\ RetrievalFailed(found)
  <2>1. a = <<"retrieval_failed", "error">>
    BY <1>3 DEF MixedAnswers
  <2>2. kept = {}
    BY <1>3 DEF RetrievalFailed
  <2> QED
    BY <2>1, <2>2 DEF Text, Trivial
<1>4. CASE /\ Missing(policy, inv) = {} /\ ~(Trivial(answer) /\ ToolFailed(inv))
           /\ ~RetrievalFailed(found) /\ WithoutContext(found)
  <2>1. a = <<"no_context", "success">>
    BY <1>4 DEF MixedAnswers
  <2>2. kept = {} /\ ~found.error
    BY <1>4 DEF WithoutContext
  <2> QED
    BY <2>1, <2>2 DEF Text, Trivial
<1>5. CASE /\ Missing(policy, inv) = {} /\ ~(Trivial(answer) /\ ToolFailed(inv))
           /\ ~RetrievalFailed(found) /\ ~WithoutContext(found) /\ Trivial(answer) /\ kept # {}
  <2>1. a \in {<<t, "success">> : t \in Synthesis}
    BY <1>5 DEF MixedAnswers
  <2>2. PICK t \in Synthesis : a = <<t, "success">>
    BY <2>1
  <2>3. ~ToolFailed(inv) /\ ~found.error
    BY <1>5 DEF RetrievalFailed
  <2> QED
    BY <2>2, <2>3 DEF Text, AgentText, Trivial, Synthesis
<1>6. CASE /\ Missing(policy, inv) = {} /\ ~(Trivial(answer) /\ ToolFailed(inv))
           /\ ~RetrievalFailed(found) /\ ~WithoutContext(found) /\ ~(Trivial(answer) /\ kept # {})
  <2>1. a = <<answer, "success">>
    BY <1>6 DEF MixedAnswers
  <2>2. ~found.error /\ (Trivial(answer) => ~ToolFailed(inv))
    BY <1>6 DEF RetrievalFailed
  <2> QED
    BY <2>1, <2>2 DEF Text, AgentText
<1> QED
  BY <1>1, <1>2, <1>3, <1>4, <1>5, <1>6

\* An answer for which the composition has these reasons is a sound one.
LEMMA Composed ==
  ASSUME messages \in Seq(Message), Turns # {}, Current # <<>>,
         messages[Len(messages)] \in AI, messages[Len(messages)].calls = <<>>,
         Ordered(Current), Finals(Current) = {},
         NEW text \in Text, NEW outcome \in Outcome, NEW docs \in SUBSET Doc,
         Place(text, outcome, docs),
         Trivial(text) => ~ToolFailed(Invocations(Current)),
         outcome # "none" => docs \subseteq UNION {Current[i].docs : i \in Kind("tool", Current)},
         text \in {"no_context", "retrieval_failed"} => docs = {},
         outcome = "success" => ~EvidenceIn(Current).error,
         outcome = "error" => text \in {"policy", "tools_failed", "retrieval_failed"}
  PROVE  \E u \in Seq(Said), a \in AI :
           /\ messages' = Rebuilt(messages, u) /\ Closes(Current, u, a)
           /\ Sourced(Current, a) /\ Frank(Current, a)
<1>1. PICK u \in Seq(Said), a \in AI :
        /\ messages' = Rebuilt(messages, u) /\ Closes(Current, u, a)
        /\ a.outcome = outcome /\ a.docs = docs
        /\ a.text = text \/ (text = "empty" /\ a.text \in AgentText \cup {"limit"})
  BY Placed
<1>2. Current \in Seq(Said)
  BY CurrentTurnFacts DEF Turns, Current
<1> DEFINE t == Current
<1> HIDE DEF t
<1>3. Sourced(t, a)
  <2>1. a.text \in {"no_context", "retrieval_failed"} => a.docs = {}
    BY <1>1 DEF AgentText
  <2>2. a.outcome # "none" => a.docs \subseteq UNION {t[i].docs : i \in Kind("tool", t)}
    BY <1>1 DEF t
  <2> QED
    BY <2>1, <2>2 DEF Sourced
<1>4. Frank(t, a)
  <2>1. Trivial(a.text) => Trivial(text)
    BY <1>1 DEF Trivial
  <2>2. Trivial(a.text) =>
          /\ \A i \in Kind("tool", t) : t[i].status = "success"
          /\ UniqueIds(t) => \A p \in CallsIn(t) : Became(t, p[1], p[2]) # "incomplete"
    <3> SUFFICES ASSUME Trivial(a.text)
                 PROVE  /\ \A i \in Kind("tool", t) : t[i].status = "success"
                        /\ UniqueIds(t) => \A p \in CallsIn(t) : Became(t, p[1], p[2]) # "incomplete"
      OBVIOUS
    <3>1. t \in Seq(Said) /\ Shape(t) /\ ~ToolFailed(Invocations(t))
      BY <1>2, <2>1 DEF t, Ordered
    <3> QED
      BY <3>1, NothingFailed
  <2>3. a.outcome = "success" => ~EvidenceIn(t).error
    BY <1>1 DEF t
  <2>4. a.outcome = "error" =>
          a.text \in {"exception", "policy", "tools_failed", "retrieval_failed"}
    BY <1>1
  <2> QED
    BY <2>2, <2>3, <2>4 DEF Frank
<1> QED
  BY <1>1, <1>3, <1>4 DEF t

-----------------------------------------------------------------------------
(***************************************************************************)
(* The steps.                                                              *)
(***************************************************************************)
\* What a step does to the thread: nothing, a question, or another current turn.
Moves ==
  \/ messages' = messages
  \/ messages' = Append(messages, Question)
  \/ /\ Turns # {} /\ Finals(Current) = {}
     /\ \E u \in Seq(Said) :
          /\ messages' = Rebuilt(messages, u)
          /\ Finals(u) # {} => u # <<>> /\ u[Len(u)] \in AI /\ u[Len(u)].final

LEMMA CurrentIs ==
  ASSUME messages \in Seq(Message), TurnsOK(messages), Turns # {}
  PROVE  Current \in Seq(Said) /\ TurnOK(Current)
BY CurrentTurnFacts DEF Current, Turns, TurnsOK

\* What a step that rebuilds the current turn keeps.
LEMMA Continued ==
  ASSUME ChatInv, Turns # {}, NEW u \in Seq(Said), messages' = Rebuilt(messages, u), TurnOK(u)
  PROVE  /\ messages' \in Seq(Message) /\ Turns' = Turns /\ Current' = u
         /\ TurnsOK(messages') /\ Cardinality(Turns') <= MaxTurns
<1>1. messages \in Seq(Message) /\ TurnsOK(messages) /\ Cardinality(Turns) <= MaxTurns
  BY DEF ChatInv, Typed, Bounded
<1>2. Kind("human", messages) # {}
  BY DEF Turns
<1>3. messages' \in Seq(Message) /\ Kind("human", messages') = Kind("human", messages)
      /\ CurrentTurn(messages') = u
  BY <1>1, <1>2, RebuiltFacts, RebuiltTurns
<1>4. TurnsOK(messages')
  BY <1>1, <1>2, RebuiltTurnsOK
<1> QED
  BY <1>1, <1>3, <1>4 DEF Turns, Current

\* A run that ends with an answer.
LEMMA ClosingStep ==
  ASSUME ChatInv, Turns # {}, Finals(Current) = {}, NEW u, NEW a,
         messages' = Rebuilt(messages, u), Closes(Current, u, a),
         Sourced(Current, a), Frank(Current, a), node' = "idle", Ended
  PROVE  ChatInv' /\ Moves
<1>1. Current \in Seq(Said) /\ TurnOK(Current) /\ messages \in Seq(Message)
  BY CurrentIs DEF ChatInv, Typed
<1>2. u \in Seq(Said) /\ TurnOK(u) /\ Finals(u) # {} /\ u[Len(u)] = a
  BY <1>1, ClosedTurnOK DEF Closes
<1>3. /\ messages' \in Seq(Message) /\ Turns' = Turns /\ Current' = u
      /\ TurnsOK(messages') /\ Cardinality(Turns') <= MaxTurns
  BY <1>2, Continued
<1>4. CallsIn(messages') \subseteq CallsIn(messages)
  <2>1. ASSUME NEW i \in 1..Len(u)
        PROVE  u[i].calls = <<>> \/ (i \in 1..Len(Current) /\ u[i] = Current[i])
    <3>1. Len(u) \in Nat \ {0} /\ Len(Current) \in Nat
      BY <1>1, LenProperties DEF Closes
    <3>2. CASE i = Len(u)
      BY <3>2, <1>2 DEF Closes
    <3>3. CASE i # Len(u)
      <4>1. i \in 1..Len(u) - 1
        BY <3>1, <3>3
      <4>2. Len(u) = Len(Current) + 1 \/ Len(u) = Len(Current)
        BY DEF Closes
      <4>3. i \in 1..Len(Current)
        BY <3>1, <4>1, <4>2
      <4> QED
        BY <4>1, <4>3 DEF Closes
    <3> QED
      BY <3>2, <3>3
  <2>2. CallsIn(Rebuilt(messages, u)) \subseteq CallsIn(messages)
    BY <1>1, <1>2, <2>1, NoNewCalls DEF Turns, Current
  <2> QED
    BY <2>2
<1>5. IsFiniteSet(CallsIn(messages')) /\ Cardinality(CallsIn(messages')) <= MaxCalls
  BY <1>4, CallsBounded DEF ChatInv, Bounded, CallsMade
<1>6. Bounded'
  BY <1>3, <1>5 DEF Bounded, CallsMade
<1>7. /\ recipe' = NoRecipe /\ used' = {} /\ mode' = mode /\ left' = left
  BY DEF Ended
<1>8. Typed'
  <2>1. NoRecipe.keys \in SUBSET Server /\ NoRecipe.digest \in [NoRecipe.keys -> Behaviour]
    BY DEF NoRecipe
  <2> QED
    BY <1>3, <1>7, <2>1 DEF ChatInv, Typed
<1>9. AtNode' /\ OfRecipe'
  BY <1>7 DEF AtNode, OfRecipe, Steps
<1>10. Moves
  <2>1. u # <<>> /\ u[Len(u)] \in AI /\ u[Len(u)].final
    <3>1. Len(u) # 0
      BY DEF Closes
    <3> QED
      BY <1>2, <3>1, EmptySeq DEF Closes
  <2> QED
    BY <1>2, <2>1 DEF Moves
<1> QED
  BY <1>3, <1>6, <1>8, <1>9, <1>10 DEF ChatInv

LEMMA InitChatInv == Init => ChatInv
<1> SUFFICES ASSUME Init PROVE ChatInv
  OBVIOUS
<1>1. messages = <<>> /\ DOMAIN messages = {} /\ messages \in Seq(Message)
  BY DEF Init
<1>2. Turns = {} /\ Kind("ai", messages) = {} /\ Kind("human", messages) = {}
  BY <1>1 DEF Turns, Kind
<1>3. CallsIn(messages) = {}
  BY <1>2 DEF CallsIn
<1>4. Bounded
  <2>1. IsFiniteSet({}) /\ Cardinality({}) = 0 /\ MaxTurns \in Nat /\ MaxCalls \in Nat
    BY FS_EmptySet, ChatConstants
  <2> QED
    BY <1>2, <1>3, <2>1 DEF Bounded, CallsMade
<1>5. Typed
  <2>1. recipe.keys \in SUBSET Server /\ recipe.digest \in [recipe.keys -> Behaviour]
    BY DEF Init, NoRecipe
  <2>2. left \in -1..RoundLimit
    BY ChatConstants DEF Init
  <2> QED
    BY <1>1, <2>1, <2>2 DEF Init, Typed
<1>6. AtNode /\ OfRecipe
  BY DEF Init, AtNode, OfRecipe, Steps
<1>7. TurnsOK(messages)
  BY <1>2 DEF TurnsOK
<1> QED
  BY <1>4, <1>5, <1>6, <1>7 DEF ChatInv

\* Each action keeps ChatInv and moves the thread as Moves says.
LEMMA AskStep == ChatInv /\ Ask => ChatInv' /\ Moves
<1> SUFFICES ASSUME ChatInv, Ask PROVE ChatInv' /\ Moves
  OBVIOUS
<1>1. messages \in Seq(Message) /\ TurnsOK(messages)
  BY DEF ChatInv, Typed
<1>2. messages' = Append(messages, Question) /\ UNCHANGED <<left, recipe, used>> /\ mode' \in Mode
  BY DEF Ask, Append1
<1>3. node' \in {"direct", "rag", "setup"}
  BY DEF Ask, Append1
<1> DEFINE n == Len(messages) + 1
<1>4. /\ messages' \in Seq(Message) /\ Kind("human", messages') = Kind("human", messages) \cup {n}
      /\ n \notin Kind("human", messages) /\ CurrentTurn(messages') = <<>>
      /\ TurnIn(messages', n) = <<>>
      /\ \A q \in Kind("human", messages) : TurnIn(messages', q) = TurnIn(messages, q)
  BY <1>1, <1>2, AskedTurns
<1> HIDE DEF n
<1>5. TurnOK(<<>>)
  <2>1. \A k : Kind(k, <<>>) = {}
    BY DEF Kind
  <2> QED
    BY <2>1 DEF TurnOK, Ordered, Shape, Finals
<1>6. TurnsOK(messages')
  BY <1>1, <1>4, <1>5 DEF TurnsOK
<1>7. Cardinality(Turns') <= MaxTurns
  <2>1. IsFiniteSet(Kind("human", messages))
    <3>1. Len(messages) \in Nat /\ Kind("human", messages) \in SUBSET (1..Len(messages))
      BY <1>1, LenProperties DEF Kind
    <3>2. IsFiniteSet(1..Len(messages))
      BY <3>1, FS_Interval
    <3> QED
      BY <3>1, <3>2, FS_Subset
  <2>2. Cardinality(Turns') = Cardinality(Turns) + 1 /\ Cardinality(Turns) \in Nat
    BY <1>4, <2>1, FS_AddElement, FS_CardinalityType DEF Turns
  <2>3. Cardinality(Turns) < MaxTurns /\ MaxTurns \in Nat
    BY ChatConstants DEF Ask
  <2> QED
    BY <2>2, <2>3
<1>8. IsFiniteSet(CallsIn(messages')) /\ Cardinality(CallsIn(messages')) <= MaxCalls
  <2>1. CallsIn(messages') \subseteq CallsIn(messages)
    <3>1. ASSUME NEW i \in Kind("ai", messages')
          PROVE  i \in Kind("ai", messages) /\ messages'[i] = messages[i]
      <4>1. Len(messages) \in Nat /\ DOMAIN messages = 1..Len(messages)
        BY <1>1, LenProperties
      <4>2. /\ DOMAIN messages' = 1..Len(messages) + 1
            /\ messages'[Len(messages) + 1] = Question
            /\ \A j \in 1..Len(messages) : messages'[j] = messages[j]
        BY <1>1, <1>2, <4>1
      <4>3. Question.kind = "human"
        BY DEF Question
      <4>4. i \in 1..Len(messages) + 1 /\ messages'[i].kind = "ai"
        BY <4>2 DEF Kind
      <4>5. i # Len(messages) + 1
        BY <4>2, <4>3, <4>4
      <4>6. i \in 1..Len(messages)
        BY <4>1, <4>4, <4>5
      <4> QED
        BY <4>1, <4>2, <4>4, <4>6 DEF Kind
    <3> SUFFICES ASSUME NEW p \in CallsIn(messages') PROVE p \in CallsIn(messages)
      OBVIOUS
    <3>2. PICK i \in Kind("ai", messages') : p \in {i} \X DOMAIN messages'[i].calls
      BY DEF CallsIn
    <3> QED
      BY <3>1, <3>2 DEF CallsIn
  <2> QED
    BY <2>1, CallsBounded DEF ChatInv, Bounded, CallsMade
<1>9. Bounded'
  BY <1>7, <1>8 DEF Bounded, CallsMade
<1>10. Typed'
  BY <1>2, <1>3, <1>4 DEF ChatInv, Typed
<1>11. AtNode'
  BY <1>3, <1>4 DEF AtNode, Turns, Current, Steps
<1>12. OfRecipe'
  <2>1. used = {}
    BY DEF ChatInv, OfRecipe, Ask, Steps
  <2> QED
    BY <2>1, <1>2, <1>3 DEF OfRecipe, Steps
<1> QED
  BY <1>2, <1>6, <1>9, <1>10, <1>11, <1>12 DEF ChatInv, Moves

\* The direct and the rag node answer a question at once.
LEMMA FirstAnswer ==
  ASSUME ChatInv, Turns # {}, Current = <<>>,
         NEW text \in Text, NEW outcome \in {"none", "error"}, NEW docs \in SUBSET Doc,
         messages' = Append(messages, Answers(text, outcome, docs)),
         outcome = "error" => docs = {} /\ text = "exception",
         text \in {"no_context", "retrieval_failed"} => docs = {},
         node' = "idle", Ended
  PROVE  ChatInv' /\ Moves
<1> DEFINE a == Answers(text, outcome, docs)
           u == Append(Current, a)
<1>1. messages \in Seq(Message) /\ Kind("human", messages) # {}
  BY DEF ChatInv, Typed, Turns
<1>2. /\ a \in AI /\ a.final /\ a.calls = <<>> /\ a.text = text
      /\ a.outcome = outcome /\ a.docs = docs
  BY AnswersAre DEF Outcome
<1> HIDE DEF a
<1>3. messages' = Rebuilt(messages, u)
  <2>1. a \in Said
    BY <1>2 DEF Said
  <2>2. messages' = Append(messages, a)
    BY DEF a
  <2> QED
    BY <1>1, <2>1, <2>2, AppendRebuilds DEF Current
<1>4. Closes(Current, u, a)
  <2>1. Current \in Seq(Said)
    BY <1>1, CurrentTurnFacts DEF Current
  <2> QED
    BY <1>2, <2>1, OneMoreCloses
<1>5. (\A k : Kind(k, Current) = {}) /\ CallsIn(Current) = {} /\ Finals(Current) = {}
  <2>1. \A k : Kind(k, Current) = {}
    BY DEF Kind
  <2> QED
    BY <2>1 DEF CallsIn, Finals
<1>6. Sourced(Current, a)
  BY <1>2 DEF Sourced
<1>7. Frank(Current, a)
  BY <1>2, <1>5 DEF Frank
<1> HIDE DEF u
<1> QED
  BY <1>3, <1>4, <1>5, <1>6, <1>7, ClosingStep

LEMMA DirectStep == ChatInv /\ Direct => ChatInv' /\ Moves
<1> SUFFICES ASSUME ChatInv, Direct PROVE ChatInv' /\ Moves
  OBVIOUS
<1>1. Turns # {} /\ Current = <<>> /\ Ended
  BY DEF ChatInv, AtNode, Direct
<1>2. CASE \E text \in AgentText : Append1(Answers(text, "none", {}), "idle")
  <2>1. PICK text \in AgentText : Append1(Answers(text, "none", {}), "idle")
    BY <1>2
  <2>2. /\ text \in Text /\ text \notin {"no_context", "retrieval_failed"}
        /\ messages' = Append(messages, Answers(text, "none", {})) /\ node' = "idle"
    BY <2>1 DEF Append1, Text, AgentText
  <2> QED
    BY <1>1, <2>2, FirstAnswer
<1>3. CASE Append1(Apology, "idle")
  <2>1. messages' = Append(messages, Answers("exception", "error", {})) /\ node' = "idle"
        /\ "exception" \in Text
    BY <1>3 DEF Append1, Apology, Text
  <2> QED
    BY <1>1, <2>1, FirstAnswer
<1> QED
  BY <1>2, <1>3 DEF Direct

LEMMA RagStep == ChatInv /\ Rag => ChatInv' /\ Moves
<1> SUFFICES ASSUME ChatInv, Rag PROVE ChatInv' /\ Moves
  OBVIOUS
<1>1. Turns # {} /\ Current = <<>> /\ Ended
  BY DEF ChatInv, AtNode, Rag
<1>2. ASSUME NEW found \in Found, NEW docs \in Reranked(found), NEW text \in Synthesis,
             Append1(Answers(text, "none", docs), "idle")
      PROVE  ChatInv' /\ Moves
  <2>1. docs \in SUBSET Doc
    BY FoundDocs, RerankedFewer
  <2>2. /\ text \in Text /\ text \notin {"no_context", "retrieval_failed"}
        /\ messages' = Append(messages, Answers(text, "none", docs)) /\ node' = "idle"
    BY <1>2 DEF Append1, Text, AgentText, Synthesis
  <2> QED
    BY <1>1, <2>1, <2>2, FirstAnswer
<1>3. ASSUME Append1(Answers("no_context", "none", {}), "idle")
      PROVE  ChatInv' /\ Moves
  <2>1. messages' = Append(messages, Answers("no_context", "none", {})) /\ node' = "idle"
        /\ "no_context" \in Text
    BY <1>3 DEF Append1, Text
  <2> QED
    BY <1>1, <2>1, FirstAnswer
<1>4. CASE Append1(Apology, "idle")
  <2>1. messages' = Append(messages, Answers("exception", "error", {})) /\ node' = "idle"
        /\ "exception" \in Text
    BY <1>4 DEF Append1, Apology, Text
  <2> QED
    BY <1>1, <2>1, FirstAnswer
<1> QED
  BY <1>2, <1>3, <1>4 DEF Rag

\* Steps that change no message keep what is said of messages.
LEMMA SameMessages ==
  ASSUME ChatInv, messages' = messages
  PROVE  /\ Bounded' /\ TurnsOK(messages') /\ Turns' = Turns /\ Current' = Current
         /\ messages' \in Seq(Message) /\ Moves
BY DEF ChatInv, Typed, Bounded, CallsMade, Turns, Current, Moves

LEMMA SetupStep == ChatInv /\ Setup => ChatInv' /\ Moves
<1> SUFFICES ASSUME ChatInv, Setup PROVE ChatInv' /\ Moves
  OBVIOUS
<1>1. /\ node = "setup" /\ node' = "agent" /\ left' = RoundLimit
      /\ messages' = messages /\ mode' = mode /\ used' = used
  BY DEF Setup
<1>2. /\ Bounded' /\ TurnsOK(messages') /\ Turns' = Turns /\ Current' = Current
      /\ messages' \in Seq(Message) /\ Moves
  BY <1>1, SameMessages
<1>3. Turns # {} /\ Current = <<>> /\ used = {}
  BY <1>1 DEF ChatInv, AtNode, OfRecipe, Steps
<1>4. recipe'.keys \in SUBSET Server /\ recipe'.digest \in [recipe'.keys -> Behaviour]
  <2>4. PICK config \in Configurations : recipe' \in Selections(config)
    BY DEF Setup
  <2>1. PICK keys \in SUBSET DOMAIN config :
          recipe' = [keys |-> keys, digest |-> Digest(config, keys)]
    BY <2>4 DEF Selections
  <2>2. DOMAIN config \subseteq Server /\ \A s \in DOMAIN config : config[s].does \in Behaviour
    BY DEF Configurations, Definition
  <2>3. Digest(config, keys) \in [keys -> Behaviour]
    BY <2>2 DEF Digest
  <2> QED
    BY <2>1, <2>2, <2>3
<1>5. RoundLimit \in Nat \ {0}
  BY ChatConstants
<1>6. Typed'
  BY <1>1, <1>2, <1>4, <1>5 DEF ChatInv, Typed
<1>7. \A k : Kind(k, Current) = {}
  BY <1>3 DEF Kind
<1>8. AtNode'
  <2>1. Finals(Current) = {} /\ Cardinality(Kind("ai", Current)) = 0
    BY <1>7, FS_EmptySet DEF Finals
  <2> QED
    BY <1>1, <1>2, <1>3, <1>5, <2>1 DEF AtNode
<1>9. OfRecipe'
  BY <1>1, <1>2, <1>3, <1>7 DEF OfRecipe, Steps
<1> QED
  BY <1>2, <1>6, <1>8, <1>9 DEF ChatInv

LEMMA FailStep == ChatInv /\ Fail => ChatInv' /\ Moves
<1> SUFFICES ASSUME ChatInv, Fail PROVE ChatInv' /\ Moves
  OBVIOUS
<1>1. /\ node' = "idle" /\ recipe' = NoRecipe /\ used' = {} /\ mode' = mode /\ left' = left
      /\ messages' = messages
  BY DEF Fail, Ended
<1>2. Bounded' /\ TurnsOK(messages') /\ messages' \in Seq(Message) /\ Moves
  BY <1>1, SameMessages
<1>3. Typed'
  <2>1. NoRecipe.keys \in SUBSET Server /\ NoRecipe.digest \in [NoRecipe.keys -> Behaviour]
    BY DEF NoRecipe
  <2> QED
    BY <1>1, <1>2, <2>1 DEF ChatInv, Typed
<1>4. AtNode' /\ OfRecipe'
  BY <1>1 DEF AtNode, OfRecipe, Steps
<1> QED
  BY <1>2, <1>3, <1>4 DEF ChatInv

\* The agent speaks: a text, or calls.
LEMMA SaysIs ==
  ASSUME NEW text \in AgentText \cup {"limit"}, NEW calls \in Seq(Call)
  PROVE  /\ Says(text, calls) \in AI /\ ~Says(text, calls).final
         /\ Says(text, calls).text = text /\ Says(text, calls).calls = calls
BY DEF Says, AI, Text, AgentText, Outcome

\* The agent says something, with or without calls.
LEMMA SpeakingStep ==
  ASSUME ChatInv, node = "agent", left' = left - 1, UNCHANGED <<mode, recipe, used>>,
         NEW text \in AgentText \cup {"limit"}, NEW calls \in Seq(Call),
         CallsMade + Len(calls) <= MaxCalls,
         messages' = Append(messages, Says(text, calls)),
         node' = IF calls = <<>> THEN "compose" ELSE "tools",
         calls # <<>> => left > 0
  PROVE  ChatInv' /\ Moves
<1> DEFINE m == Says(text, calls)
           t == Current
           u == Append(t, m)
<1>1. m \in AI /\ ~m.final /\ m.text = text /\ m.calls = calls
  BY SaysIs
<1> HIDE DEF m
<1>2. m \in Said /\ m \in Message
  BY <1>1 DEF Said, Message
<1>3. /\ Turns # {} /\ Finals(t) = {} /\ left = RoundLimit - Cardinality(Kind("ai", t))
      /\ left >= 0 /\ messages \in Seq(Message) /\ left \in -1..RoundLimit
  BY DEF ChatInv, Typed, AtNode, Steps
<1>4. t \in Seq(Said) /\ TurnOK(t)
  BY <1>3, CurrentIs DEF ChatInv
<1>5. /\ u \in Seq(Said) /\ u # <<>> /\ TurnOK(u) /\ Finals(u) = {}
      /\ Kind("tool", u) = Kind("tool", t) /\ \A i \in 1..Len(t) : u[i] = t[i]
      /\ Cardinality(Kind("ai", t)) \in Nat
      /\ Cardinality(Kind("ai", u)) = Cardinality(Kind("ai", t)) + 1
  <2> HIDE DEF t
  <2> QED
    BY <1>1, <1>3, <1>4, SpokenTurn
<1>6. messages' = Append(messages, m) /\ messages' = Rebuilt(messages, u)
  <2>1. messages' = Append(messages, m)
    BY DEF m
  <2> QED
    BY <2>1, <1>2, <1>3, AppendRebuilds DEF Turns, Current
<1>7. messages'[Len(messages')] = m
  <2> DEFINE r == Append(messages, m)
  <2>1. Len(r) = Len(messages) + 1 /\ r[Len(messages) + 1] = m
    BY <1>2, <1>3
  <2>2. r = messages'
    BY <1>6
  <2> HIDE DEF r
  <2>3. r[Len(r)] = m
    BY <2>1
  <2> QED
    BY <2>2, <2>3, Zenon
<1> HIDE DEF t, u
<1>8. /\ messages' \in Seq(Message) /\ Turns' = Turns /\ Current' = u
      /\ TurnsOK(messages') /\ Cardinality(Turns') <= MaxTurns
  BY <1>3, <1>5, <1>6, Continued
<1>9. Bounded'
  <2>1. IsFiniteSet(CallsIn(messages))
    BY DEF ChatInv, Bounded
  <2>2. /\ IsFiniteSet(CallsIn(messages'))
        /\ Cardinality(CallsIn(messages')) <= Cardinality(CallsIn(messages)) + Len(calls)
    BY <2>1, <1>1, <1>3, <1>6, CallsOfOneMore
  <2>3. /\ Cardinality(CallsIn(messages')) \in Nat /\ Cardinality(CallsIn(messages)) \in Nat
        /\ Len(calls) \in Nat /\ MaxCalls \in Nat
    BY <2>1, <2>2, FS_CardinalityType, LenProperties, ChatConstants
  <2>4. Cardinality(CallsIn(messages)) + Len(calls) <= MaxCalls
    BY DEF CallsMade
  <2>5. Cardinality(CallsIn(messages')) <= MaxCalls
    BY <2>2, <2>3, <2>4
  <2> QED
    BY <2>2, <2>5, <1>8 DEF Bounded, CallsMade
<1>10. left' \in -1..RoundLimit /\ left' = RoundLimit - Cardinality(Kind("ai", u))
       /\ (calls # <<>> => left' >= 0)
  <2>1. RoundLimit \in Nat
    BY ChatConstants
  <2> QED
    BY <2>1, <1>3, <1>5
<1>11. node' \in {"tools", "compose"} /\ (node' = "tools" <=> calls # <<>>)
  OBVIOUS
<1>12. Typed'
  BY <1>8, <1>10, <1>11 DEF ChatInv, Typed
<1>13. AtNode'
  <2>1. messages'[Len(messages')] \in AI /\ messages'[Len(messages')].calls = calls
    BY <1>1, <1>7
  <2> QED
    BY <2>1, <1>3, <1>5, <1>8, <1>10, <1>11 DEF AtNode, Steps
<1>14. OfRecipe'
  <2>1. \A i \in Kind("tool", u) :
          u[i].status = "success" => u[i].tool \in recipe.keys \cup {Oracle}
    <3>1. \A i \in Kind("tool", t) : i \in 1..Len(t)
      BY <1>4, LenProperties DEF Kind
    <3>2. \A i \in Kind("tool", t) :
            t[i].status = "success" => t[i].tool \in recipe.keys \cup {Oracle}
      BY DEF ChatInv, OfRecipe, Steps, t
    <3> QED
      BY <3>1, <3>2, <1>5
  <2>2. \A x \in used : x[1] \in recipe.keys /\ x[2] = recipe.digest[x[1]]
    BY DEF ChatInv, OfRecipe, Steps
  <2> QED
    BY <2>1, <2>2, <1>8, <1>11 DEF OfRecipe, Steps
<1>15. Moves
  BY <1>3, <1>5, <1>6 DEF Moves, t
<1> QED
  BY <1>8, <1>9, <1>12, <1>13, <1>14, <1>15 DEF ChatInv

LEMMA AgentStep == ChatInv /\ Agent => ChatInv' /\ Moves
<1> SUFFICES ASSUME ChatInv, Agent PROVE ChatInv' /\ Moves
  OBVIOUS
<1>1. node = "agent" /\ left' = left - 1 /\ UNCHANGED <<mode, recipe, used>>
  BY DEF Agent
<1>2. CallsMade + Len(<<>>) <= MaxCalls /\ <<>> \in Seq(Call)
  <2>1. CallsMade \in Nat /\ CallsMade <= MaxCalls
    BY FS_CardinalityType DEF ChatInv, Bounded, CallsMade
  <2> QED
    BY <2>1
<1>3. ASSUME NEW text \in AgentText \cup {"limit"}, Append1(Says(text, <<>>), "compose")
      PROVE  ChatInv' /\ Moves
  <2>1. messages' = Append(messages, Says(text, <<>>)) /\ node' = "compose"
    BY <1>3 DEF Append1
  <2> QED
    BY <2>1, <1>1, <1>2, SpeakingStep
<1>4. ASSUME left > 0, NEW load \in Loads, NEW calls \in CallLists(Offered(load)),
             CallsMade + Len(calls) <= MaxCalls, Append1(Says("empty", calls), "tools")
      PROVE  ChatInv' /\ Moves
  <2>1. Offered(load) \subseteq Tool
    <3>1. recipe.keys \in SUBSET Server
      BY DEF ChatInv, Typed
    <3> QED
      BY <3>1, LoadsAre DEF Offered, Tool
  <2>2. calls \in Seq(Call) /\ calls # <<>>
    <3>1. PICK n \in 1..MaxCallsPerAnswer : calls \in [1..n -> [id : CallId, tool : Offered(load)]]
      BY DEF CallLists
    <3>2. n \in Nat \ {0}
      BY ChatConstants
    <3>3. calls \in [1..n -> Call]
      BY <3>1, <2>1 DEF Call
    <3> QED
      BY <3>2, <3>3, SeqDef
  <2>3. /\ messages' = Append(messages, Says("empty", calls)) /\ node' = "tools"
        /\ "empty" \in AgentText \cup {"limit"}
    BY <1>4 DEF Append1, AgentText
  <2> QED
    BY <2>2, <2>3, <1>1, <1>4, SpeakingStep
<1> QED
  BY <1>3, <1>4 DEF Agent

\* The tools answer.
LEMMA AnsweringStep ==
  ASSUME ChatInv, node = "tools", node' = "agent", UNCHANGED <<mode, left, recipe>>,
         NEW load \in Loads, NEW calls, calls = messages[Len(messages)].calls,
         NEW rs \in [DOMAIN calls -> UNION {Results(calls[k], load) : k \in DOMAIN calls}],
         \A k \in DOMAIN calls : rs[k] \in Results(calls[k], load),
         messages' = messages \o rs,
         used' = used \cup
           {<<calls[k].tool, load.serves[calls[k].tool]>> :
              k \in {k \in DOMAIN calls : /\ load.steady /\ calls[k].tool # Oracle
                                          /\ rs[k].status = "success"}}
  PROVE  ChatInv' /\ Moves
<1> DEFINE t == Current
           u == t \o rs
           h == LatestHuman(messages)
           n == Len(messages)
<1>1. /\ messages \in Seq(Message) /\ Turns # {} /\ t # <<>> /\ Finals(t) = {}
      /\ messages[Len(messages)] \in AI /\ left >= 0
      /\ left = RoundLimit - Cardinality(Kind("ai", t))
      /\ recipe.keys \in SUBSET Server
  BY DEF ChatInv, Typed, AtNode, Steps
<1>2. t \in Seq(Said) /\ TurnOK(t)
  BY <1>1, CurrentIs DEF ChatInv
<1>3. calls \in Seq(Call) /\ DOMAIN calls = 1..Len(calls) /\ Len(calls) \in Nat
      /\ \A k \in 1..Len(calls) : calls[k] \in Call
  <2>1. PICK m \in AI : m = messages[Len(messages)]
    BY <1>1
  <2>2. m.calls \in Seq(Call)
    BY DEF AI
  <2> QED
    BY <2>1, <2>2, LenProperties
<1>4. ASSUME NEW k \in 1..Len(calls)
      PROVE  /\ rs[k] \in Result /\ rs[k].id = calls[k].id /\ rs[k].tool = calls[k].tool
             /\ (rs[k].failed \/ rs[k].status = "error") => rs[k].docs = {}
             /\ rs[k].status = "success" => calls[k].tool \in Offered(load)
  <2>1. PICK c \in Call : c = calls[k]
    BY <1>3
  <2>2. rs[k] \in Results(c, load)
    BY <1>3, <2>1
  <2>3. /\ rs[k] \in Result /\ rs[k].id = c.id /\ rs[k].tool = c.tool
        /\ (rs[k].failed \/ rs[k].status = "error") => rs[k].docs = {}
        /\ rs[k].status = "success" => c.tool \in Offered(load)
    BY <2>2, ResultsAre
  <2> QED
    BY <2>1, <2>3
<1>5. rs \in Seq(Result) /\ Len(rs) = Len(calls)
  <2>1. rs \in [1..Len(calls) -> Result]
    BY <1>3, <1>4
  <2>2. rs \in Seq(Result)
    <3>1. Len(calls) \in Nat
      BY <1>3
    <3> QED
      BY <2>1, <3>1, FunctionIsSeq
  <2>3. DOMAIN rs = 1..Len(rs) /\ Len(rs) \in Nat /\ DOMAIN rs = 1..Len(calls)
    BY <2>1, <2>2, LenProperties
  <2>4. \A a, b \in Nat : 1..a = 1..b => a = b
    OBVIOUS
  <2> QED
    BY <2>2, <2>3, <2>4, <1>3
<1>6. t[Len(t)] = messages[Len(messages)] /\ Len(t) \in Nat
  <2>1. /\ Len(t) = n - h /\ h \in 1..n /\ n \in Nat
        /\ \A i \in 1..n - h : t[i] = messages[h + i]
    BY <1>1, CurrentTurnFacts, LenProperties DEF Turns, Current
  <2>2. Len(t) \in Nat \ {0}
    BY <2>1, <1>1, <1>2, EmptySeq
  <2> HIDE DEF t, h, n
  <2>3. Len(t) \in 1..n - h /\ h + Len(t) = n
    BY <2>1, <2>2
  <2> QED
    BY <2>1, <2>2, <2>3 DEF n
<1>7. /\ u \in Seq(Said) /\ TurnOK(u) /\ Finals(u) = {} /\ Kind("ai", u) = Kind("ai", t)
      /\ \A i \in Kind("ai", t) : i \in 1..Len(t) /\ u[i] = t[i]
      /\ \A i \in Kind("tool", u) :
           \/ i \in Kind("tool", t) /\ u[i] = t[i]
           \/ \E k \in 1..Len(rs) : u[i] = rs[k]
  <2> HIDE DEF t
  <2>1. t[Len(t)] \in AI /\ Len(rs) = Len(t[Len(t)].calls)
    BY <1>1, <1>5, <1>6
  <2>2. \A k \in 1..Len(rs) : /\ rs[k].id = t[Len(t)].calls[k].id
                              /\ rs[k].tool = t[Len(t)].calls[k].tool
                              /\ rs[k].failed \/ rs[k].status = "error" => rs[k].docs = {}
    BY <1>4, <1>5, <1>6
  <2> QED
    BY <1>1, <1>2, <1>5, <2>1, <2>2, AnsweredTurn
<1>8. messages' = Rebuilt(messages, u)
  <2>1. rs \in Seq(Said)
    BY <1>5, SeqMonotonic DEF Said
  <2> QED
    BY <2>1, <1>1, ConcatRebuilds DEF Turns, Current
<1> HIDE DEF t, u, h, n
<1>9. /\ messages' \in Seq(Message) /\ Turns' = Turns /\ Current' = u
      /\ TurnsOK(messages') /\ Cardinality(Turns') <= MaxTurns
  BY <1>1, <1>7, <1>8, Continued
<1>10. Bounded'
  <2>1. \A i \in 1..Len(u) : u[i] \in AI =>
          u[i].calls = <<>> \/ (i \in 1..Len(t) /\ u[i] = t[i])
    <3> TAKE i \in 1..Len(u)
    <3>1. u[i] \in AI => i \in Kind("ai", u)
      BY <1>7, LenProperties DEF Kind, AI
    <3> QED
      BY <3>1, <1>7
  <2>2. CallsIn(Rebuilt(messages, u)) \subseteq CallsIn(messages)
    BY <2>1, <1>1, <1>7, NoNewCalls DEF Turns, t, Current
  <2>3. IsFiniteSet(CallsIn(messages')) /\ Cardinality(CallsIn(messages')) <= MaxCalls
    BY <2>2, <1>8, CallsBounded DEF ChatInv, Bounded, CallsMade
  <2> QED
    BY <2>3, <1>9 DEF Bounded, CallsMade
<1>11. \A s \in DOMAIN load.serves :
         /\ s \in recipe.keys /\ load.serves[s] \in Behaviour
         /\ load.steady => load.serves[s] = recipe.digest[s]
  BY <1>1, LoadsAre
<1>12. ASSUME NEW x \in used' \ used
       PROVE  x \in Server \X Behaviour /\ x[1] \in recipe.keys /\ x[2] = recipe.digest[x[1]]
  <2>1. PICK k \in DOMAIN calls :
          /\ x = <<calls[k].tool, load.serves[calls[k].tool]>>
          /\ load.steady /\ calls[k].tool # Oracle /\ rs[k].status = "success"
    OBVIOUS
  <2>2. calls[k].tool \in DOMAIN load.serves
    BY <2>1, <1>3, <1>4 DEF Offered
  <2> QED
    BY <2>1, <2>2, <1>1, <1>11
<1>13. Typed'
  <2>1. used' \subseteq Server \X Behaviour
    BY <1>12 DEF ChatInv, Typed
  <2> QED
    BY <2>1, <1>9 DEF ChatInv, Typed
<1>14. AtNode'
  BY <1>1, <1>7, <1>9 DEF AtNode, Steps
<1>15. OfRecipe'
  <2>1. \A x \in used' : x[1] \in recipe.keys /\ x[2] = recipe.digest[x[1]]
    BY <1>12 DEF ChatInv, OfRecipe, Steps
  <2>2. \A i \in Kind("tool", u) :
          u[i].status = "success" => u[i].tool \in recipe.keys \cup {Oracle}
    <3> TAKE i \in Kind("tool", u)
    <3>1. CASE i \in Kind("tool", t) /\ u[i] = t[i]
      BY <3>1 DEF ChatInv, OfRecipe, Steps, t
    <3>2. CASE \E k \in 1..Len(rs) : u[i] = rs[k]
      <4>1. PICK k \in 1..Len(rs) : u[i] = rs[k]
        BY <3>2
      <4>2. rs[k].status = "success" => rs[k].tool \in Offered(load)
        BY <1>4, <1>5
      <4>3. Offered(load) \subseteq recipe.keys \cup {Oracle}
        BY <1>11 DEF Offered
      <4> QED
        BY <4>1, <4>2, <4>3
    <3> QED
      BY <3>1, <3>2, <1>7
  <2> QED
    BY <2>1, <2>2, <1>9 DEF OfRecipe, Steps
<1>16. Moves
  BY <1>1, <1>7, <1>8 DEF Moves, t
<1> QED
  BY <1>9, <1>10, <1>13, <1>14, <1>15, <1>16 DEF ChatInv

LEMMA ToolsStep == ChatInv /\ Tools => ChatInv' /\ Moves
<1> SUFFICES ASSUME ChatInv, Tools PROVE ChatInv' /\ Moves
  OBVIOUS
<1> DEFINE calls == Last(messages).calls
<1>1. node = "tools" /\ node' = "agent" /\ UNCHANGED <<mode, left, recipe>>
  BY DEF Tools
<1>2. calls = messages[Len(messages)].calls
  BY DEF Last
<1>3. CASE UNCHANGED <<messages, used>>
  <2>1. Bounded' /\ TurnsOK(messages') /\ messages' \in Seq(Message) /\ Moves
        /\ Turns' = Turns /\ Current' = Current
    BY <1>3, SameMessages
  <2>2. Typed'
    BY <1>1, <1>3, <2>1 DEF ChatInv, Typed
  <2>3. AtNode' /\ OfRecipe'
    BY <1>1, <1>3, <2>1 DEF ChatInv, AtNode, OfRecipe, Steps
  <2> QED
    BY <2>1, <2>2, <2>3 DEF ChatInv
<1>4. CASE ~UNCHANGED <<messages, used>>
  <2> HIDE DEF calls
  <2>1. PICK load \in Loads :
          \E rs \in {f \in [DOMAIN calls -> UNION {Results(calls[k], load) : k \in DOMAIN calls}] :
                       \A k \in DOMAIN calls : f[k] \in Results(calls[k], load)} :
            /\ messages' = messages \o rs
            /\ used' = used \cup
                 {<<calls[k].tool, load.serves[calls[k].tool]>> :
                    k \in {k \in DOMAIN calls : /\ load.steady /\ calls[k].tool # Oracle
                                                /\ rs[k].status = "success"}}
    BY <1>4 DEF Tools, calls
  <2>2. PICK rs \in [DOMAIN calls -> UNION {Results(calls[k], load) : k \in DOMAIN calls}] :
          /\ \A k \in DOMAIN calls : rs[k] \in Results(calls[k], load)
          /\ messages' = messages \o rs
          /\ used' = used \cup
               {<<calls[k].tool, load.serves[calls[k].tool]>> :
                  k \in {k \in DOMAIN calls : /\ load.steady /\ calls[k].tool # Oracle
                                              /\ rs[k].status = "success"}}
    BY <2>1
  <2> QED
    BY <1>1, <1>2, <2>2, AnsweringStep
<1> QED
  BY <1>3, <1>4

LEMMA ComposeMcpStep == ChatInv /\ ComposeMcp => ChatInv' /\ Moves
<1> SUFFICES ASSUME ChatInv, ComposeMcp PROVE ChatInv' /\ Moves
  OBVIOUS
<1> DEFINE inv == Invocations(Current)
           answer == FinalAnswer(Current)
           text == IF Trivial(answer) /\ ToolFailed(inv) THEN "tools_failed" ELSE answer
<1>1. node = "compose" /\ node' = "idle" /\ Ended /\ Place(text, "none", {})
  BY DEF ComposeMcp, Current
<1>2. /\ messages \in Seq(Message) /\ Turns # {} /\ Current # <<>> /\ Finals(Current) = {}
      /\ messages[Len(messages)] \in AI /\ messages[Len(messages)].calls = <<>>
  BY <1>1 DEF ChatInv, Typed, AtNode, Steps
<1>3. Current \in Seq(Said) /\ Ordered(Current)
  BY <1>2, CurrentIs DEF ChatInv, TurnOK
<1>4. answer \in AgentText \cup {"limit"}
  BY <1>2, <1>3, FinalAnswerIs
<1> HIDE DEF inv, answer
<1>5. /\ text \in Text /\ (Trivial(text) => ~ToolFailed(inv))
      /\ text \notin {"no_context", "retrieval_failed"}
  BY <1>4 DEF Text, AgentText, Trivial
<1> HIDE DEF text
<1>6. PICK u \in Seq(Said), a \in AI :
        /\ messages' = Rebuilt(messages, u) /\ Closes(Current, u, a)
        /\ Sourced(Current, a) /\ Frank(Current, a)
  <2>1. "none" \in Outcome /\ {} \in SUBSET Doc
    BY DEF Outcome
  <2> QED
    BY <1>1, <1>2, <1>3, <1>5, <2>1, Composed DEF inv
<1> QED
  BY <1>1, <1>2, <1>6, ClosingStep

LEMMA ComposeMixedStep == ChatInv /\ ComposeMixed => ChatInv' /\ Moves
<1> SUFFICES ASSUME ChatInv, ComposeMixed PROVE ChatInv' /\ Moves
  OBVIOUS
<1> DEFINE inv == Invocations(Current)
           answer == FinalAnswer(Current)
           found == EvidenceIn(Current)
<1>1. node = "compose" /\ node' = "idle" /\ Ended
  BY DEF ComposeMixed
<1>2. /\ messages \in Seq(Message) /\ Turns # {} /\ Current # <<>> /\ Finals(Current) = {}
      /\ messages[Len(messages)] \in AI /\ messages[Len(messages)].calls = <<>>
  BY <1>1 DEF ChatInv, Typed, AtNode, Steps
<1>3. Current \in Seq(Said) /\ Ordered(Current)
  BY <1>2, CurrentIs DEF ChatInv, TurnOK
<1>4. answer \in AgentText \cup {"limit"}
  BY <1>2, <1>3, FinalAnswerIs
<1>5. PICK kept \in Reranked(found.docs), policy \in Policies :
        \E a \in MixedAnswers(policy, inv, answer, found, kept) : Place(a[1], a[2], kept)
  BY DEF ComposeMixed, Current, Evidence
<1>6. PICK a \in MixedAnswers(policy, inv, answer, found, kept) : Place(a[1], a[2], kept)
  BY <1>5
<1>7. /\ found.docs \subseteq UNION {Current[i].docs : i \in Kind("tool", Current)}
      /\ found.docs \subseteq Doc /\ (found.error => found.docs = {})
  BY <1>3, EvidenceIs
<1>8. kept \subseteq found.docs
  BY RerankedFewer
<1> HIDE DEF inv, answer, found
<1>9. /\ a[1] \in Text /\ a[2] \in {"success", "error"}
      /\ Trivial(a[1]) => ~ToolFailed(inv)
      /\ a[2] = "success" => ~found.error
      /\ a[2] = "error" => a[1] \in {"policy", "tools_failed", "retrieval_failed"}
      /\ a[1] \in {"no_context", "retrieval_failed"} => kept = {}
  BY <1>4, <1>6, <1>7, <1>8, MixedAnswersAre
<1>10. PICK u \in Seq(Said), b \in AI :
         /\ messages' = Rebuilt(messages, u) /\ Closes(Current, u, b)
         /\ Sourced(Current, b) /\ Frank(Current, b)
  <2>1. /\ a[2] \in Outcome /\ kept \in SUBSET Doc
        /\ kept \subseteq UNION {Current[i].docs : i \in Kind("tool", Current)}
    BY <1>7, <1>8, <1>9 DEF Outcome
  <2> DEFINE text == a[1]
             outcome == a[2]
  <2>2. text \in Text /\ outcome \in Outcome /\ Place(text, outcome, kept)
    BY <1>6, <1>9, <2>1
  <2>3. /\ Trivial(text) => ~ToolFailed(Invocations(Current))
        /\ outcome = "success" => ~EvidenceIn(Current).error
        /\ outcome = "error" => text \in {"policy", "tools_failed", "retrieval_failed"}
        /\ text \in {"no_context", "retrieval_failed"} => kept = {}
    BY <1>9 DEF inv, found
  <2> HIDE DEF text, outcome
  <2> QED
    BY <1>2, <1>3, <2>1, <2>2, <2>3, Composed
<1> QED
  BY <1>1, <1>2, <1>10, ClosingStep

LEMMA NextChatInv == ChatInv /\ [Next]_chatVars => ChatInv' /\ Moves
<1> SUFFICES ASSUME ChatInv, [Next]_chatVars PROVE ChatInv' /\ Moves
  OBVIOUS
<1>1. CASE UNCHANGED chatVars
  <2>1. Bounded' /\ TurnsOK(messages') /\ Moves
    BY <1>1, SameMessages DEF chatVars
  <2>2. Typed' /\ AtNode' /\ OfRecipe'
    BY <1>1 DEF chatVars, ChatInv, Typed, AtNode, OfRecipe, Turns, Current
  <2> QED
    BY <2>1, <2>2 DEF ChatInv
<1> QED
  BY <1>1, AskStep, DirectStep, RagStep, SetupStep, AgentStep, ToolsStep, ComposeMcpStep,
     ComposeMixedStep, FailStep DEF Next

\* In every reachable state the messages, the node and the recipe fit each other, and
\* each turn is ordered, its results are those of its calls, and its answer may follow them.
THEOREM ChatInvariant == Spec => []ChatInv
<1>1. Init => ChatInv
  BY InitChatInv
<1>2. ChatInv /\ [Next]_chatVars => ChatInv'
  BY NextChatInv
<1> QED
  BY <1>1, <1>2, PTL DEF Spec

-----------------------------------------------------------------------------
(***************************************************************************)
(* The invariants.                                                         *)
(***************************************************************************)
LEMMA TurnTyped ==
  ASSUME NEW ms \in Seq(Message), NEW q \in Kind("human", ms)
  PROVE  TurnIn(ms, q) \in Seq(Said)
<1> DEFINE e == EndIn(ms, q)
<1>1. Len(ms) \in Nat /\ DOMAIN ms = 1..Len(ms) /\ \A i \in 1..Len(ms) : ms[i] \in Message
  BY LenProperties
<1>2. q \in 1..Len(ms)
  BY <1>1 DEF Kind
<1>3. Ends(ms, q, e)
  BY <1>1, <1>2, EndExists
<1> HIDE DEF e
<1>4. e \in Nat /\ e <= Len(ms) /\ \A i \in q + 1..e : i \notin Kind("human", ms)
  BY <1>1, <1>2, <1>3 DEF Ends
<1>5. \A i \in q + 1..e : ms[i] \in Said
  <2> TAKE i \in q + 1..e
  <2>1. i \in 1..Len(ms) /\ i \notin Kind("human", ms)
    BY <1>1, <1>2, <1>4
  <2>2. ms[i] \in Message /\ ms[i].kind # "human"
    BY <2>1, <1>1 DEF Kind
  <2> QED
    BY <2>2, KindsOfMessages DEF Message, Said
<1>6. SubSeq(ms, q + 1, e) \in Seq(Said)
  <2>1. q + 1 \in Int /\ e \in Int
    BY <1>1, <1>2, <1>4
  <2> QED
    BY <1>5, <2>1, SubSeqProperties
<1> QED
  BY <1>6 DEF TurnIn, e

\* What the invariant says of every turn.
LEMMA TurnFacts ==
  ASSUME ChatInv, NEW q \in Turns
  PROVE  TurnOf(q) \in Seq(Said) /\ TurnOK(TurnOf(q))
BY TurnOfIs, TurnTyped DEF ChatInv, Typed, TurnsOK, Turns

\* The types, the bounds, and that remaining_steps counts the model's messages of
\* the current turn in every reachable state.
THEOREM ChatTypeCorrect == Spec => []ChatTypeOK
<1>1. ChatInv => ChatTypeOK
  BY DEF ChatInv, Typed, Bounded, AtNode, Steps, Current, ChatTypeOK, Message
<1> QED
  BY <1>1, ChatInvariant, PTL

\* Only the tools of the turn's recipe, or Oracle's, ever answer, and those of
\* MCP servers as they were defined when the turn started.
THEOREM ToolsAlwaysOfTurn == Spec => []ToolsOfTurn
<1>1. ChatInv => ToolsOfTurn
  BY DEF ChatInv, OfRecipe, Steps, Current, ToolsOfTurn
<1> QED
  BY <1>1, ChatInvariant, PTL

\* A composed answer never cites a document that no retrieval of its own turn
\* returned, nor any if it says that there were none.
THEOREM SourcesAlwaysOfTurn == Spec => []SourcesOfThisTurn
<1>1. ChatInv => SourcesOfThisTurn
  BY TurnFacts DEF TurnOK, Sourced, SourcesOfThisTurn
<1> QED
  BY <1>1, ChatInvariant, PTL

\* No answer hides a failed or unanswered call behind an empty text, or a failed
\* retrieval behind a success, and every error says why.
THEOREM NoFailureSilent == Spec => []NoSilentFailure
<1>1. ChatInv => NoSilentFailure
  BY TurnFacts DEF TurnOK, Frank, NoSilentFailure
<1> QED
  BY <1>1, ChatInvariant, PTL

\* The analysis of any turn of the thread accounts for every call and every
\* result, however many messages there are and whichever ids the model chose.
THEOREM CallsAlwaysAccounted == Spec => []CallsAccounted
<1>1. ASSUME ChatInv, NEW q \in Turns
      PROVE  LET turn == TurnOf(q)
                 inv  == Invocations(turn)
             IN /\ UniqueIds(turn) =>
                     inv = [p \in CallsIn(turn) |->
                              Invocation(turn[p[1]].calls[p[2]], Became(turn, p[1], p[2]))]
                /\ \A status \in {"success", "error"} :
                     Cardinality({p \in DOMAIN inv : inv[p].got = status}) =
                     Cardinality({i \in Kind("tool", turn) : turn[i].status = status})
  <2> DEFINE turn == TurnOf(q)
  <2>1. turn \in Seq(Said) /\ Shape(turn)
    BY <1>1, TurnFacts DEF TurnOK, Ordered
  <2> HIDE DEF turn
  <2>2. UniqueIds(turn) =>
          Invocations(turn) = [p \in CallsIn(turn) |->
            Invocation(turn[p[1]].calls[p[2]], Became(turn, p[1], p[2]))]
    BY <2>1, InvocationsRead
  <2>3. ASSUME NEW s \in {"success", "error"}
        PROVE  Cardinality({p \in DOMAIN Invocations(turn) : Invocations(turn)[p].got = s}) =
               Cardinality({i \in Kind("tool", turn) : turn[i].status = s})
    BY <2>1, InvocationsCount
  <2> QED
    BY <2>2, <2>3, Zenon DEF turn
<1>2. ChatInv => CallsAccounted
  BY <1>1, Zenon DEF CallsAccounted
<1> QED
  BY <1>2, ChatInvariant, PTL

-----------------------------------------------------------------------------
(***************************************************************************)
(* The thread as a conversation.                                           *)
(***************************************************************************)
None == [kind |-> "none"]
AnswerIn(ms, q) == IF Finals(TurnIn(ms, q)) = {} THEN None ELSE Last(TurnIn(ms, q))
LogOf(ms) == [q \in Kind("human", ms) |-> AnswerIn(ms, q)]
Log == [q \in Turns |-> IF Finals(TurnOf(q)) = {} THEN [kind |-> "none"] ELSE Last(TurnOf(q))]

\* The conversation of Conversation, as an operator of the messages;
LEMMA LogIs == Log = LogOf(messages) /\ Log' = LogOf(messages')
<1>1. \A q : TurnOf(q) = TurnIn(messages, q) /\ TurnOf(q)' = TurnIn(messages', q)
  BY DEF TurnOf, EndOf, TurnIn, EndIn, Turns
<1> QED
  BY <1>1 DEF Log, LogOf, AnswerIn, None, Turns

\* a question adds an open entry,
LEMMA AskedLog ==
  ASSUME NEW ms \in Seq(Message), NEW n, n = Len(ms) + 1, NEW r, r = Append(ms, Question)
  PROVE  /\ n \in DOMAIN LogOf(r) /\ \A q \in DOMAIN LogOf(ms) : q < n
         /\ LogOf(r) = [q \in DOMAIN LogOf(ms) \cup {n} |-> IF q = n THEN None ELSE LogOf(ms)[q]]
<1>1. /\ Kind("human", r) = Kind("human", ms) \cup {n} /\ n \notin Kind("human", ms)
      /\ \A q \in Kind("human", ms) : q < n
      /\ TurnIn(r, n) = <<>>
      /\ \A q \in Kind("human", ms) : TurnIn(r, q) = TurnIn(ms, q)
  BY AskedTurns
<1>2. AnswerIn(r, n) = None
  <2>1. Finals(<<>>) = {}
    BY DEF Finals, Kind
  <2> QED
    BY <1>1, <2>1 DEF AnswerIn
<1>3. \A q \in Kind("human", ms) : AnswerIn(r, q) = AnswerIn(ms, q)
  BY <1>1 DEF AnswerIn
<1> QED
  BY <1>1, <1>2, <1>3 DEF LogOf

\* and rebuilding changes the latest entry alone.
LEMMA RebuiltLog ==
  ASSUME NEW ms \in Seq(Message), Kind("human", ms) # {}, NEW u \in Seq(Said)
  PROVE  LET h == LatestHuman(ms)
             r == Rebuilt(ms, u)
         IN /\ DOMAIN LogOf(r) = DOMAIN LogOf(ms) /\ h \in DOMAIN LogOf(ms)
            /\ \A q \in DOMAIN LogOf(ms) : q <= h
            /\ \A q \in DOMAIN LogOf(ms) \ {h} : LogOf(r)[q] = LogOf(ms)[q]
            /\ LogOf(r)[h] = IF Finals(u) = {} THEN None ELSE Last(u)
            /\ LogOf(ms)[h] = AnswerIn(ms, h) /\ TurnIn(ms, h) = CurrentTurn(ms)
<1> DEFINE h == LatestHuman(ms)
           r == Rebuilt(ms, u)
<1>1. /\ h \in Kind("human", ms) /\ \A q \in Kind("human", ms) : q <= h
      /\ TurnIn(ms, h) = CurrentTurn(ms)
  BY CurrentTurnFacts, LatestHumanIs
<1>2. /\ Kind("human", r) = Kind("human", ms) /\ TurnIn(r, h) = u
      /\ \A q \in Kind("human", ms) \ {h} : TurnIn(r, q) = TurnIn(ms, q)
  BY RebuiltTurns
<1> HIDE DEF h, r
<1> QED
  BY <1>1, <1>2 DEF LogOf, AnswerIn, h, r

LEMMA InitThread == Init => Thread!ConversationInit
<1> SUFFICES ASSUME Init PROVE Log = [q \in {} |-> None]
  BY DEF Thread!ConversationInit, Log, None
<1>1. Turns = {}
  BY DEF Init, Turns, Kind
<1> QED
  BY <1>1 DEF Log

\* AskQuestion, as a relation of two logs.
AskedMove(L, M) ==
  \E q \in DOMAIN M : /\ \A r \in DOMAIN L : r < q
                      /\ M = [r \in DOMAIN L \cup {q} |-> IF r = q THEN None ELSE L[r]]

LEMMA MovesThread ==
  ASSUME messages \in Seq(Message), Moves
  PROVE  Log' = Log \/ Thread!AskQuestion \/ Thread!GiveAnswer
<1> DEFINE L == LogOf(messages)
           M == LogOf(messages')
<1>1. Log = L /\ Log' = M
  BY LogIs
<1>2. Thread!AskQuestion <=> AskedMove(L, M)
  <2>1. Thread!AskQuestion <=> AskedMove(Log, Log')
    BY DEF Thread!AskQuestion, Log, AskedMove, None
  <2> HIDE DEF L, M
  <2> QED
    BY <1>1, <2>1
<1>3. Thread!GiveAnswer <=>
        \E q \in DOMAIN L : /\ \A r \in DOMAIN L : r <= q
                            /\ L[q] = None
                            /\ DOMAIN M = DOMAIN L /\ M[q] \in {m \in AI : m.final}
                            /\ \A r \in DOMAIN L \ {q} : M[r] = L[r]
  <2>1. Thread!GiveAnswer <=>
          \E q \in DOMAIN Log : /\ \A r \in DOMAIN Log : r <= q
                               /\ Log[q] = [kind |-> "none"]
                               /\ DOMAIN Log' = DOMAIN Log /\ Log'[q] \in {m \in AI : m.final}
                               /\ \A r \in DOMAIN Log \ {q} : Log'[r] = Log[r]
    BY DEF Thread!GiveAnswer, Log
  <2> HIDE DEF L, M
  <2> DEFINE A == {m \in AI : m.final}
  <2> HIDE DEF A
  <2>2. Thread!GiveAnswer <=>
          \E q \in DOMAIN L : /\ \A r \in DOMAIN L : r <= q
                             /\ L[q] = [kind |-> "none"]
                             /\ DOMAIN M = DOMAIN L /\ M[q] \in A
                             /\ \A r \in DOMAIN L \ {q} : M[r] = L[r]
    BY <1>1, <2>1 DEF A
  <2> QED
    BY <2>2 DEF None, A
<1>4. CASE messages' = messages
  BY <1>1, <1>4
<1>5. CASE messages' = Append(messages, Question)
  <2> DEFINE n == Len(messages) + 1
  <2>1. /\ n \in DOMAIN M /\ \A q \in DOMAIN L : q < n
        /\ M = [q \in DOMAIN L \cup {n} |-> IF q = n THEN None ELSE L[q]]
    BY <1>5, AskedLog
  <2> HIDE DEF n, L, M
  <2> QED
    BY <2>1, <1>2 DEF AskedMove
<1>6. ASSUME Turns # {}, Finals(Current) = {}, NEW u \in Seq(Said),
             messages' = Rebuilt(messages, u),
             Finals(u) # {} => u # <<>> /\ u[Len(u)] \in AI /\ u[Len(u)].final
      PROVE  Log' = Log \/ Thread!GiveAnswer
  <2> DEFINE h == LatestHuman(messages)
  <2>1. /\ DOMAIN M = DOMAIN L /\ h \in DOMAIN L /\ \A q \in DOMAIN L : q <= h
        /\ \A q \in DOMAIN L \ {h} : M[q] = L[q]
        /\ M[h] = IF Finals(u) = {} THEN None ELSE Last(u)
        /\ L[h] = AnswerIn(messages, h) /\ TurnIn(messages, h) = CurrentTurn(messages)
    BY <1>6, RebuiltLog DEF Turns
  <2>2. L[h] = None
    BY <2>1, <1>6 DEF AnswerIn, Current
  <2>3. M = [q \in DOMAIN M |-> M[q]] /\ L = [q \in DOMAIN L |-> L[q]]
    BY DEF LogOf
  <2> HIDE DEF h, L, M
  <2>4. CASE Finals(u) = {}
    <3>1. M[h] = L[h]
      BY <2>1, <2>2, <2>4
    <3>2. \A q \in DOMAIN L : M[q] = L[q]
      BY <2>1, <3>1
    <3>3. M = L
      BY <2>1, <2>3, <3>2
    <3> QED
      BY <3>3, <1>1
  <2>5. CASE Finals(u) # {}
    <3>1. M[h] \in {m \in AI : m.final}
      BY <2>1, <2>5, <1>6 DEF Last
    <3> QED
      BY <2>1, <2>2, <3>1, <1>3
  <2> QED
    BY <2>4, <2>5
<1> QED
  BY <1>4, <1>5, <1>6 DEF Moves

\* Every turn has at most one answer, only the latest question is ever answered,
\* and no answer that was given changes: the thread implements Conversation.
THEOREM ThreadImplementsConversation == Spec => ImplementsConversation
<1>1. Init => Thread!ConversationInit
  BY InitThread
<1>2. ChatInv /\ [Next]_chatVars => [Thread!AskQuestion \/ Thread!GiveAnswer]_Log
  BY NextChatInv, MovesThread DEF ChatInv, Typed
<1>3. ChatInv /\ [Next]_chatVars =>
        [Thread!AskQuestion \/ Thread!GiveAnswer]_[q \in Turns |->
           IF Finals(TurnOf(q)) = {} THEN [kind |-> "none"] ELSE Last(TurnOf(q))]
  BY <1>2 DEF Log
<1> QED
  BY <1>1, <1>3, ChatInvariant, PTL DEF Spec, ImplementsConversation, Thread!ConversationSpec

-----------------------------------------------------------------------------
(***************************************************************************)
(* The answers of the knowledge server.                                    *)
(***************************************************************************)
LEMMA RefusedKeeps ==
  ASSUME NEW req, NEW outcome, outcome # "success", NEW kb \in KnowledgeBase \cup {NoName},
         kb # NoName => kb = Selected(req.kb)
  PROVE  ContractOf(req, Refused(outcome, kb))
<1>1. /\ Refused(outcome, kb).outcome = outcome /\ Refused(outcome, kb).kb = kb
      /\ Refused(outcome, kb).evidence = <<>>
  BY DEF Refused
<1> QED
  BY <1>1 DEF ContractOf

\* What a ranking is: a sequence over its set without repetition.
LEMMA RankingIs ==
  ASSUME NEW S, NEW n \in Nat, NEW s \in Rankings(S, n)
  PROVE  /\ s \in Seq(S) /\ Len(s) \in Nat /\ DOMAIN s = 1..Len(s)
         /\ \A i \in DOMAIN s : s[i] \in S
         /\ \A i, j \in DOMAIN s : s[i] = s[j] => i = j
<1>1. PICK m \in 0..n : s \in [1..m -> S] /\ \A i, j \in 1..m : s[i] = s[j] => i = j
  BY DEF Rankings
<1>2. s \in Seq(S) /\ Len(s) = m
  BY <1>1, FunctionIsSeq
<1> QED
  BY <1>1, <1>2

\* Whatever the reranker does, the documents are chunks of the collection, each once.
LEMMA OrdersAre ==
  ASSUME NEW req \in Request, NEW S, NEW n \in Nat, NEW found \in Rankings(S, n),
         NEW r \in Orders(req, found)
  PROVE  /\ Len(r.docs) \in Nat /\ DOMAIN r.docs = 1..Len(r.docs)
         /\ \A i \in DOMAIN r.docs : r.docs[i] \in S
         /\ \A i, j \in DOMAIN r.docs : r.docs[i] = r.docs[j] => i = j
<1>1. /\ Len(found) \in Nat /\ DOMAIN found = 1..Len(found)
      /\ \A i \in DOMAIN found : found[i] \in S
      /\ \A i, j \in DOMAIN found : found[i] = found[j] => i = j
  BY RankingIs
<1>2. r.docs = found \/ r.docs \in Rankings(ChunksOf(found), Len(found))
  BY DEF Orders
<1>3. ChunksOf(found) \subseteq S
  BY <1>1 DEF ChunksOf
<1>4. CASE r.docs = found
  BY <1>1, <1>4
<1>5. CASE r.docs \in Rankings(ChunksOf(found), Len(found))
  <2>1. PICK d \in Rankings(ChunksOf(found), Len(found)) : d = r.docs
    BY <1>5
  <2>2. /\ Len(d) \in Nat /\ DOMAIN d = 1..Len(d)
        /\ \A i \in DOMAIN d : d[i] \in ChunksOf(found)
        /\ \A i, j \in DOMAIN d : d[i] = d[j] => i = j
    BY <1>1, RankingIs
  <2> QED
    BY <1>3, <2>1, <2>2
<1> QED
  BY <1>2, <1>4, <1>5

\* An answer of the service keeps the contract,
LEMMA AnsweredKeeps ==
  ASSUME NEW req \in Request, Valid(req), ~Exceeds(req), Selected(req.kb) \in KnowledgeBase,
         NEW found \in Retrieved(req), NEW r \in Orders(req, found)
  PROVE  ContractOf(req, Answered(req, r))
<1> DEFINE kb == Selected(req.kb)
           d == r.docs
           a == Answered(req, r)
           e == Ranks(req, d)
           k == IF Len(d) < req.limit THEN Len(d) ELSE req.limit
<1>1. /\ req.limit \in Nat /\ req.candidates \in Nat /\ req.limit <= ResultLimit
      /\ ResultLimit \in Nat /\ DefaultCandidates \in Nat
  BY SearchConstants DEF Request, Exceeds
<1>2. /\ Len(d) \in Nat /\ DOMAIN d = 1..Len(d)
      /\ \A i \in DOMAIN d : d[i] \in Holdings[kb]
      /\ \A i, j \in DOMAIN d : d[i] = d[j] => i = j
  <2>1. PICK n \in Nat : found \in Rankings(Holdings[kb], n)
    BY <1>1 DEF Retrieved, Larger
  <2> QED
    BY <2>1, OrdersAre
<1>3. /\ a.kb = kb /\ a.evidence = e
      /\ a.outcome = IF e = <<>> THEN "no_hits" ELSE "success"
  BY DEF Answered
<1>4. e = [i \in 1..k |-> [chunk |-> d[i], rank |-> i]]
  BY DEF Ranks
<1> HIDE DEF d, a, e
<1>5. k \in Nat /\ k <= Len(d) /\ k <= req.limit /\ k <= ResultLimit
  BY <1>1, <1>2
<1>6. 1..k \subseteq DOMAIN d
  BY <1>2, <1>5
<1> HIDE DEF k
<1>7. /\ DOMAIN e = 1..k
      /\ \A i \in DOMAIN e : e[i].chunk = d[i] /\ e[i].rank = i
  BY <1>4
<1>8. Len(e) = k
  <2>1. e \in [1..k -> {[chunk |-> d[i], rank |-> i] : i \in 1..k}]
    BY <1>4
  <2> QED
    BY <2>1, <1>5, FunctionIsSeq
<1>9. kb # NoName
  BY SearchConstants
<1> HIDE DEF kb
<1>10. \A i \in DOMAIN e :
         /\ e[i].rank = i /\ e[i].chunk \in Holdings[kb]
         /\ \A j \in DOMAIN e : e[i].chunk = e[j].chunk => i = j
  BY <1>2, <1>6, <1>7
<1>11. /\ a.outcome = "success" <=> a.evidence # <<>>
  BY <1>3
<1>12. Len(e) <= req.limit /\ Len(e) <= ResultLimit
  BY <1>5, <1>8
<1> QED
  BY <1>3, <1>9, <1>10, <1>11, <1>12 DEF ContractOf, kb, a

\* and so does all that is served.
LEMMA ServedKeeps ==
  ASSUME NEW req \in Request, NEW r \in ServedSearch(req)
  PROVE  ContractOf(req, r)
<1>1. /\ Public(req.kb) \in KnowledgeBase \cup {NoName}
      /\ Public(req.kb) # NoName => Public(req.kb) = Selected(req.kb)
  BY DEF Public
<1>2. CASE ~Valid(req)
  <2> DEFINE kb == IF req.kb \in KnowledgeBase THEN req.kb ELSE NoName
  <2>1. r = Refused("invalid_request", kb)
    BY <1>2 DEF ServedSearch
  <2>2. kb \in KnowledgeBase \cup {NoName} /\ (kb # NoName => kb = Selected(req.kb))
    BY SearchConstants DEF Selected
  <2> HIDE DEF kb
  <2> QED
    BY <2>1, <2>2, RefusedKeeps
<1>3. CASE Valid(req)
  <2>1. r \in Search(req)
    BY <1>3 DEF ServedSearch
  <2>2. CASE Exceeds(req)
    <3>1. r = Refused("invalid_request", Public(req.kb))
      BY <2>1, <2>2 DEF Search
    <3> QED
      BY <1>1, <3>1, RefusedKeeps
  <2>3. CASE ~Exceeds(req) /\ Selected(req.kb) \notin KnowledgeBase
    <3>1. r = Refused("forbidden", NoName)
      BY <2>1, <2>3 DEF Search
    <3> QED
      BY <3>1, RefusedKeeps
  <2>4. CASE ~Exceeds(req) /\ Selected(req.kb) \in KnowledgeBase
    <3>1. \/ r = Refused("invalid_request", Selected(req.kb))
          \/ r = Refused("backend_error", Public(req.kb))
          \/ \E found \in Retrieved(req) : \E s \in Orders(req, found) : r = Answered(req, s)
      BY <2>1, <2>4 DEF Search
    <3>2. CASE r = Refused("invalid_request", Selected(req.kb))
      BY <2>4, <3>2, RefusedKeeps
    <3>3. CASE r = Refused("backend_error", Public(req.kb))
      BY <1>1, <3>3, RefusedKeeps
    <3>4. CASE \E found \in Retrieved(req) : \E s \in Orders(req, found) : r = Answered(req, s)
      BY <1>3, <2>4, <3>4, AnsweredKeeps
    <3> QED
      BY <3>1, <3>2, <3>3, <3>4
  <2> QED
    BY <2>2, <2>3, <2>4
<1> QED
  BY <1>2, <1>3

\* Whatever the embedding, the store, the reranker and the deadline do, the evidence
\* of a search comes from the one allowed collection the result names, without
\* repetition, ranked from 1 and within both limits; nothing but a success has any,
\* and a name that is not allowed is never echoed.
THEOREM SearchKeepsContract == SearchContract
<1>1. \A req \in Request : \A r \in ServedSearch(req) : ContractOf(req, r)
  BY ServedKeeps
<1>2. ASSUME NEW kb \in Name \cup {NoName}, NEW r \in Listings(kb)
      PROVE  /\ r.documents # {} => r.outcome = "success" /\ r.documents = Holdings[r.kb]
             /\ r.kb \in KnowledgeBase \cup {NoName} /\ (r.kb # NoName => r.kb = Selected(kb))
  <2>1. CASE Selected(kb) \notin KnowledgeBase
    BY <2>1 DEF Listings
  <2>2. CASE Selected(kb) \in KnowledgeBase
    <3> DEFINE H == Holdings[Selected(kb)]
    <3>1. \/ r = [outcome |-> "backend_error", kb |-> Selected(kb), documents |-> {}]
          \/ r = [outcome |-> IF H = {} THEN "no_hits" ELSE "success",
                  kb |-> Selected(kb), documents |-> H]
      BY <2>2 DEF Listings
    <3> QED
      BY <2>2, <3>1
  <2> QED
    BY <2>1, <2>2
<1> QED
  BY <1>1, <1>2 DEF SearchContract
=============================================================================
