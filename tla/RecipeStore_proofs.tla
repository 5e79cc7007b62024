-------------------------- MODULE RecipeStore_proofs --------------------------
(***************************************************************************)
(* Proofs about RecipeStore, for every set of threads, turns, runs and     *)
(* payloads and every choice of the durations and bounds.                  *)
(***************************************************************************)
EXTENDS RecipeStore, TLAPS

(***************************************************************************)
(* The inductive invariant.  TypeOK alone is not inductive: a copied       *)
(* thread gets a row for every turn a checkpoint link names, so the rows   *)
(* are well formed only because links resolve.                             *)
(***************************************************************************)
TablesOK == TypeOK /\ LinksResolve

-----------------------------------------------------------------------------
LEMMA FreshRowType ==
  ASSUME TypeOK, NEW p \in Payload, NEW r \in Run \cup {Nil}
  PROVE  /\ FreshRow(p, r) \in Row
         /\ FreshRow(p, r).payload = p
         /\ FreshRow(p, r).owner = NoOwner
         /\ FreshRow(p, r).expires = NoTime
         /\ FreshRow(p, r).fence = 0
  BY StoreConstants DEF TypeOK, FreshRow, NoRow, Row, NoTime, NoOwner

LEMMA NoRowType == NoRow \in Row /\ NoRow.payload = Nil /\ NoRow.owner = NoOwner /\ NoRow.expires = NoTime
  /\ NoRow.fence = 0
  BY DEF NoRow, Row, NoTime, NoOwner

\* What TypeOK says of a row once n leases were granted; the actions that
\* rewrite the table establish it row by row.
RowOK(row, n) ==
  /\ row \in Row
  /\ row.owner = NoOwner <=> row.expires = NoTime
  /\ row.payload = Nil => row = NoRow
  /\ row.fence <= n

LEMMA RowsOK ==
  TypeOK <=> /\ now \in 0..MaxNow
             /\ recipes = [k \in Key |-> recipes[k]]
             /\ \A k \in Key : RowOK(recipes[k], claims)
             /\ checkpoints \subseteq Checkpoint
             /\ ckptLinks \subseteq CkptLink
             /\ runLinks \subseteq RunLink
             /\ claims \in 0..MaxClaims
             /\ issued \subseteq Token
  BY DEF TypeOK, RowOK, Stored

LEMMA InitTables == Init => TablesOK
  BY NoRowType, StoreConstants
  DEF Init, TablesOK, TypeOK, LinksResolve, Stored

LEMMA WithoutType ==
  ASSUME TypeOK, NEW gone
  PROVE  /\ Without(gone) \in [Key -> Row]
         /\ \A k \in Key : RowOK(Without(gone)[k], claims)
  BY NoRowType, RowsOK DEF Without, RowOK, TypeOK

-----------------------------------------------------------------------------
(***************************************************************************)
(* A row changed in place keeps the tables well formed when it stays       *)
(* stored and its lease columns stay NULL together: every lease operation  *)
(* is such a change.                                                       *)
(***************************************************************************)
LEMMA RowChange ==
  ASSUME TablesOK, NEW k \in Key, Stored(k),
         NEW row, RowOK(row, claims'), row.payload # Nil,
         recipes' = [recipes EXCEPT ![k] = row],
         UNCHANGED <<now, checkpoints, ckptLinks, runLinks>>,
         claims' \in claims..MaxClaims, issued' \subseteq Token
  PROVE  TablesOK'
<1>1. recipes' \in [Key -> Row]
  BY DEF TablesOK, TypeOK, RowOK
<1>2. \A j \in Key : recipes'[j] = IF j = k THEN row ELSE recipes[j]
  BY DEF TablesOK, TypeOK
<1>3. \A j \in Key : Stored(j)' <=> Stored(j)
  BY <1>2 DEF Stored
<1>4. TypeOK'
  BY <1>1, <1>2, <1>3, StoreConstants DEF TablesOK, TypeOK, RowOK, Stored, Row
<1>5. \A l \in ckptLinks \cup runLinks : l.key \in Key
  BY DEF TablesOK, TypeOK, CkptLink, RunLink
<1>6. LinksResolve'
  BY <1>3, <1>5 DEF TablesOK, LinksResolve, Links
<1> QED
  BY <1>4, <1>6 DEF TablesOK

WithLease(row, o, f, e) == [row EXCEPT !.owner = o, !.fence = f, !.expires = e]

LEMMA LeaseRow ==
  \A row \in Row, o, f, e \in Nat : WithLease(row, o, f, e) \in Row
<1>1. ASSUME NEW row \in Row, NEW o \in Nat, NEW f \in Nat, NEW e \in Nat
      PROVE  WithLease(row, o, f, e) \in Row
  BY DEF Row, WithLease, NoTime
<1> QED
  BY <1>1

LEMMA LeaseColumns ==
  \A row \in Row, o, f, e \in Nat :
    /\ WithLease(row, o, f, e).payload = row.payload
    /\ WithLease(row, o, f, e).owner = o
    /\ WithLease(row, o, f, e).expires = e
    /\ WithLease(row, o, f, e).fence = f
  BY DEF Row, WithLease

LEMMA ClaimTables == ASSUME TablesOK, NEW k \in Key, Claim(k) PROVE TablesOK'
<1>1. /\ recipes[k] \in Row /\ recipes[k].fence <= claims
      /\ now \in Nat /\ now + LeaseDuration \in Nat
      /\ claims \in Nat /\ claims + 1 \in 1..MaxClaims /\ claims' = claims + 1
  BY StoreConstants DEF TablesOK, TypeOK, Claim
<1>2. Stored(k)
  BY DEF Claim, Claimable
<1>3. /\ Claimed(recipes[k]) \in Row
      /\ Claimed(recipes[k]).payload = recipes[k].payload
      /\ Claimed(recipes[k]).owner = claims + 1
      /\ Claimed(recipes[k]).expires = now + LeaseDuration
      /\ Claimed(recipes[k]).fence = recipes[k].fence + 1
  <2>2. Claimed(recipes[k]) =
          WithLease(recipes[k], claims + 1, recipes[k].fence + 1, now + LeaseDuration)
    BY DEF Claimed, WithLease
  <2>3. /\ recipes[k] \in Row /\ claims + 1 \in Nat
        /\ recipes[k].fence + 1 \in Nat /\ now + LeaseDuration \in Nat
    BY <1>1 DEF Row
  <2> DEFINE new == WithLease(recipes[k], claims + 1, recipes[k].fence + 1, now + LeaseDuration)
  <2>4. new \in Row
    BY <2>3, LeaseRow
  <2>5. /\ new.payload = recipes[k].payload /\ new.owner = claims + 1
        /\ new.expires = now + LeaseDuration /\ new.fence = recipes[k].fence + 1
    BY <2>3, LeaseColumns
  <2> QED
    BY <2>2, <2>4, <2>5
<1>4. RowOK(Claimed(recipes[k]), claims')
  <2>1. recipes[k].fence \in Nat
    BY <1>1 DEF Row
  <2> QED
    BY <1>1, <1>2, <1>3, <2>1 DEF RowOK, Stored, NoOwner, NoTime
<1>5. [key |-> k, owner |-> claims + 1, fence |-> recipes[k].fence + 1] \in Token
  <2>1. recipes[k].fence \in Nat
    BY <1>1 DEF Row
  <2>2. recipes[k].fence + 1 \in 1..MaxClaims
    BY <1>1, <2>1, StoreConstants
  <2> QED
    BY <1>1, <2>2 DEF Token
<1>6. issued' \subseteq Token
  BY <1>5 DEF Claim, TablesOK, TypeOK
<1>7. Claimed(recipes[k]).payload # Nil /\ claims' \in claims..MaxClaims
  BY <1>1, <1>2, <1>3 DEF Stored
<1>8. /\ recipes' = [recipes EXCEPT ![k] = Claimed(recipes[k])]
      /\ UNCHANGED <<now, checkpoints, ckptLinks, runLinks>>
  BY DEF Claim
<1> QED
  BY <1>2, <1>4, <1>6, <1>7, <1>8, RowChange

\* Renewing, releasing and marking change a row their caller holds.
LEMMA HolderTables ==
  ASSUME TablesOK, NEW tok \in issued, Renew(tok) \/ Release(tok) \/ MarkTerminal(tok)
  PROVE  TablesOK'
<1> DEFINE k == tok.key
<1>1. k \in Key /\ Stored(k) /\ Live(k)
  BY DEF TablesOK, TypeOK, Token, Renew, Release, MarkTerminal, Holds
<1>2. /\ recipes[k] \in Row /\ now \in Nat /\ now + LeaseDuration \in Nat
      /\ claims' = claims /\ claims \in claims..MaxClaims
      /\ recipes[k].fence <= claims
      /\ recipes[k].owner # NoOwner /\ recipes[k].expires # NoTime
  BY <1>1, StoreConstants
  DEF TablesOK, TypeOK, Renew, Release, MarkTerminal, Live, leases, Row, NoTime
<1>3. CASE Renew(tok)
  <2>1. RowOK(Renewed(recipes[k]), claims') /\ Renewed(recipes[k]).payload = recipes[k].payload
    BY <1>1, <1>2 DEF RowOK, Renewed, Row, Stored, NoTime
  <2> QED
    BY <1>1, <1>2, <1>3, <2>1, RowChange DEF Renew, Stored, leases, TablesOK, TypeOK
<1>4. CASE Release(tok)
  <2>1. RowOK(Released(recipes[k]), claims') /\ Released(recipes[k]).payload = recipes[k].payload
    BY <1>1, <1>2 DEF RowOK, Released, Row, Stored, NoTime, NoOwner
  <2> QED
    BY <1>1, <1>2, <1>4, <2>1, RowChange DEF Release, Stored, leases, TablesOK, TypeOK
<1>5. CASE MarkTerminal(tok)
  <2>1. RowOK(Marked(recipes[k]), claims') /\ Marked(recipes[k]).payload = recipes[k].payload
    BY <1>1, <1>2 DEF RowOK, Marked, Row, Stored, NoTime
  <2> QED
    BY <1>1, <1>2, <1>5, <2>1, RowChange DEF MarkTerminal, Stored, leases, TablesOK, TypeOK
<1> QED
  BY <1>3, <1>4, <1>5

-----------------------------------------------------------------------------
LEMMA RunLinkType ==
  ASSUME TypeOK, NEW k \in Key, NEW r \in Run
  PROVE  /\ WithRunLink(k, r) \subseteq RunLink
         /\ \A l \in WithRunLink(k, r) : l \in runLinks \/ l.key = k
  BY StoreConstants DEF TypeOK, WithRunLink, RunLink

\* A new row goes where there was none, so no link was waiting for it.
LEMMA CreateTables ==
  ASSUME TablesOK, NEW k \in Key, NEW p \in Payload, NEW r \in Run \cup {Nil},
         CreateOrLoad(k, p, r)
  PROVE  TablesOK'
<1>1. recipes' \in [Key -> Row] /\ \A j \in Key : RowOK(recipes'[j], claims)
  <2>1. CASE UNCHANGED recipes
    BY <2>1, RowsOK DEF TablesOK, TypeOK
  <2>2. CASE recipes' = [recipes EXCEPT ![k] = FreshRow(p, r)]
    <3>1. FreshRow(p, r) \in Row /\ RowOK(FreshRow(p, r), claims)
      BY FreshRowType, StoreConstants DEF TablesOK, TypeOK, RowOK
    <3> QED
      BY <2>2, <3>1, RowsOK DEF TablesOK, TypeOK
  <2> QED
    BY <2>1, <2>2 DEF CreateOrLoad
<1>2. \A j \in Key : Stored(j) \/ j = k => Stored(j)'
  BY FreshRowType, StoreConstants DEF CreateOrLoad, Stored, TablesOK, TypeOK
<1>3. runLinks' \subseteq RunLink /\ \A l \in runLinks' : l \in runLinks \/ l.key = k
  BY RunLinkType DEF CreateOrLoad, TablesOK, TypeOK
<1>4. TypeOK'
  BY <1>1, <1>3 DEF CreateOrLoad, leases, TablesOK, TypeOK, RowOK, Stored
<1>5. LinksResolve'
  BY <1>2, <1>3 DEF CreateOrLoad, TablesOK, TypeOK, LinksResolve, Links, CkptLink, RunLink
<1> QED
  BY <1>4, <1>5 DEF TablesOK

LEMMA RecordRunLinkTables ==
  ASSUME TablesOK, NEW k \in Key, NEW r \in Run, RecordRunLink(k, r)
  PROVE  TablesOK'
BY RunLinkType DEF RecordRunLink, leases, TablesOK, TypeOK, LinksResolve, Links, Stored

LEMMA TickTables == ASSUME TablesOK, Tick PROVE TablesOK'
BY StoreConstants DEF Tick, tables, leases, TablesOK, TypeOK, LinksResolve, Links, Stored

-----------------------------------------------------------------------------
(***************************************************************************)
(* The operations on checkpoints.  Each deletes links first and then       *)
(* recipes no remaining link names, or writes a checkpoint together with   *)
(* the one link it needs.                                                  *)
(***************************************************************************)
LEMMA LinkOfType ==
  ASSUME NEW c \in Checkpoint, c.turn # Nil
  PROVE  LinkOf(c) \in CkptLink /\ LinkOf(c).key = <<c.thread, c.turn>> /\ Links(LinkOf(c), c)
BY DEF Checkpoint, LinkOf, CkptLink, Links, Key

LEMMA AputTables ==
  ASSUME TablesOK, NEW t \in Thread, NEW ns \in Ns, NEW id \in CkptId,
         NEW u \in Turn \cup {Nil}, NEW r \in Run \cup {Nil}, Aput(t, ns, id, u, r)
  PROVE  TablesOK'
<1> DEFINE c == [thread |-> t, ns |-> ns, id |-> id, turn |-> u, run |-> r,
                 resumable |-> u # Nil /\ Stored(<<t, u>>)]
<1>1. /\ checkpoints' = {d \in checkpoints : ~SameCheckpoint(c, d)} \cup {c}
      /\ ckptLinks' = LinksWith(c)
      /\ UNCHANGED <<now, recipes, runLinks, leases>>
  BY DEF Aput
<1>2. c \in Checkpoint
  BY DEF Checkpoint
<1>3. c.thread = t /\ c.turn = u /\ (c.resumable => u # Nil /\ Stored(<<t, u>>))
  OBVIOUS
<1> HIDE DEF c
<1>4. ckptLinks' \subseteq CkptLink
  BY <1>1, <1>2, <1>3, LinkOfType DEF LinksWith, TablesOK, TypeOK
<1>5. TypeOK'
  BY <1>1, <1>2, <1>4 DEF TablesOK, TypeOK, leases, Stored
<1>6. ASSUME NEW l \in ckptLinks'
      PROVE  Stored(l.key) /\ \E d \in checkpoints' : Links(l, d)
  <2>1. CASE l \in ckptLinks /\ ~Links(l, c)
    <3>1. PICK d \in checkpoints : Links(l, d)
      BY <2>1 DEF TablesOK, LinksResolve
    <3>2. ~SameCheckpoint(c, d)
      BY <2>1, <3>1 DEF Links, SameCheckpoint
    <3> QED
      BY <1>1, <2>1, <3>1, <3>2 DEF TablesOK, LinksResolve
  <2>2. CASE c.resumable /\ l = LinkOf(c)
    BY <1>1, <1>2, <1>3, <2>2, LinkOfType
  <2> QED
    BY <1>1, <2>1, <2>2 DEF LinksWith
<1>7. LinksResolve'
  BY <1>1, <1>6 DEF TablesOK, LinksResolve, Stored, Links
<1> QED
  BY <1>5, <1>7 DEF TablesOK

\* What is left stored once the unprotected recipes are gone.
LEMMA StoredWithout ==
  ASSUME NEW gone, recipes' = Without(gone)
  PROVE  \A k \in Key : Stored(k)' <=> Stored(k) /\ k \notin gone
BY NoRowType DEF Without, Stored

LEMMA DropTables ==
  ASSUME TablesOK, NEW gone, NEW rl, rl \subseteq runLinks, DropCheckpoints(gone, rl)
  PROVE  TablesOK'
<1> DEFINE cl == {l \in ckptLinks : ~\E c \in gone : Links(l, c)}
<1>1. /\ checkpoints' = checkpoints \ gone /\ ckptLinks' = cl /\ runLinks' = rl
      /\ recipes' = Without(Unprotected(cl, rl))
      /\ UNCHANGED <<now, leases>>
  BY DEF DropCheckpoints
<1>2. TypeOK'
  BY <1>1, WithoutType DEF TablesOK, TypeOK, leases, RowOK, Stored
<1>3. \A l \in ckptLinks \cup runLinks : l.key \in Key
  BY DEF TablesOK, TypeOK, CkptLink, RunLink
<1>4. \A l \in cl \cup rl : Stored(l.key)'
  BY <1>1, <1>3, StoredWithout DEF TablesOK, LinksResolve, Unprotected
<1>5. \A l \in cl : \E d \in checkpoints \ gone : Links(l, d)
  BY DEF TablesOK, LinksResolve
<1>6. LinksResolve'
  BY <1>1, <1>4, <1>5 DEF LinksResolve, Stored, Links
<1> QED
  BY <1>2, <1>6 DEF TablesOK

LEMMA DeleteThreadTables ==
  ASSUME TablesOK, NEW t \in Thread, DeleteThread(t)
  PROVE  TablesOK'
<1>1. \A k \in Key : recipes'[k] = IF k[1] = t THEN NoRow ELSE recipes[k]
  BY DEF DeleteThread
<1>2. recipes' \in [Key -> Row]
  BY NoRowType DEF DeleteThread, TablesOK, TypeOK
<1>3. \A k \in Key : RowOK(recipes'[k], claims)
  BY <1>1, NoRowType, RowsOK DEF RowOK, TablesOK, TypeOK
<1>4. TypeOK'
  BY <1>2, <1>3 DEF DeleteThread, leases, TablesOK, TypeOK, RowOK, Stored
<1>5. \A l \in ckptLinks \cup runLinks : l.key \in Key
  BY DEF TablesOK, TypeOK, CkptLink, RunLink
<1>6. \A l \in ckptLinks' \cup runLinks' : Stored(l.key)'
  BY <1>1, <1>5 DEF DeleteThread, TablesOK, LinksResolve, Stored
<1>7. \A l \in ckptLinks' : \E c \in checkpoints' : Links(l, c)
  BY DEF DeleteThread, TablesOK, LinksResolve, Links
<1>8. LinksResolve'
  BY <1>6, <1>7 DEF LinksResolve, Stored, Links
<1> QED
  BY <1>4, <1>8 DEF TablesOK

\* A copied link belongs to a copied checkpoint, and its recipe is one of the
\* turns that were copied.
LEMMA CopyTables ==
  ASSUME TablesOK, NEW s \in Thread, NEW t \in Thread, CopyThread(s, t)
  PROVE  TablesOK'
<1> DEFINE CopyOf(l) == [l EXCEPT !.key = <<t, l.key[2]>>]
           MovedTo(c) == [c EXCEPT !.thread = t]
<1>1. /\ checkpoints' = {c \in checkpoints : c.thread # t}
                           \cup {MovedTo(c) : c \in {d \in checkpoints : d.thread = s}}
      /\ ckptLinks' = {l \in ckptLinks : l.key[1] # t}
                        \cup {CopyOf(l) : l \in {m \in ckptLinks : m.key[1] = s}}
      /\ runLinks' = {l \in runLinks : l.key[1] # t}
      /\ recipes' = CopiedRecipes(s, t)
      /\ UNCHANGED <<now, leases>>
  BY DEF CopyThread
<1>2. \A l \in CkptLink : /\ CopyOf(l) \in CkptLink /\ CopyOf(l).key = <<t, l.key[2]>>
                          /\ CopyOf(l).ns = l.ns /\ CopyOf(l).id = l.id
  BY DEF CkptLink, Key
<1>3. \A c \in Checkpoint : /\ MovedTo(c) \in Checkpoint /\ MovedTo(c).thread = t
                            /\ MovedTo(c).ns = c.ns /\ MovedTo(c).id = c.id
  BY DEF Checkpoint
<1> HIDE DEF CopyOf, MovedTo
<1>4. \A u \in CopiedTurns(s) : u \in Turn /\ Stored(<<s, u>>) /\ <<s, u>> \in Key
  BY DEF CopiedTurns, TablesOK, LinksResolve, Key
<1>5. \A u \in CopiedTurns(s) :
        LET row == FreshRow(recipes[<<s, u>>].payload, Nil)
        IN  row \in Row /\ RowOK(row, claims) /\ row.payload # Nil
  <2> SUFFICES ASSUME NEW u \in CopiedTurns(s)
               PROVE  LET row == FreshRow(recipes[<<s, u>>].payload, Nil)
                      IN  row \in Row /\ RowOK(row, claims) /\ row.payload # Nil
    OBVIOUS
  <2>1. recipes[<<s, u>>].payload \in Payload
    BY <1>4 DEF TablesOK, TypeOK, Stored, Row
  <2>2. Nil \notin Payload /\ claims \in Nat
    BY StoreConstants DEF TablesOK, TypeOK
  <2> QED
    BY <2>1, <2>2, FreshRowType DEF RowOK, TablesOK
<1>6. \A k \in Key : recipes'[k] = IF k[1] # t THEN recipes[k]
                                  ELSE IF k[2] \in CopiedTurns(s)
                                       THEN FreshRow(recipes[<<s, k[2]>>].payload, Nil)
                                       ELSE NoRow
  BY <1>1 DEF CopiedRecipes
<1>7. ASSUME NEW k \in Key PROVE RowOK(recipes'[k], claims)
  <2>1. RowOK(NoRow, claims)
    BY NoRowType, StoreConstants DEF RowOK, TablesOK, TypeOK
  <2>2. RowOK(recipes[k], claims)
    BY RowsOK DEF TablesOK
  <2>3. k[2] \in CopiedTurns(s) => RowOK(FreshRow(recipes[<<s, k[2]>>].payload, Nil), claims)
    BY <1>5
  <2> QED
    BY <1>6, <2>1, <2>2, <2>3
<1>8. recipes' \in [Key -> Row]
  BY <1>1, <1>6, <1>7 DEF CopiedRecipes, RowOK
<1>9. /\ ckptLinks' \subseteq CkptLink /\ checkpoints' \subseteq Checkpoint
      /\ runLinks' \subseteq RunLink
  BY <1>1, <1>2, <1>3 DEF TablesOK, TypeOK
<1>10. TypeOK'
  BY <1>1, <1>7, <1>8, <1>9 DEF leases, TablesOK, TypeOK, RowOK, Stored
<1>11. ASSUME NEW l \in ckptLinks'
       PROVE  Stored(l.key)' /\ \E c \in checkpoints' : Links(l, c)
  <2>1. CASE l \in ckptLinks /\ l.key[1] # t
    <3>1. PICK c \in checkpoints : Links(l, c)
      BY <2>1 DEF TablesOK, LinksResolve
    <3>2. c \in checkpoints'
      BY <1>1, <2>1, <3>1 DEF Links
    <3>3. l.key \in Key /\ Stored(l.key)
      BY <2>1 DEF TablesOK, TypeOK, CkptLink, LinksResolve
    <3> QED
      BY <1>6, <2>1, <3>1, <3>2, <3>3 DEF Stored
  <2>2. ASSUME NEW m \in ckptLinks, m.key[1] = s, l = CopyOf(m)
        PROVE  Stored(l.key)' /\ \E c \in checkpoints' : Links(l, c)
    <3>1. m \in CkptLink /\ m.key \in Key /\ m.key = <<s, m.key[2]>> /\ m.key[2] \in Turn
      BY <2>2 DEF TablesOK, TypeOK, CkptLink, Key
    <3>2. PICK c \in checkpoints : Links(m, c)
      BY DEF TablesOK, LinksResolve
    <3>3. MovedTo(c) \in checkpoints' /\ Links(l, MovedTo(c))
      BY <1>1, <1>2, <1>3, <2>2, <3>1, <3>2 DEF Links, TablesOK, TypeOK
    <3>4. m.key[2] \in CopiedTurns(s)
      BY <3>1 DEF CopiedTurns
    <3>5. l.key = <<t, m.key[2]>> /\ l.key \in Key
      BY <1>2, <2>2, <3>1 DEF Key
    <3>6. recipes'[l.key] = FreshRow(recipes[<<s, m.key[2]>>].payload, Nil)
      BY <1>6, <3>4, <3>5
    <3> QED
      BY <1>5, <3>3, <3>4, <3>6 DEF Stored
  <2> QED
    BY <1>1, <2>1, <2>2
<1>12. \A l \in runLinks' : Stored(l.key)'
  BY <1>1, <1>6 DEF TablesOK, TypeOK, LinksResolve, Stored, RunLink
<1>13. LinksResolve'
  BY <1>11, <1>12 DEF LinksResolve, Stored, Links
<1> QED
  BY <1>10, <1>13 DEF TablesOK

LEMMA ReconcileTables == ASSUME TablesOK, Reconcile PROVE TablesOK'
<1> DEFINE cl == {l \in ckptLinks : \E c \in checkpoints : Links(l, c)}
           gone == {k \in Unprotected(cl, KeptRunLinks) : OldEnough(k)}
<1>1. /\ ckptLinks' = cl /\ runLinks' = KeptRunLinks /\ recipes' = Without(gone)
      /\ UNCHANGED <<now, checkpoints, leases>>
  BY DEF Reconcile
<1>2. KeptRunLinks \subseteq runLinks
  BY DEF KeptRunLinks
<1>3. TypeOK'
  BY <1>1, <1>2, WithoutType DEF TablesOK, TypeOK, leases, RowOK, Stored
<1>4. \A l \in ckptLinks \cup runLinks : l.key \in Key
  BY DEF TablesOK, TypeOK, CkptLink, RunLink
<1>5. \A l \in cl \cup KeptRunLinks : Stored(l.key)'
  BY <1>1, <1>2, <1>4, StoredWithout DEF TablesOK, LinksResolve, Unprotected
<1>6. LinksResolve'
  BY <1>1, <1>5 DEF LinksResolve, Stored, Links
<1> QED
  BY <1>3, <1>6 DEF TablesOK

-----------------------------------------------------------------------------
LEMMA NextTables == TablesOK /\ [Next]_vars => TablesOK'
<1> SUFFICES ASSUME TablesOK, [Next]_vars PROVE TablesOK'
  OBVIOUS
<1>1. CASE Tick
  BY <1>1, TickTables
<1>2. CASE \E k \in Key, p \in Payload, r \in Run \cup {Nil} : CreateOrLoad(k, p, r)
  BY <1>2, CreateTables
<1>3. CASE \E k \in Key, r \in Run : RecordRunLink(k, r)
  BY <1>3, RecordRunLinkTables
<1>4. CASE \E k \in Key : Claim(k)
  BY <1>4, ClaimTables
<1>5. CASE \E tok \in issued : Renew(tok) \/ Release(tok) \/ MarkTerminal(tok)
  BY <1>5, HolderTables
<1>6. CASE \E t \in Thread, ns \in Ns, id \in CkptId, u \in Turn \cup {Nil},
              r \in Run \cup {Nil} : Aput(t, ns, id, u, r)
  BY <1>6, AputTables
<1>7. CASE \E threads \in SUBSET Thread : threads # {} /\ Prune(threads)
  BY <1>7, DropTables DEF Prune
<1>8. CASE \E runs \in SUBSET Run : runs # {} /\ DeleteForRuns(runs)
  BY <1>8, DropTables DEF DeleteForRuns
<1>9. CASE \E t \in Thread : DeleteThread(t)
  BY <1>9, DeleteThreadTables
<1>10. CASE \E s, t \in Thread : CopyThread(s, t)
  BY <1>10, CopyTables
<1>11. CASE Reconcile
  BY <1>11, ReconcileTables
<1>12. CASE UNCHANGED vars
  BY <1>12 DEF vars, TablesOK, TypeOK, LinksResolve, Stored, Links
<1> QED
  BY <1>1, <1>2, <1>3, <1>4, <1>5, <1>6, <1>7, <1>8, <1>9, <1>10, <1>11, <1>12 DEF Next

\* The tables keep their types: every row has a whole lease or none, an absent
\* recipe has no columns, and fences count the leases granted.
THEOREM TypeCorrect == Spec => []TypeOK
<1>1. TablesOK => TypeOK
  BY DEF TablesOK
<1> QED
  BY <1>1, InitTables, NextTables, PTL DEF Spec

\* Every operation that deletes a recipe or a checkpoint takes the links along.
THEOREM LinksAlwaysResolve == Spec => []LinksResolve
<1>1. TablesOK => LinksResolve
  BY DEF TablesOK
<1> QED
  BY <1>1, InitTables, NextTables, PTL DEF Spec

-----------------------------------------------------------------------------
(***************************************************************************)
(* ResumableHasRecipe.  Since links resolve, it is enough that each        *)
(* resumable checkpoint has its link.  A link names a checkpoint by        *)
(* thread, namespace and id only: deleting one checkpoint must not take    *)
(* another one's link, hence the primary key of the checkpoint table.      *)
(***************************************************************************)
OneCheckpoint == \A c, d \in checkpoints : SameCheckpoint(c, d) => c = d

ResumableLinked == \A c \in checkpoints : c.resumable => LinkOf(c) \in ckptLinks

StoreOK == TablesOK /\ OneCheckpoint /\ ResumableLinked

LEMMA ResumableStored == StoreOK => ResumableHasRecipe
BY DEF StoreOK, ResumableLinked, ResumableHasRecipe, TablesOK, LinksResolve, LinkOf

LEMMA LinksOwn ==
  \A c, d \in Checkpoint : Links(LinkOf(c), d) <=> SameCheckpoint(c, d)
BY DEF Links, LinkOf, SameCheckpoint, Checkpoint

LEMMA SameTables ==
  ASSUME OneCheckpoint, ResumableLinked, UNCHANGED <<checkpoints, ckptLinks>>
  PROVE  OneCheckpoint' /\ ResumableLinked'
BY DEF OneCheckpoint, ResumableLinked

LEMMA AputLinks ==
  ASSUME StoreOK, NEW t \in Thread, NEW ns \in Ns, NEW id \in CkptId,
         NEW u \in Turn \cup {Nil}, NEW r \in Run \cup {Nil}, Aput(t, ns, id, u, r)
  PROVE  OneCheckpoint' /\ ResumableLinked'
<1> DEFINE c == [thread |-> t, ns |-> ns, id |-> id, turn |-> u, run |-> r,
                 resumable |-> u # Nil /\ Stored(<<t, u>>)]
<1>1. /\ checkpoints' = {d \in checkpoints : ~SameCheckpoint(c, d)} \cup {c}
      /\ ckptLinks' = LinksWith(c)
  BY DEF Aput
<1>2. c \in Checkpoint /\ checkpoints \subseteq Checkpoint
  BY DEF Checkpoint, StoreOK, TablesOK, TypeOK
<1> HIDE DEF c
<1>3. OneCheckpoint'
  BY <1>1 DEF StoreOK, OneCheckpoint, SameCheckpoint
<1>4. ASSUME NEW d \in checkpoints, ~SameCheckpoint(c, d), d.resumable
      PROVE  LinkOf(d) \in ckptLinks'
  <2>1. LinkOf(d) \in ckptLinks
    BY <1>4 DEF StoreOK, ResumableLinked
  <2>2. ~Links(LinkOf(d), c)
    BY <1>2, <1>4, LinksOwn DEF SameCheckpoint
  <2> QED
    BY <1>1, <2>1, <2>2 DEF LinksWith
<1>5. c.resumable => LinkOf(c) \in ckptLinks'
  BY <1>1 DEF LinksWith
<1>6. ResumableLinked'
  BY <1>1, <1>4, <1>5 DEF ResumableLinked
<1> QED
  BY <1>3, <1>6

LEMMA DropLinks ==
  ASSUME StoreOK, NEW gone \in SUBSET checkpoints, NEW rl, DropCheckpoints(gone, rl)
  PROVE  OneCheckpoint' /\ ResumableLinked'
<1>1. /\ checkpoints' = checkpoints \ gone
      /\ ckptLinks' = {l \in ckptLinks : ~\E c \in gone : Links(l, c)}
  BY DEF DropCheckpoints
<1>2. OneCheckpoint'
  BY <1>1 DEF StoreOK, OneCheckpoint, SameCheckpoint
<1>3. ASSUME NEW c \in checkpoints \ gone, NEW d \in gone, Links(LinkOf(c), d)
      PROVE  FALSE
  BY <1>3, LinksOwn DEF StoreOK, OneCheckpoint, TablesOK, TypeOK
<1>4. ResumableLinked'
  BY <1>1, <1>3 DEF StoreOK, ResumableLinked
<1> QED
  BY <1>2, <1>4

LEMMA DeleteThreadLinks ==
  ASSUME StoreOK, NEW t \in Thread, DeleteThread(t)
  PROVE  OneCheckpoint' /\ ResumableLinked'
BY DEF DeleteThread, StoreOK, OneCheckpoint, ResumableLinked, SameCheckpoint, LinkOf

LEMMA CopyLinks ==
  ASSUME StoreOK, NEW s \in Thread, NEW t \in Thread, CopyThread(s, t)
  PROVE  OneCheckpoint' /\ ResumableLinked'
<1> DEFINE CopyOf(l) == [l EXCEPT !.key = <<t, l.key[2]>>]
           MovedTo(c) == [c EXCEPT !.thread = t]
<1>1. /\ checkpoints' = {c \in checkpoints : c.thread # t}
                           \cup {MovedTo(c) : c \in {d \in checkpoints : d.thread = s}}
      /\ ckptLinks' = {l \in ckptLinks : l.key[1] # t}
                        \cup {CopyOf(l) : l \in {m \in ckptLinks : m.key[1] = s}}
  BY DEF CopyThread
<1>2. \A c \in Checkpoint : /\ MovedTo(c).thread = t /\ MovedTo(c).ns = c.ns
                            /\ MovedTo(c).id = c.id /\ MovedTo(c).resumable = c.resumable
  BY DEF Checkpoint
<1>3. \A c \in Checkpoint : CopyOf(LinkOf(c)) = LinkOf(MovedTo(c))
  BY DEF Checkpoint, LinkOf
<1>4. \A c : LinkOf(c).key[1] = c.thread
  BY DEF LinkOf
<1>5. checkpoints \subseteq Checkpoint
  BY DEF StoreOK, TablesOK, TypeOK
<1> HIDE DEF CopyOf, MovedTo
<1>6. OneCheckpoint'
  <2> SUFFICES ASSUME NEW c \in checkpoints', NEW d \in checkpoints', SameCheckpoint(c, d)
               PROVE  c = d
    BY DEF OneCheckpoint, SameCheckpoint
  <2>1. CASE c \in checkpoints /\ d \in checkpoints
    BY <2>1 DEF StoreOK, OneCheckpoint
  <2>2. ASSUME NEW x \in checkpoints, NEW y \in checkpoints, x.thread = s, y.thread = s,
               c = MovedTo(x), d = MovedTo(y)
        PROVE  c = d
    BY <1>2, <1>5, <2>2 DEF SameCheckpoint, StoreOK, OneCheckpoint
  <2> QED
    BY <1>1, <1>2, <1>5, <2>1, <2>2 DEF SameCheckpoint
<1>7. ASSUME NEW c \in checkpoints', c.resumable
      PROVE  LinkOf(c) \in ckptLinks'
  <2>1. CASE c \in checkpoints /\ c.thread # t
    BY <1>1, <1>4, <1>7, <2>1 DEF StoreOK, ResumableLinked
  <2>2. ASSUME NEW x \in checkpoints, x.thread = s, c = MovedTo(x)
        PROVE  LinkOf(c) \in ckptLinks'
    <3>1. LinkOf(x) \in ckptLinks /\ LinkOf(x).key[1] = s
      BY <1>2, <1>4, <1>5, <1>7, <2>2 DEF StoreOK, ResumableLinked
    <3> QED
      BY <1>1, <1>3, <1>5, <2>2, <3>1
  <2> QED
    BY <1>1, <2>1, <2>2
<1>8. ResumableLinked'
  BY <1>7 DEF ResumableLinked
<1> QED
  BY <1>6, <1>8

LEMMA ReconcileLinks ==
  ASSUME StoreOK, Reconcile
  PROVE  OneCheckpoint' /\ ResumableLinked'
BY LinksOwn
DEF Reconcile, StoreOK, OneCheckpoint, ResumableLinked, SameCheckpoint, TablesOK, TypeOK

LEMMA NextStore == StoreOK /\ [Next]_vars => StoreOK'
<1> SUFFICES ASSUME StoreOK, [Next]_vars PROVE StoreOK'
  OBVIOUS
<1>1. TablesOK'
  BY NextTables DEF StoreOK
<1>2. CASE UNCHANGED <<checkpoints, ckptLinks>>
  BY <1>1, <1>2, SameTables DEF StoreOK
<1>3. CASE \E t \in Thread, ns \in Ns, id \in CkptId, u \in Turn \cup {Nil},
              r \in Run \cup {Nil} : Aput(t, ns, id, u, r)
  BY <1>1, <1>3, AputLinks DEF StoreOK
<1>4. CASE \E threads \in SUBSET Thread : Prune(threads)
  BY <1>1, <1>4, DropLinks DEF Prune, StoreOK
<1>5. CASE \E runs \in SUBSET Run : DeleteForRuns(runs)
  BY <1>1, <1>5, DropLinks DEF DeleteForRuns, StoreOK
<1>6. CASE \E t \in Thread : DeleteThread(t)
  BY <1>1, <1>6, DeleteThreadLinks DEF StoreOK
<1>7. CASE \E s, t \in Thread : CopyThread(s, t)
  BY <1>1, <1>7, CopyLinks DEF StoreOK
<1>8. CASE Reconcile
  BY <1>1, <1>8, ReconcileLinks DEF StoreOK
<1> QED
  BY <1>2, <1>3, <1>4, <1>5, <1>6, <1>7, <1>8
  DEF Next, Tick, tables, CreateOrLoad, RecordRunLink, Claim, Renew, Release, MarkTerminal, vars

\* A retained checkpoint written under a recipe keeps its recipe, through every
\* pruning, rollback, copy, deletion and reconciliation of any thread.
THEOREM ResumableAlwaysHasRecipe == Spec => []ResumableHasRecipe
<1>1. Init => StoreOK
  BY InitTables DEF Init, StoreOK, OneCheckpoint, ResumableLinked
<1> QED
  BY <1>1, NextStore, ResumableStored, PTL DEF Spec

-----------------------------------------------------------------------------
(***************************************************************************)
(* The lease of a recipe implements FencedLease, and what a lease and a    *)
(* run link protect.  All of it rests on TablesOK and on one more fact: a  *)
(* token's owner id was drawn at a claim that has happened, so the next    *)
(* claim's token is new, however often the fence of the recipe restarted   *)
(* from zero.                                                              *)
(***************************************************************************)

OwnersDrawn == \A tok \in issued : tok.owner <= claims

LeaseOK == TablesOK /\ OwnersDrawn

LEMMA NextLeaseOK == LeaseOK /\ [Next]_vars => LeaseOK'
<1> SUFFICES ASSUME LeaseOK, [Next]_vars PROVE LeaseOK'
  OBVIOUS
<1>1. TablesOK'
  BY NextTables DEF LeaseOK
<1>2. ASSUME NEW k \in Key, Claim(k) PROVE OwnersDrawn'
  BY <1>2 DEF Claim, LeaseOK, OwnersDrawn, TablesOK, TypeOK, Token
<1>3. ASSUME UNCHANGED leases PROVE OwnersDrawn'
  BY <1>3 DEF leases, LeaseOK, OwnersDrawn
<1>4. (\E k \in Key : Claim(k)) \/ UNCHANGED leases
  <2>1. CASE UNCHANGED vars
    BY <2>1 DEF vars, leases
  <2>2. /\ Tick => UNCHANGED leases
        /\ Reconcile => UNCHANGED leases
        /\ \A k, p, r : CreateOrLoad(k, p, r) => UNCHANGED leases
        /\ \A k, r : RecordRunLink(k, r) => UNCHANGED leases
    BY DEF Tick, Reconcile, CreateOrLoad, RecordRunLink
  <2>3. \A tok : Renew(tok) \/ Release(tok) \/ MarkTerminal(tok) => UNCHANGED leases
    BY DEF Renew, Release, MarkTerminal
  <2>4. /\ \A t, ns, id, u, r : Aput(t, ns, id, u, r) => UNCHANGED leases
        /\ \A gone, rl : DropCheckpoints(gone, rl) => UNCHANGED leases
    BY DEF Aput, DropCheckpoints
  <2>5. /\ \A s : Prune(s) => UNCHANGED leases
        /\ \A s : DeleteForRuns(s) => UNCHANGED leases
    BY <2>4 DEF Prune, DeleteForRuns
  <2>6. /\ \A t : DeleteThread(t) => UNCHANGED leases
        /\ \A s, t : CopyThread(s, t) => UNCHANGED leases
    BY DEF DeleteThread, CopyThread
  <2> QED
    BY <2>1, <2>2, <2>3, <2>4, <2>5, <2>6 DEF Next
<1> QED
  BY <1>1, <1>2, <1>3, <1>4 DEF LeaseOK

-----------------------------------------------------------------------------
(***************************************************************************)
(* Only a claim puts a token in force: any other step leaves each recipe's *)
(* holder or ends its lease.                                               *)
(***************************************************************************)
HolderKept(k) == HolderOf(k)' \in {Nil, HolderOf(k)}

LEMMA RowKeepsHolder ==
  ASSUME NEW k \in Key,
         \/ recipes'[k].owner = NoOwner
         \/ recipes'[k].payload = Nil
         \/ /\ recipes'[k].owner = recipes[k].owner
            /\ recipes'[k].fence = recipes[k].fence
            /\ Stored(k) /\ (Live(k)' => Live(k))
  PROVE  HolderKept(k)
BY DEF HolderKept, HolderOf, Stored

LEMMA SameRowKeepsHolder ==
  ASSUME NEW k \in Key, recipes'[k] = recipes[k], now' = now
  PROVE  HolderKept(k)
BY DEF HolderKept, HolderOf, Stored, Live

LEMMA NoRowKeepsHolder ==
  ASSUME NEW k \in Key, recipes'[k] = NoRow
  PROVE  HolderKept(k)
BY RowKeepsHolder, NoRowType

LEMMA TickHolders == ASSUME TablesOK, Tick PROVE \A k \in Key : HolderKept(k)
<1> SUFFICES ASSUME NEW k \in Key PROVE HolderKept(k)
  OBVIOUS
<1>1. recipes' = recipes /\ now' = now + 1 /\ now \in Nat
  BY StoreConstants DEF Tick, tables, TablesOK, TypeOK
<1>2. recipes[k].expires \in Nat \cup {NoTime}
  BY DEF TablesOK, TypeOK, Row
<1>3. Live(k)' => Live(k)
  BY <1>1, <1>2 DEF Live, NoTime
<1> QED
  BY <1>1, <1>3, RowKeepsHolder DEF Stored, HolderKept, HolderOf

LEMMA CreateHolders ==
  ASSUME TablesOK, NEW k \in Key, NEW p \in Payload, NEW r \in Run \cup {Nil},
         CreateOrLoad(k, p, r)
  PROVE  \A j \in Key : HolderKept(j)
<1> SUFFICES ASSUME NEW j \in Key PROVE HolderKept(j)
  OBVIOUS
<1>1. recipes'[j] = recipes[j] \/ recipes'[j] = FreshRow(p, r)
  BY DEF CreateOrLoad, TablesOK, TypeOK
<1>2. now' = now
  BY DEF CreateOrLoad
<1> QED
  BY <1>1, <1>2, FreshRowType, RowKeepsHolder, SameRowKeepsHolder DEF TablesOK

LEMMA HolderHolders ==
  ASSUME TablesOK, NEW tok \in issued, Renew(tok) \/ Release(tok) \/ MarkTerminal(tok)
  PROVE  \A k \in Key : HolderKept(k)
<1> SUFFICES ASSUME NEW k \in Key PROVE HolderKept(k)
  OBVIOUS
<1>1. /\ tok.key \in Key /\ Stored(tok.key) /\ Live(tok.key) /\ now' = now
      /\ recipes[tok.key] \in Row
  BY DEF TablesOK, TypeOK, Token, Renew, Release, MarkTerminal, Holds
<1>2. CASE k # tok.key
  BY <1>1, <1>2, SameRowKeepsHolder DEF Renew, Release, MarkTerminal, TablesOK, TypeOK
<1>3. CASE k = tok.key /\ Renew(tok)
  BY <1>1, <1>3, RowKeepsHolder DEF Renew, Renewed, TablesOK, TypeOK, Row
<1>4. CASE k = tok.key /\ Release(tok)
  BY <1>1, <1>4, RowKeepsHolder DEF Release, Released, TablesOK, TypeOK, Row
<1>5. CASE k = tok.key /\ MarkTerminal(tok)
  BY <1>1, <1>5, RowKeepsHolder DEF MarkTerminal, Marked, TablesOK, TypeOK, Row, Live
<1> QED
  BY <1>2, <1>3, <1>4, <1>5

LEMMA WithoutHolders ==
  ASSUME NEW gone, recipes' = Without(gone), now' = now
  PROVE  \A k \in Key : HolderKept(k)
BY NoRowKeepsHolder, SameRowKeepsHolder DEF Without

LEMMA DeleteThreadHolders ==
  ASSUME NEW t \in Thread, DeleteThread(t)
  PROVE  \A k \in Key : HolderKept(k)
BY NoRowKeepsHolder, SameRowKeepsHolder DEF DeleteThread

LEMMA CopyHolders ==
  ASSUME TablesOK, NEW s \in Thread, NEW t \in Thread, CopyThread(s, t)
  PROVE  \A k \in Key : HolderKept(k)
<1> SUFFICES ASSUME NEW k \in Key PROVE HolderKept(k)
  OBVIOUS
<1>1. /\ now' = now
      /\ \/ recipes'[k] = recipes[k] \/ recipes'[k] = NoRow
         \/ recipes'[k] = FreshRow(recipes[<<s, k[2]>>].payload, Nil)
  BY DEF CopyThread, CopiedRecipes
<1>2. \A p : FreshRow(p, Nil).owner = NoOwner
  BY DEF FreshRow
<1> QED
  BY <1>1, <1>2, NoRowKeepsHolder, SameRowKeepsHolder, RowKeepsHolder

LEMMA NextHolders ==
  ASSUME TablesOK, Next
  PROVE  \/ \E k \in Key : Claim(k)
         \/ UNCHANGED issued /\ \A k \in Key : HolderKept(k)
<1>1. CASE Tick
  BY <1>1, TickHolders DEF Tick, leases
<1>2. ASSUME NEW k \in Key, NEW p \in Payload, NEW r \in Run \cup {Nil}, CreateOrLoad(k, p, r)
      PROVE  UNCHANGED issued /\ \A j \in Key : HolderKept(j)
  BY <1>2, CreateHolders DEF CreateOrLoad, leases
<1>3. ASSUME NEW tok \in issued, Renew(tok) \/ Release(tok) \/ MarkTerminal(tok)
      PROVE  UNCHANGED issued /\ \A j \in Key : HolderKept(j)
  BY <1>3, HolderHolders DEF Renew, Release, MarkTerminal, leases
<1>4. ASSUME UNCHANGED <<now, recipes, leases>>
      PROVE  UNCHANGED issued /\ \A j \in Key : HolderKept(j)
  BY <1>4, SameRowKeepsHolder DEF leases
<1>5. ASSUME NEW gone, recipes' = Without(gone), UNCHANGED <<now, leases>>
      PROVE  UNCHANGED issued /\ \A j \in Key : HolderKept(j)
  BY <1>5, WithoutHolders DEF leases
<1>6. ASSUME NEW t \in Thread, DeleteThread(t)
      PROVE  UNCHANGED issued /\ \A j \in Key : HolderKept(j)
  BY <1>6, DeleteThreadHolders DEF DeleteThread, leases
<1>7. ASSUME NEW s \in Thread, NEW t \in Thread, CopyThread(s, t)
      PROVE  UNCHANGED issued /\ \A j \in Key : HolderKept(j)
  BY <1>7, CopyHolders DEF CopyThread, leases
<1>8. ASSUME NEW k \in Key, NEW r \in Run, RecordRunLink(k, r)
      PROVE  UNCHANGED <<now, recipes, leases>>
  BY <1>8 DEF RecordRunLink
<1>9. ASSUME NEW t \in Thread, NEW ns \in Ns, NEW id \in CkptId, NEW u \in Turn \cup {Nil},
             NEW r \in Run \cup {Nil}, Aput(t, ns, id, u, r)
      PROVE  UNCHANGED <<now, recipes, leases>>
  BY <1>9 DEF Aput
<1>10. ASSUME NEW gone, NEW rl, DropCheckpoints(gone, rl)
       PROVE  \E out : recipes' = Without(out) /\ UNCHANGED <<now, leases>>
  BY <1>10 DEF DropCheckpoints
<1>11. CASE Reconcile
  <2>1. \E out : recipes' = Without(out) /\ UNCHANGED <<now, leases>>
    BY <1>11 DEF Reconcile
  <2> QED
    BY <1>5, <2>1
<1>12. ASSUME NEW gone, NEW rl, DropCheckpoints(gone, rl)
       PROVE  UNCHANGED issued /\ \A j \in Key : HolderKept(j)
  BY <1>5, <1>10, <1>12
<1>13. CASE \E threads \in SUBSET Thread : threads # {} /\ Prune(threads)
  BY <1>12, <1>13 DEF Prune
<1>14. CASE \E runs \in SUBSET Run : runs # {} /\ DeleteForRuns(runs)
  BY <1>12, <1>14 DEF DeleteForRuns
<1> QED
  BY <1>1, <1>2, <1>3, <1>4, <1>6, <1>7, <1>8, <1>9, <1>11, <1>13, <1>14 DEF Next

(***************************************************************************)
(* A claim hands a lease nobody holds to a token nobody was given.         *)
(***************************************************************************)
LEMMA ClaimGrants ==
  ASSUME LeaseOK, NEW k \in Key, Claim(k)
  PROVE  \E tok \in Token : Lease!Grant(tok)
<1> DEFINE tok == [key |-> k, owner |-> claims + 1, fence |-> recipes[k].fence + 1]
           row == recipes'[k]
<1>1. /\ TypeOK /\ tok \in issued' /\ issued' \subseteq Token
      /\ now \in Nat /\ claims \in Nat /\ LeaseDuration \in Nat \ {0}
      /\ recipes[k] \in Row /\ recipes[k].fence \in Nat
  <2>1. TablesOK /\ TablesOK'
    BY ClaimTables DEF LeaseOK
  <2>2. tok \in issued'
    BY DEF Claim
  <2>3. recipes[k] \in Row /\ now \in Nat /\ claims \in Nat
    BY <2>1, StoreConstants DEF TablesOK, TypeOK
  <2>4. recipes[k].fence \in Nat
    BY <2>3 DEF Row
  <2>5. TypeOK /\ issued' \subseteq Token
    BY <2>1 DEF TablesOK, TypeOK
  <2> QED
    BY <2>2, <2>3, <2>4, <2>5, StoreConstants
<1>2. tok \in Token /\ tok.key = k
  BY <1>1
<1>3. HolderOf(k) = Nil
  BY DEF Claim, Claimable, HolderOf
<1>4. tok \notin issued
  <2>1. tok.owner = claims + 1 /\ ~(claims + 1 <= claims)
    BY <1>1
  <2> QED
    BY <2>1 DEF LeaseOK, OwnersDrawn
<1>5. \A j \in Key : j # k => HolderOf(j)' = HolderOf(j)
  BY <1>1 DEF Claim, HolderOf, Stored, Live, TypeOK
<1>6. row = Claimed(recipes[k]) /\ now' = now /\ recipes[k].payload # Nil
  BY <1>1 DEF Claim, Claimable, Stored, TypeOK
<1>7. /\ row.payload # Nil /\ row.owner = claims + 1 /\ row.expires = now + LeaseDuration
      /\ row.fence = recipes[k].fence + 1
  BY <1>1, <1>6 DEF Claimed, Row
<1>8. HolderOf(k)' = tok
  BY <1>1, <1>6, <1>7 DEF HolderOf, Stored, Live, NoOwner
<1> HIDE DEF tok
<1>9. [j \in Key |-> HolderOf(j)]' = [[j \in Key |-> HolderOf(j)] EXCEPT ![k] = tok]
  BY <1>5, <1>8
<1>10. issued' = issued \cup {tok}
  BY DEF Claim, tok
<1> QED
  BY <1>2, <1>3, <1>4, <1>9, <1>10 DEF Lease!Grant

LEMMA NextLease == LeaseOK /\ [Next]_vars => [Lease!Next]_(Lease!vars)
<1> DEFINE holder == [k \in Key |-> HolderOf(k)]
<1> SUFFICES ASSUME LeaseOK, [Next]_vars
             PROVE  Lease!Next \/ (holder' = holder /\ issued' = issued)
  BY DEF Lease!vars
<1>1. CASE \E k \in Key : Claim(k)
  BY <1>1, ClaimGrants DEF Lease!Next
<1>2. CASE UNCHANGED issued /\ \A k \in Key : HolderKept(k)
  <2> DEFINE ended == {k \in Key : HolderOf(k)' # HolderOf(k)}
  <2>1. \A k \in Key : HolderOf(k)' = IF k \in ended THEN Nil ELSE HolderOf(k)
    BY <1>2 DEF HolderKept
  <2>2. CASE ended = {}
    BY <1>2, <2>1, <2>2
  <2>3. CASE ended # {}
    <3>1. holder' = [k \in Key |-> IF k \in ended THEN Nil ELSE holder[k]]
      BY <2>1
    <3>2. Lease!Lapse(ended)
      BY <1>2, <2>3, <3>1 DEF Lease!Lapse
    <3> QED
      BY <3>2 DEF Lease!Next
  <2> QED
    BY <2>2, <2>3
<1>3. CASE UNCHANGED vars
  BY <1>3 DEF vars, HolderOf, Stored, Live
<1> QED
  BY <1>1, <1>2, <1>3, NextHolders DEF LeaseOK

\* The store's leases are fenced leases, for any number of recipes, claims,
\* copies and deletions.
THEOREM StoreImplementsFencedLease == Spec => ImplementsFencedLease
<1>1. Init => LeaseOK /\ Lease!Init
  <2>1. Init => LeaseOK
    BY InitTables DEF Init, LeaseOK, OwnersDrawn
  <2>2. Init => \A k \in Key : HolderOf(k) = Nil
    BY NoRowType DEF Init, HolderOf, Stored
  <2>3. Init => Lease!Init
    BY <2>2 DEF Init, Lease!Init
  <2> QED
    BY <2>1, <2>3
<1> QED
  BY <1>1, NextLeaseOK, NextLease, PTL DEF Spec, ImplementsFencedLease, Lease!Spec

\* Whoever holds a lease was granted it, for the recipe it is the lease of.
HoldersGranted ==
  /\ Lease!TypeOK
  /\ \A tok \in issued : tok.key \in Key
  /\ \A k \in Key : HolderOf(k) # Nil => HolderOf(k) \in issued /\ HolderOf(k).key = k

LEMMA NextHoldersGranted == HoldersGranted /\ [Lease!Next]_(Lease!vars) => HoldersGranted'
<1> DEFINE holder == [k \in Key |-> HolderOf(k)]
<1> SUFFICES ASSUME HoldersGranted, [Lease!Next]_(Lease!vars) PROVE HoldersGranted'
  OBVIOUS
<1>1. ASSUME NEW k \in Key PROVE holder[k] = HolderOf(k) /\ holder'[k] = HolderOf(k)'
  OBVIOUS
<1>2. ASSUME NEW tok \in Token, Lease!Grant(tok) PROVE HoldersGranted'
  <2>1. /\ tok.key \in Key /\ issued' = issued \cup {tok}
        /\ holder' = [holder EXCEPT ![tok.key] = tok]
    BY <1>2 DEF Lease!Grant
  <2>2. \A k \in Key : HolderOf(k)' = IF k = tok.key THEN tok ELSE HolderOf(k)
    BY <1>1, <2>1
  <2> QED
    BY <2>1, <2>2 DEF HoldersGranted, Lease!TypeOK
<1>3. ASSUME NEW keys \in SUBSET Key, Lease!Lapse(keys) PROVE HoldersGranted'
  <2>1. /\ issued' = issued
        /\ holder' = [k \in Key |-> IF k \in keys THEN Nil ELSE holder[k]]
    BY <1>3 DEF Lease!Lapse
  <2>2. \A k \in Key : HolderOf(k)' = IF k \in keys THEN Nil ELSE HolderOf(k)
    BY <1>1, <2>1
  <2> QED
    BY <2>1, <2>2 DEF HoldersGranted, Lease!TypeOK
<1>4. CASE UNCHANGED Lease!vars
  <2>1. issued' = issued /\ \A k \in Key : HolderOf(k)' = HolderOf(k)
    BY <1>1, <1>4 DEF Lease!vars
  <2> QED
    BY <2>1 DEF HoldersGranted, Lease!TypeOK
<1> QED
  BY <1>2, <1>3, <1>4 DEF Lease!Next

LEMMA InitHoldersGranted == Lease!Init => HoldersGranted
<1> SUFFICES ASSUME Lease!Init PROVE HoldersGranted
  OBVIOUS
<1>1. issued = {} /\ \A k \in Key : HolderOf(k) = Nil
  BY DEF Lease!Init
<1> QED
  BY <1>1 DEF HoldersGranted, Lease!TypeOK

\* Every token in force was granted for the recipe whose lease it holds.
THEOREM LeaseTypeCorrect == Spec => []HoldersGranted
BY StoreImplementsFencedLease, InitHoldersGranted, NextHoldersGranted, PTL
DEF ImplementsFencedLease, Lease!Spec

\* A token that was handed out and is no longer in force is never in force
\* again: a worker that lost its lease cannot win it back by waiting.
THEOREM DeadTokensStayDead ==
  ASSUME Nil \notin Token
  PROVE  Spec => Lease!DeadStaysDead
<1> DEFINE holder == [k \in Key |-> HolderOf(k)]
<1>1. ASSUME HoldersGranted, [Lease!Next]_(Lease!vars)
      PROVE  [\A tok \in issued : Lease!Dead(tok) => Lease!Dead(tok)']_(Lease!vars)
  <2> SUFFICES ASSUME Lease!Next, NEW tok \in issued, holder[tok.key] # tok
               PROVE  tok \in issued' /\ holder'[tok.key] # tok
    BY <1>1 DEF Lease!Dead, Lease!vars
  <2>1. tok.key \in Key /\ tok # Nil /\ holder \in [Key -> Token \cup {Nil}]
    BY <1>1 DEF HoldersGranted, Lease!TypeOK
  <2>2. ASSUME NEW new \in Token, Lease!Grant(new) PROVE tok \in issued' /\ holder'[tok.key] # tok
    <3>1. /\ new # tok /\ issued' = issued \cup {new}
          /\ holder' = [holder EXCEPT ![new.key] = new]
      BY <2>2 DEF Lease!Grant
    <3> QED
      BY <2>1, <3>1
  <2>3. ASSUME NEW keys \in SUBSET Key, Lease!Lapse(keys)
        PROVE  tok \in issued' /\ holder'[tok.key] # tok
    <3>1. /\ issued' = issued
          /\ holder' = [k \in Key |-> IF k \in keys THEN Nil ELSE holder[k]]
      BY <2>3 DEF Lease!Lapse
    <3> QED
      BY <2>1, <3>1
  <2> QED
    BY <2>2, <2>3 DEF Lease!Next
<1> QED
  BY <1>1, LeaseTypeCorrect, StoreImplementsFencedLease, PTL
  DEF ImplementsFencedLease, Lease!Spec, Lease!DeadStaysDead

-----------------------------------------------------------------------------
(***************************************************************************)
(* What a lease and a run link protect.                                    *)
(***************************************************************************)
LEMMA LiveIsOwned == ASSUME TypeOK, NEW k \in Key, Live(k) PROVE recipes[k].owner # NoOwner
BY StoreConstants DEF TypeOK, Live, NoTime

LEMMA WithoutKeeps ==
  ASSUME NEW gone, recipes' = Without(gone), NEW k \in Key, k \notin gone
  PROVE  recipes'[k] = recipes[k]
BY DEF Without

\* A recipe under an unexpired lease is deleted with its thread or not at all,
\* and nothing rewrites what its holder reconstructed the turn from.
THEOREM LeasedRecipesFrozen == Spec => LeasedRecipeFrozen
<1> DEFINE SameRecipe(k) == /\ Stored(k)'
                            /\ recipes'[k].payload = recipes[k].payload
                            /\ recipes'[k].origin = recipes[k].origin
                            /\ recipes'[k].created = recipes[k].created
           Kept(k) == DeleteThread(k[1]) \/ SameRecipe(k)
<1>1. ASSUME TablesOK, Next, NEW k \in Key, Stored(k), Live(k) PROVE Kept(k)
  <2>0. TypeOK /\ recipes[k].owner # NoOwner
    BY <1>1, LiveIsOwned DEF TablesOK
  <2>1. recipes'[k] = recipes[k] => SameRecipe(k)
    BY <1>1 DEF Stored
  <2>2. CASE Tick \/ \E j \in Key, r \in Run : RecordRunLink(j, r)
    BY <2>1, <2>2 DEF Tick, tables, RecordRunLink
  <2>3. ASSUME NEW j \in Key, NEW p \in Payload, NEW r \in Run \cup {Nil}, CreateOrLoad(j, p, r)
        PROVE  Kept(k)
    BY <1>1, <2>0, <2>1, <2>3 DEF CreateOrLoad, TypeOK
  <2>4. ASSUME NEW j \in Key, Claim(j) PROVE Kept(k)
    BY <1>1, <2>0, <2>1, <2>4 DEF Claim, Claimable, TypeOK
  <2>5. ASSUME NEW tok \in issued, Renew(tok) \/ Release(tok) \/ MarkTerminal(tok)
        PROVE  Kept(k)
    <3>1. CASE tok.key # k
      BY <2>0, <2>1, <2>5, <3>1 DEF Renew, Release, MarkTerminal, TypeOK
    <3>2. CASE tok.key = k
      <4>1. recipes[k] \in Row
        BY <2>0 DEF TypeOK
      <4>2. recipes'[k] \in {Renewed(recipes[k]), Released(recipes[k]), Marked(recipes[k])}
        BY <2>0, <2>5, <3>2 DEF Renew, Release, MarkTerminal, TypeOK
      <4> QED
        BY <1>1, <4>1, <4>2 DEF Renewed, Released, Marked, Row, Stored
    <3> QED
      BY <3>1, <3>2
  <2>6. ASSUME NEW t \in Thread, NEW ns \in Ns, NEW id \in CkptId, NEW u \in Turn \cup {Nil},
               NEW r \in Run \cup {Nil}, Aput(t, ns, id, u, r)
        PROVE  Kept(k)
    BY <2>1, <2>6 DEF Aput
  <2>7. ASSUME NEW gone, NEW rl, DropCheckpoints(gone, rl) PROVE Kept(k)
    <3>1. \A cl : k \notin Unprotected(cl, rl)
      BY <1>1 DEF Unprotected
    <3> QED
      BY <2>1, <2>7, <3>1, WithoutKeeps DEF DropCheckpoints
  <2>8. CASE \/ \E threads \in SUBSET Thread : Prune(threads)
             \/ \E runs \in SUBSET Run : DeleteForRuns(runs)
    BY <2>7, <2>8 DEF Prune, DeleteForRuns
  <2>9. ASSUME NEW t \in Thread, DeleteThread(t) PROVE Kept(k)
    BY <2>1, <2>9 DEF DeleteThread
  <2>10. ASSUME NEW s \in Thread, NEW t \in Thread, CopyThread(s, t) PROVE Kept(k)
    <3>1. k[1] # t
      <4>1. k = <<k[1], k[2]>> /\ k[2] \in Turn
        BY DEF Key
      <4>2. \A u \in Turn : ~Live(<<t, u>>)
        BY <2>10 DEF CopyThread, Copyable
      <4> QED
        BY <1>1, <4>1, <4>2
    <3> QED
      BY <2>1, <2>10, <3>1 DEF CopyThread, CopiedRecipes
  <2>11. CASE Reconcile
    <3>1. \A cl, rl : k \notin {j \in Unprotected(cl, rl) : OldEnough(j)}
      BY <1>1 DEF Unprotected
    <3> QED
      BY <2>1, <2>11, <3>1, WithoutKeeps DEF Reconcile
  <2> HIDE DEF Kept
  <2> QED
    BY <1>1, <2>2, <2>3, <2>4, <2>5, <2>6, <2>8, <2>9, <2>10, <2>11 DEF Next
<1>2. TablesOK /\ [Next]_vars
        => [\A k \in Key : Stored(k) /\ Live(k) =>
              \/ DeleteThread(k[1])
              \/ /\ Stored(k)'
                 /\ recipes'[k].payload = recipes[k].payload
                 /\ recipes'[k].origin = recipes[k].origin
                 /\ recipes'[k].created = recipes[k].created]_vars
  BY <1>1
<1> QED
  BY <1>2, InitTables, NextTables, PTL DEF Spec, LeasedRecipeFrozen

\* A recent run link keeps its recipe until that run is rolled back or the
\* thread is deleted or overwritten, whatever is pruned or reconciled.
THEOREM RunLinksProtect == Spec => RunLinkProtects
<1> DEFINE Excused(l) == \/ \E runs \in SUBSET Run : l.run \in runs /\ DeleteForRuns(runs)
                         \/ DeleteThread(l.key[1])
                         \/ \E s \in Thread : CopyThread(s, l.key[1])
<1>1. ASSUME TablesOK, Next, NEW l \in runLinks, l.created > now - Retention, ~Stored(l.key)'
      PROVE  Excused(l)
  <2> DEFINE k == l.key
  <2>0. k \in Key /\ Stored(k) /\ TypeOK
    <3>1. TypeOK /\ LinksResolve
      BY <1>1 DEF TablesOK
    <3>2. k \in Key /\ Stored(l.key)
      BY <3>1 DEF TypeOK, RunLink, LinksResolve
    <3> QED
      BY <3>1, <3>2
  <2>1. recipes'[k] # recipes[k]
    BY <1>1, <2>0 DEF Stored
  <2>2. ASSUME Tick \/ \E j \in Key, r \in Run : RecordRunLink(j, r) PROVE FALSE
    BY <2>1, <2>2 DEF Tick, tables, RecordRunLink
  <2>3. ASSUME NEW j \in Key, NEW p \in Payload, NEW r \in Run \cup {Nil}, CreateOrLoad(j, p, r)
        PROVE  FALSE
    BY <2>0, <2>1, <2>3 DEF CreateOrLoad, TypeOK
  <2>4. ASSUME NEW j \in Key, NEW row, row.payload = recipes[j].payload,
               recipes' = [recipes EXCEPT ![j] = row]
        PROVE  FALSE
    BY <1>1, <2>0, <2>4 DEF Stored, TypeOK
  <2>5. ASSUME NEW j \in Key, Claim(j) PROVE FALSE
    <3>1. recipes[j] \in Row
      BY <2>0 DEF TypeOK
    <3>2. Claimed(recipes[j]).payload = recipes[j].payload
      BY <3>1 DEF Claimed, Row
    <3> QED
      BY <2>4, <2>5, <3>2 DEF Claim
  <2>6. ASSUME NEW tok \in issued, Renew(tok) \/ Release(tok) \/ MarkTerminal(tok)
        PROVE  FALSE
    <3> DEFINE row == recipes[tok.key]
    <3>1. tok.key \in Key /\ row \in Row
      BY <2>0 DEF TypeOK, Token
    <3>2. /\ Renewed(row).payload = row.payload /\ Released(row).payload = row.payload
          /\ Marked(row).payload = row.payload
      BY <3>1 DEF Renewed, Released, Marked, Row
    <3> QED
      BY <2>4, <2>6, <3>1, <3>2 DEF Renew, Release, MarkTerminal
  <2>7. ASSUME NEW t \in Thread, NEW ns \in Ns, NEW id \in CkptId, NEW u \in Turn \cup {Nil},
               NEW r \in Run \cup {Nil}, Aput(t, ns, id, u, r)
        PROVE  FALSE
    BY <2>1, <2>7 DEF Aput
  <2>8. ASSUME NEW gone, NEW rl, DropCheckpoints(gone, rl), l \in rl
        PROVE  FALSE
    <3>1. \A cl : k \notin Unprotected(cl, rl)
      BY <2>8 DEF Unprotected
    <3> QED
      BY <2>0, <2>1, <2>8, <3>1, WithoutKeeps DEF DropCheckpoints
  <2>9. ASSUME NEW threads \in SUBSET Thread, Prune(threads) PROVE FALSE
    BY <2>8, <2>9 DEF Prune
  <2>10. ASSUME NEW runs \in SUBSET Run, DeleteForRuns(runs) PROVE Excused(l)
    BY <2>8, <2>10 DEF DeleteForRuns
  <2>11. ASSUME NEW t \in Thread, DeleteThread(t) PROVE Excused(l)
    BY <2>0, <2>1, <2>11 DEF DeleteThread
  <2>12. ASSUME NEW s \in Thread, NEW t \in Thread, CopyThread(s, t) PROVE Excused(l)
    BY <2>0, <2>1, <2>12 DEF CopyThread, CopiedRecipes
  <2>13. ASSUME Reconcile PROVE FALSE
    <3>1. l \in KeptRunLinks
      BY <1>1 DEF KeptRunLinks
    <3>2. \A cl : k \notin {j \in Unprotected(cl, KeptRunLinks) : OldEnough(j)}
      BY <3>1 DEF Unprotected
    <3> QED
      BY <2>0, <2>1, <2>13, <3>2, WithoutKeeps DEF Reconcile
  <2> HIDE DEF Excused
  <2> QED
    BY <1>1, <2>2, <2>3, <2>5, <2>6, <2>7, <2>9, <2>10, <2>11, <2>12, <2>13 DEF Next
<1>2. TablesOK /\ [Next]_vars
        => [\A l \in runLinks :
              l.created > now - Retention /\ ~Stored(l.key)' =>
                \/ \E runs \in SUBSET Run : l.run \in runs /\ DeleteForRuns(runs)
                \/ DeleteThread(l.key[1])
                \/ \E s \in Thread : CopyThread(s, l.key[1])]_vars
  BY <1>1
<1> QED
  BY <1>2, InitTables, NextTables, PTL DEF Spec, RunLinkProtects
=============================================================================
