----------------------------- MODULE RecipeStore -----------------------------
(***************************************************************************)
(* The durable store of tool-agent turn recipes and the checkpoint tables  *)
(* that decide how long a recipe lives.                                    *)
(*                                                                         *)
(* src/rag_agent/runtime/tool_agent_recipe_store.py keeps one immutable    *)
(* recipe per (thread, turn) with a fenced, expiring lease on it;          *)
(* src/rag_agent/runtime/agent_server_checkpointer.py writes, prunes,      *)
(* copies and deletes checkpoints in the same SQLite database and removes  *)
(* the recipes nothing can need any more.  Every public operation of the   *)
(* two classes is one BEGIN IMMEDIATE transaction under the saver's lock,  *)
(* so each is one action here; a call that raises rolls its transaction    *)
(* back, which leaves the tables as they were (SaverTransaction models how *)
(* that is done).                                                          *)
(*                                                                         *)
(* The callers are unconstrained: any worker may call any operation at     *)
(* any time, with any lease token it was ever given.                       *)
(***************************************************************************)
EXTENDS Integers, FiniteSets

CONSTANTS
  Thread,         \* conversation ids
  Turn,           \* ids of human messages, the same in every thread
  Ns,             \* checkpoint namespaces (the graph and its subgraphs)
  CkptId,         \* checkpoint ids; they are ordered by time
  Run,            \* Agent Server run ids
  Payload,        \* canonical recipe JSON, but for the thread, turn and run
  Nil,            \* SQL NULL
  LeaseDuration,  \* DEFAULT_LEASE_DURATION_MS
  OrphanGrace,    \* ORPHAN_RECIPE_GRACE_MS
  Retention,      \* TERMINAL_RECIPE_RETENTION_MS = RUN_LINK_RETENTION_MS
  MaxNow,         \* bound: the clock stops here
  MaxClaims       \* bound: no more than this many leases are granted

ASSUME StoreConstants ==
  /\ CkptId \subseteq Nat
  /\ Nil \notin Payload \cup Run \cup Turn
  /\ {LeaseDuration, OrphanGrace, Retention} \subseteq Nat \ {0}
  /\ LeaseDuration < OrphanGrace /\ OrphanGrace < Retention
  /\ {MaxNow, MaxClaims} \subseteq Nat

VARIABLES
  now,          \* the database clock
  recipes,      \* table tool_agent_turn_recipes, NoRow where there is no row
  checkpoints,  \* table checkpoints of the sqlite saver
  ckptLinks,    \* table tool_agent_turn_checkpoint_links
  runLinks,     \* table tool_agent_turn_run_links
  claims,       \* how many leases were granted: names the random owner ids
  issued        \* every lease token a caller was ever given

tables == <<recipes, checkpoints, ckptLinks, runLinks>>
leases == <<claims, issued>>
vars == <<now, recipes, checkpoints, ckptLinks, runLinks, claims, issued>>

Key == Thread \X Turn

NoTime  == -1  \* a NULL timestamp: like NULL, never greater than now
NoOwner == 0   \* a NULL lease_owner_id

(***************************************************************************)
(* A row keeps what its operations read.  terminal_message_id is NULL      *)
(* exactly when terminal_marked_at_epoch_ms is, so one field stands for    *)
(* both.  The origin_run_id column is written and never read (a recipe's   *)
(* origin is read from its JSON), so it is not a field: origin is the JSON *)
(* one.                                                                    *)
(***************************************************************************)
Row == [payload : Payload \cup {Nil},
        origin  : Run \cup {Nil},
        created : Nat \cup {NoTime},
        owner   : Nat,
        fence   : Nat,
        expires : Nat \cup {NoTime},
        marked  : Nat \cup {NoTime}]

NoRow == [payload |-> Nil, origin |-> Nil, created |-> NoTime,
          owner |-> NoOwner, fence |-> 0, expires |-> NoTime, marked |-> NoTime]

FreshRow(p, r) ==
  [payload |-> p, origin |-> r, created |-> now,
   owner |-> NoOwner, fence |-> 0, expires |-> NoTime, marked |-> NoTime]

(***************************************************************************)
(* A checkpoint's turn is the id of its latest human message.  resumable   *)
(* is a history field the program does not keep: whether the turn's recipe *)
(* existed when the checkpoint was written, so that resuming from it needs *)
(* the recipe.                                                             *)
(***************************************************************************)
Checkpoint == [thread : Thread, ns : Ns, id : CkptId,
               turn : Turn \cup {Nil}, run : Run \cup {Nil},
               resumable : BOOLEAN]

CkptLink == [key : Key, ns : Ns, id : CkptId]
RunLink  == [key : Key, run : Run, created : Nat]
Token    == [key : Key, owner : 1..MaxClaims, fence : 1..MaxClaims]

-----------------------------------------------------------------------------
Stored(k) == recipes[k].payload # Nil

\* A lease the SQL calls unexpired: lease_expires_at_epoch_ms > now.
Live(k) == recipes[k].expires > now

\* The WHERE clause of every lease mutation, after two faulty ones: one forgets
\* the expiry, one trusts the fence alone.
HoldsByFence(tok) ==
  /\ Stored(tok.key)
  /\ recipes[tok.key].fence = tok.fence
  /\ Live(tok.key)

HoldsDespiteExpiry(tok) ==
  /\ Stored(tok.key)
  /\ recipes[tok.key].owner = tok.owner
  /\ recipes[tok.key].fence = tok.fence

Holds(tok) ==
  /\ Stored(tok.key)
  /\ recipes[tok.key].owner = tok.owner
  /\ recipes[tok.key].fence = tok.fence
  /\ Live(tok.key)

\* Link l is the one of checkpoint c.
Links(l, c) == l.key[1] = c.thread /\ l.ns = c.ns /\ l.id = c.id

LinkOf(c) == [key |-> <<c.thread, c.turn>>, ns |-> c.ns, id |-> c.id]

SameCheckpoint(c, d) == c.thread = d.thread /\ c.ns = d.ns /\ c.id = d.id

\* INSERT OR IGNORE into the run links.
WithRunLink(k, r) ==
  IF \E l \in runLinks : l.key = k /\ l.run = r
  THEN runLinks
  ELSE runLinks \cup {[key |-> k, run |-> r, created |-> now]}

\* The recipes that neither a checkpoint link, nor a run link, nor a lease
\* protects: what _delete_unreachable_recipes_locked deletes.  The two
\* definitions before it are faulty ones that each forget a clause.
UnprotectedDespiteCheckpoints(cl, rl) ==
  {k \in Key : Stored(k) /\ ~Live(k) /\ ~\E l \in rl : l.key = k}

UnprotectedDespiteRuns(cl, rl) ==
  {k \in Key : Stored(k) /\ ~Live(k) /\ ~\E l \in cl : l.key = k}

Unprotected(cl, rl) ==
  {k \in Key : /\ Stored(k) /\ ~Live(k)
               /\ ~\E l \in cl : l.key = k
               /\ ~\E l \in rl : l.key = k}

\* The recipe table once the rows of a set of keys are deleted.  The callers
\* pass keys no link names, so ON DELETE CASCADE finds nothing more to remove.
Without(gone) == [k \in Key |-> IF k \in gone THEN NoRow ELSE recipes[k]]

-----------------------------------------------------------------------------
Init ==
  /\ now = 0
  /\ recipes = [k \in Key |-> NoRow]
  /\ checkpoints = {} /\ ckptLinks = {} /\ runLinks = {}
  /\ claims = 0 /\ issued = {}

\* Time passes between two transactions.
Tick ==
  /\ now < MaxNow
  /\ now' = now + 1
  /\ UNCHANGED <<tables, leases>>

\* create_or_load: insert the recipe, or find the identical one; either way
\* the run that created the recipe is linked to it.  Any other recipe under
\* the key is a RecipeConflictError, which rolls the insert back.
CreateOrLoad(k, p, r) ==
  /\ \/ /\ ~Stored(k)
        /\ recipes' = [recipes EXCEPT ![k] = FreshRow(p, r)]
     \/ /\ Stored(k) /\ recipes[k].payload = p /\ recipes[k].origin = r
        /\ UNCHANGED recipes
  /\ runLinks' = IF r = Nil THEN runLinks ELSE WithRunLink(k, r)
  /\ UNCHANGED <<now, checkpoints, ckptLinks, leases>>

\* record_run_link: a run that continues the turn; MissingRecipeError when
\* the recipe is gone.
RecordRunLink(k, r) ==
  /\ Stored(k)
  /\ runLinks' = WithRunLink(k, r)
  /\ UNCHANGED <<now, recipes, checkpoints, ckptLinks, leases>>

\* claim: only a recipe without an owner, or with an expired one, changes
\* hands.  The owner id is a fresh uuid4, the fence the next one of the row.
Claimable(k) == Stored(k) /\ (recipes[k].owner = NoOwner \/ ~Live(k))

Claimed(row) ==
  [row EXCEPT !.owner = claims + 1, !.fence = row.fence + 1, !.expires = now + LeaseDuration]

Claim(k) ==
  /\ claims < MaxClaims
  /\ Claimable(k)
  /\ recipes' = [recipes EXCEPT ![k] = Claimed(@)]
  /\ claims' = claims + 1
  /\ issued' = issued \cup {[key |-> k, owner |-> claims + 1, fence |-> recipes[k].fence + 1]}
  /\ UNCHANGED <<now, checkpoints, ckptLinks, runLinks>>

\* renew: a holder pushes its expiry; MissingRecipeError or StaleLeaseError
\* for anybody else.
Renewed(row) == [row EXCEPT !.expires = now + LeaseDuration]

Renew(tok) ==
  /\ Holds(tok)
  /\ recipes' = [recipes EXCEPT ![tok.key] = Renewed(@)]
  /\ UNCHANGED <<now, checkpoints, ckptLinks, runLinks, leases>>

\* A row without its lease: the owner and the expiry go, the fence stays.  The
\* first definition is a faulty one that leaves the expiry.
ReleasedKeepingExpiry(row) == [row EXCEPT !.owner = NoOwner]

Released(row) == [row EXCEPT !.owner = NoOwner, !.expires = NoTime]

Release(tok) ==
  /\ Holds(tok)
  /\ recipes' = [recipes EXCEPT ![tok.key] = Released(@)]
  /\ UNCHANGED <<now, checkpoints, ckptLinks, runLinks, leases>>

\* mark_terminal: record that the turn's terminal message was produced.
Marked(row) == [row EXCEPT !.marked = now]

MarkTerminal(tok) ==
  /\ Holds(tok)
  /\ recipes' = [recipes EXCEPT ![tok.key] = Marked(@)]
  /\ UNCHANGED <<now, checkpoints, ckptLinks, runLinks, leases>>

-----------------------------------------------------------------------------
\* The checkpoint links once c is written: INSERT OR REPLACE deletes the row it
\* replaces and, by ON DELETE CASCADE, that row's links; then
\* _link_checkpoint_locked links c to its turn's recipe if there is one.
LinksWith(c) ==
  {l \in ckptLinks : ~Links(l, c)} \cup IF c.resumable THEN {LinkOf(c)} ELSE {}

\* aput: write a checkpoint, either one newer than the thread has in its
\* namespace or the same one again.
Aput(t, ns, id, u, r) ==
  LET c == [thread |-> t, ns |-> ns, id |-> id, turn |-> u, run |-> r,
            resumable |-> u # Nil /\ Stored(<<t, u>>)]
  IN  /\ \/ \A d \in checkpoints : d.thread = t /\ d.ns = ns => d.id < id
         \/ \E d \in checkpoints : SameCheckpoint(c, d) /\ d.turn = u /\ d.run = r
      /\ checkpoints' = {d \in checkpoints : ~SameCheckpoint(c, d)} \cup {c}
      /\ ckptLinks' = LinksWith(c)
      /\ UNCHANGED <<now, recipes, runLinks, leases>>

\* Delete checkpoints and, by cascade, their links; keep the run links rl; then
\* _delete_unreachable_recipes_locked, which looks at every thread's recipes.
DropCheckpoints(gone, rl) ==
  LET cl == {l \in ckptLinks : ~\E c \in gone : Links(l, c)}
  IN  /\ checkpoints' = checkpoints \ gone
      /\ ckptLinks' = cl
      /\ runLinks' = rl
      /\ recipes' = Without(Unprotected(cl, rl))
      /\ UNCHANGED <<now, leases>>

\* aprune with keep_latest: the newest checkpoint of each namespace stays.
Prune(threads) ==
  DropCheckpoints({c \in checkpoints :
                     /\ c.thread \in threads
                     /\ \E d \in checkpoints : /\ d.thread = c.thread /\ d.ns = c.ns
                                               /\ d.id > c.id},
                  runLinks)

\* aprune with delete is DeleteThread for each thread.
\* adelete_for_runs: the checkpoints the runs wrote, in whatever thread they
\* are now, and the runs' links.
DeleteForRuns(runs) ==
  DropCheckpoints({c \in checkpoints : c.run \in runs},
                  {l \in runLinks : l.run \notin runs})

\* adelete_thread: everything of a thread, leased or not.
DeleteThread(t) ==
  /\ checkpoints' = {c \in checkpoints : c.thread # t}
  /\ ckptLinks' = {l \in ckptLinks : l.key[1] # t}
  /\ runLinks' = {l \in runLinks : l.key[1] # t}
  /\ recipes' = [k \in Key |-> IF k[1] = t THEN NoRow ELSE recipes[k]]
  /\ UNCHANGED <<now, leases>>

\* _copy_recipe_rows_locked: the turns some checkpoint of the source can still
\* resume; their recipes arrive unleased, unmarked and without a run.  The first
\* definition is a faulty one that copies the turns a run is linked to.
CopiedTurnsOfRuns(s) == {u \in Turn : \E l \in runLinks : l.key = <<s, u>>}

CopiedTurns(s) == {u \in Turn : \E l \in ckptLinks : l.key = <<s, u>>}

CopiedRecipes(s, t) ==
  [k \in Key |->
     IF k[1] # t THEN recipes[k]
     ELSE IF k[2] \in CopiedTurns(s)
          THEN FreshRow(recipes[<<s, k[2]>>].payload, Nil)
          ELSE NoRow]

\* _assert_copyable_thread_locked, after a faulty one that checks the source
\* thread only.
CopyableSource(s, t) == \A u \in Turn : ~Live(<<s, u>>)

Copyable(s, t) == \A u \in Turn : ~Live(<<s, u>>) /\ ~Live(<<t, u>>)

\* acopy_thread: replace a thread by a copy of another, unless a worker holds
\* a lease in either (RuntimeError, and nothing happens).
CopyThread(s, t) ==
  /\ s # t
  /\ Copyable(s, t)
  /\ checkpoints' = {c \in checkpoints : c.thread # t}
                      \cup {[c EXCEPT !.thread = t] : c \in {d \in checkpoints : d.thread = s}}
  /\ ckptLinks' = {l \in ckptLinks : l.key[1] # t}
                    \cup {[l EXCEPT !.key = <<t, l.key[2]>>] :
                             l \in {m \in ckptLinks : m.key[1] = s}}
  /\ runLinks' = {l \in runLinks : l.key[1] # t}
  /\ recipes' = CopiedRecipes(s, t)
  /\ UNCHANGED <<now, leases>>

\* reconcile: drop links to checkpoints that are gone and run links past their
\* retention (unless their recipe is leased), then the unprotected recipes
\* that are old enough.
OldEnough(k) ==
  IF recipes[k].marked = NoTime
  THEN recipes[k].created <= now - OrphanGrace
  ELSE recipes[k].marked <= now - Retention

\* The run links reconcile keeps, after a faulty one that keeps them all.
AllRunLinks == runLinks

KeptRunLinks == {l \in runLinks : l.created > now - Retention \/ Live(l.key)}

Reconcile ==
  LET cl == {l \in ckptLinks : \E c \in checkpoints : Links(l, c)}
  IN  /\ ckptLinks' = cl
      /\ runLinks' = KeptRunLinks
      /\ recipes' = Without({k \in Unprotected(cl, KeptRunLinks) : OldEnough(k)})
      /\ UNCHANGED <<now, checkpoints, leases>>

-----------------------------------------------------------------------------
Next ==
  \/ Tick
  \/ \E k \in Key, p \in Payload, r \in Run \cup {Nil} : CreateOrLoad(k, p, r)
  \/ \E k \in Key, r \in Run : RecordRunLink(k, r)
  \/ \E k \in Key : Claim(k)
  \/ \E tok \in issued : Renew(tok) \/ Release(tok) \/ MarkTerminal(tok)
  \/ \E t \in Thread, ns \in Ns, id \in CkptId, u \in Turn \cup {Nil}, r \in Run \cup {Nil} :
       Aput(t, ns, id, u, r)
  \/ \E threads \in SUBSET Thread : threads # {} /\ Prune(threads)
  \/ \E runs \in SUBSET Run : runs # {} /\ DeleteForRuns(runs)
  \/ \E t \in Thread : DeleteThread(t)
  \/ \E s, t \in Thread : CopyThread(s, t)
  \/ Reconcile

Spec == Init /\ [][Next]_vars

(***************************************************************************)
(* Fairness, for the liveness run only.  Time passes, and the task that    *)
(* generate_checkpointer starts reconciles once an interval for as long as *)
(* the server runs.  Nothing obliges a caller to call.                     *)
(***************************************************************************)
FairSpec == Spec /\ WF_vars(Tick) /\ WF_vars(Reconcile)

-----------------------------------------------------------------------------
\* The types, and the NULLs of a row: a lease has an owner and an expiry or
\* neither, no row has no columns, and a fence counts grants.
TypeOK ==
  /\ now \in 0..MaxNow
  /\ recipes \in [Key -> Row]
  /\ \A k \in Key : /\ recipes[k].owner = NoOwner <=> recipes[k].expires = NoTime
                    /\ ~Stored(k) => recipes[k] = NoRow
                    /\ recipes[k].fence <= claims
  /\ checkpoints \subseteq Checkpoint
  /\ ckptLinks \subseteq CkptLink
  /\ runLinks \subseteq RunLink
  /\ claims \in 0..MaxClaims
  /\ issued \subseteq Token

\* No link outlives what it links: a checkpoint link has both its recipe and its
\* checkpoint, a run link its recipe.  The foreign keys promise this as long as
\* every deletion takes its links along.
LinksResolve ==
  /\ \A l \in ckptLinks : Stored(l.key) /\ \E c \in checkpoints : Links(l, c)
  /\ \A l \in runLinks : Stored(l.key)

\* Whoever resumes or time-travels to a retained checkpoint that was written
\* under a recipe finds that recipe: no pruning, rollback, copying or
\* reconciliation, of this or of any other thread, took it away.
ResumableHasRecipe ==
  \A c \in checkpoints : c.resumable => Stored(<<c.thread, c.turn>>) /\ LinkOf(c) \in ckptLinks

\* While a worker's lease runs, the recipe it reconstructed its turn from stays
\* stored and unchanged: pruning, rollback, reconciliation and copies over its
\* thread leave it alone, and only the deletion of its whole thread takes it.
LeasedRecipeFrozen ==
  [][\A k \in Key : Stored(k) /\ Live(k) =>
       \/ DeleteThread(k[1])
       \/ /\ Stored(k)'
          /\ recipes'[k].payload = recipes[k].payload
          /\ recipes'[k].origin = recipes[k].origin
          /\ recipes'[k].created = recipes[k].created]_vars

\* A run that linked itself to a recipe less than the retention ago keeps it:
\* it goes only when that very run is rolled back, or with its whole thread,
\* deleted or overwritten by a copy.
RunLinkProtects ==
  [][\A l \in runLinks :
       l.created > now - Retention /\ ~Stored(l.key)' =>
         \/ \E runs \in SUBSET Run : l.run \in runs /\ DeleteForRuns(runs)
         \/ DeleteThread(l.key[1])
         \/ \E s \in Thread : CopyThread(s, l.key[1])]_vars

(***************************************************************************)
(* The lease of each recipe implements FencedLease.                        *)
(***************************************************************************)
HolderOf(k) ==
  IF Stored(k) /\ recipes[k].owner # NoOwner /\ Live(k)
  THEN [key |-> k, owner |-> recipes[k].owner, fence |-> recipes[k].fence]
  ELSE Nil

Lease == INSTANCE FencedLease
           WITH Key <- Key, Token <- Token, NoToken <- Nil,
                holder <- [k \in Key |-> HolderOf(k)], granted <- issued

\* At most one token is in force per recipe, an unexpired lease never passes to
\* another token, and a token that expired, was released or lost its recipe
\* never comes back, although deleting and recreating or copying a recipe starts
\* its fence from zero again.
ImplementsFencedLease == Lease!Spec

\* A recipe whose last run crashed before its first checkpoint is collected: it
\* does not stay for ever once its run links, its lease and its grace are over.
Abandoned(k) ==
  /\ Stored(k)
  /\ ~\E l \in ckptLinks : l.key = k
  /\ \A l \in runLinks : l.key = k => l.created <= MaxNow - Retention
  /\ recipes[k].expires <= MaxNow
  /\ recipes[k].created <= MaxNow - OrphanGrace
  /\ recipes[k].marked <= MaxNow - Retention

AbandonedCollected == \A k \in Key : Abandoned(k) ~> ~Abandoned(k)
=============================================================================
