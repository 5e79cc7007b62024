------------------------- MODULE ToolAgentTurn_proofs -------------------------
(***************************************************************************)
(* Proofs about ToolAgentTurn: the runs of a turn use the store as its     *)
(* specification allows, so that its theorems hold of them, and a node     *)
(* that succeeds was alone, for every number of runs, starts, claims and   *)
(* rounds and every choice of the durations.                               *)
(*                                                                         *)
(* The argument for the second: only TheKey is claimed, and a row's owner  *)
(* is the last claim's or none.  A release that is accepted names the      *)
(* row's owner, so nobody claimed since.                                   *)
(***************************************************************************)
EXTENDS ToolAgentTurn, RecipeStore_proofs

\* What a run knows wherever it is.
RunOK(s, tokens) ==
  /\ s.tok.key = TheKey
  /\ s.pc \in Leased \cup {"cleanup"} => s.tok \in tokens
  /\ s.pc \notin Ended => s.place.node # "end"
  /\ s.pc \in Unleased => s.ops = 0
  /\ s.pc \in {"begin", "op", "accept"} => s.ops < MaxOps(s.place)
  /\ s.pc = "create" => s.want \in Payload

LastOwner == recipes[TheKey].owner \in {NoOwner, claims}

RunsOK == /\ run \in [Run -> RunState]
          /\ \A r \in Run : RunOK(run[r], issued)

\* A run that resumes never starts at the setup node, which wants a recipe.
SavedOK == /\ saved \in [CkptId -> Place]
           /\ \A c \in checkpoints : saved[c.id].node # "setup"

TurnInv == TablesOK /\ LastOwner /\ RunsOK /\ SavedOK

-----------------------------------------------------------------------------
LEMMA TheKeyIsKey == TheKey \in Key
BY TurnConstants DEF TheKey, Key

\* The state of a run, field by field.
LEMMA StateFields ==
  ASSUME NEW s \in RunState
  PROVE  /\ s.pc \in Pc /\ s.place \in Place /\ s.want \in Payload \cup {Nil}
         /\ s.tok \in Token \cup {NoToken} /\ s.tries \in 0..ClaimAttempts
         /\ s.ops \in 0..3 /\ s.starts \in 0..MaxStarts
         /\ s.linked \in BOOLEAN /\ s.wiped \in BOOLEAN /\ s.late \in BOOLEAN
BY DEF RunState

LEMMA PcChange ==
  ASSUME NEW s \in RunState, NEW pc \in Pc
  PROVE  /\ [s EXCEPT !.pc = pc] \in RunState /\ [s EXCEPT !.pc = pc].pc = pc
         /\ [s EXCEPT !.pc = pc].place = s.place /\ [s EXCEPT !.pc = pc].want = s.want
         /\ [s EXCEPT !.pc = pc].tok = s.tok /\ [s EXCEPT !.pc = pc].ops = s.ops
BY DEF RunState

\* The states of a run that rests, and of one that enters a node.
LEMMA RestingOK ==
  ASSUME NEW s \in RunState, NEW pc \in Ended, NEW tokens
  PROVE  Resting(pc, s.starts) \in RunState /\ RunOK(Resting(pc, s.starts), tokens)
<1>1. /\ Entry \in Place /\ pc \in Pc /\ NoToken.key = TheKey
      /\ pc \notin Leased \cup {"cleanup"} \cup Unleased
      /\ pc \notin {"begin", "op", "accept", "create"}
  BY TurnConstants DEF Entry, Place, Node, Pc, NoToken, Ended, Leased, Unleased
<1>2. s.starts \in 0..MaxStarts /\ 0 \in 0..ClaimAttempts /\ 0 \in 0..3
  BY StateFields DEF ClaimAttempts
<1>3. Resting(pc, s.starts) \in RunState
  BY <1>1, <1>2 DEF Resting, RunState
<1>4. RunOK(Resting(pc, s.starts), tokens)
  BY <1>1 DEF RunOK, Resting
<1> QED  BY <1>3, <1>4

LEMMA EnterOK ==
  ASSUME run \in [Run -> RunState], NEW r \in Run, NEW p \in Place, NEW w \in Payload \cup {Nil},
         p.node # "end", p.node = "setup" => w \in Payload, NEW tokens
  PROVE  /\ Enter(r, p, w) \in RunState /\ RunOK(Enter(r, p, w), tokens)
         /\ Enter(r, p, w).starts = run[r].starts
         /\ Enter(r, p, w).pc \in {"create", "load"}
<1> DEFINE a == IF p.node = "setup" THEN "create" ELSE "load"
<1>1. /\ a \in Pc /\ NoToken.key = TheKey /\ a \notin Leased \cup {"cleanup"}
      /\ a \notin {"begin", "op", "accept"} /\ a = "create" => w \in Payload
  BY DEF Pc, NoToken, Unleased, Leased
<1>2. run[r] \in RunState
  OBVIOUS
<1>3. /\ run[r].starts \in 0..MaxStarts /\ 0 \in 0..ClaimAttempts /\ 0 \in 0..3
      /\ run[r].linked \in BOOLEAN /\ run[r].wiped \in BOOLEAN
  BY <1>2, StateFields DEF ClaimAttempts
<1>4. Enter(r, p, w) \in RunState
  BY <1>1, <1>3 DEF Enter, RunState
<1>5. RunOK(Enter(r, p, w), tokens)
  BY <1>1 DEF RunOK, Enter
<1> QED  BY <1>4, <1>5 DEF Enter

-----------------------------------------------------------------------------
(***************************************************************************)
(* What a step of the store does to the owner of the row and the tokens.   *)
(***************************************************************************)
TokensKept == TablesOK' /\ LastOwner' /\ issued \subseteq issued'
StoreKept == TokensKept /\ checkpoints' \subseteq checkpoints

LEMMA CreateKeeps ==
  ASSUME TablesOK, LastOwner, NEW p \in Payload, NEW r \in Run, CreateOrLoad(TheKey, p, r)
  PROVE  StoreKept
<1>1. TablesOK'
  BY TheKeyIsKey, CreateTables
<1>2. recipes \in [Key -> Row] /\ FreshRow(p, r).owner = NoOwner
  BY FreshRowType DEF TablesOK, TypeOK
<1>3. LastOwner'
  BY <1>2, TheKeyIsKey DEF CreateOrLoad, leases, LastOwner
<1> QED  BY <1>1, <1>3 DEF StoreKept, TokensKept, CreateOrLoad, leases

LEMMA RunLinkKeeps ==
  ASSUME TablesOK, LastOwner, NEW r \in Run, RecordRunLink(TheKey, r)
  PROVE  StoreKept
BY TheKeyIsKey, RecordRunLinkTables DEF StoreKept, TokensKept, LastOwner, RecordRunLink, leases

LEMMA ClaimKeeps ==
  ASSUME TablesOK, LastOwner, Claim(TheKey)
  PROVE  /\ StoreKept
         /\ [key |-> TheKey, owner |-> claims + 1, fence |-> recipes[TheKey].fence + 1] \in issued'
<1>1. TablesOK'
  BY TheKeyIsKey, ClaimTables
<1>2. recipes[TheKey] \in Row /\ recipes \in [Key -> Row]
  BY TheKeyIsKey DEF TablesOK, TypeOK
<1>3. recipes'[TheKey].owner = claims'
  BY <1>2, TheKeyIsKey DEF Claim, Claimed, Row
<1> QED  BY <1>1, <1>3 DEF StoreKept, TokensKept, LastOwner, Claim

LEMMA HolderKeeps ==
  ASSUME TablesOK, LastOwner, NEW tok \in issued, tok.key = TheKey,
         Renew(tok) \/ Release(tok) \/ MarkTerminal(tok)
  PROVE  StoreKept
<1>1. TablesOK'
  BY HolderTables
<1>2. recipes[TheKey] \in Row /\ recipes \in [Key -> Row]
  BY TheKeyIsKey DEF TablesOK, TypeOK
<1>3. CASE Renew(tok)
  BY <1>1, <1>2, <1>3, TheKeyIsKey DEF Renew, Renewed, Row, leases, StoreKept, TokensKept, LastOwner
<1>4. CASE Release(tok)
  BY <1>1, <1>2, <1>4, TheKeyIsKey DEF Release, Released, Row, leases, StoreKept, TokensKept, LastOwner
<1>5. CASE MarkTerminal(tok)
  BY <1>1, <1>2, <1>5, TheKeyIsKey DEF MarkTerminal, Marked, Row, leases, StoreKept, TokensKept, LastOwner
<1> QED  BY <1>3, <1>4, <1>5

LEMMA AputKeeps ==
  ASSUME TablesOK, LastOwner, NEW id \in CkptId, NEW r \in Run,
         Aput(TheThread, TheNs, id, TheTurn, r)
  PROVE  TokensKept
<1>1. TheThread \in Thread /\ TheNs \in Ns /\ TheTurn \in Turn \cup {Nil} /\ r \in Run \cup {Nil}
  BY TurnConstants
<1>2. TablesOK'
  BY <1>1, AputTables
<1> QED  BY <1>2 DEF TokensKept, LastOwner, Aput, leases

LEMMA TickKeeps == ASSUME TablesOK, LastOwner, Tick PROVE StoreKept
BY TickTables DEF StoreKept, TokensKept, LastOwner, Tick, tables, leases

\* The maintenance empties rows or leaves them.
LEMMA MaintenanceKeeps ==
  ASSUME TablesOK, LastOwner,
         Reconcile \/ Prune({TheThread}) \/ (\E r \in Run : DeleteForRuns({r}))
           \/ DeleteThread(TheThread)
  PROVE  StoreKept
<1>1. Next
  <2>1. CASE Reconcile
    BY <2>1 DEF Next
  <2>2. CASE Prune({TheThread})
    BY <2>2, TurnConstants DEF Next
  <2>3. CASE \E r \in Run : DeleteForRuns({r})
    BY <2>3 DEF Next
  <2>4. CASE DeleteThread(TheThread)
    BY <2>4, TurnConstants DEF Next
  <2> QED  BY <2>1, <2>2, <2>3, <2>4
<1>2. TablesOK'
  BY <1>1, NextTables
<1>3. /\ recipes'[TheKey] \in {recipes[TheKey], NoRow} /\ UNCHANGED leases
      /\ checkpoints' \subseteq checkpoints
  BY TheKeyIsKey DEF Reconcile, Prune, DeleteForRuns, DropCheckpoints, DeleteThread, Without
<1>4. NoRow.owner = NoOwner
  BY NoRowType
<1> QED  BY <1>2, <1>3, <1>4 DEF StoreKept, TokensKept, LastOwner, leases

LEMMA StillKeeps == ASSUME TablesOK, LastOwner, UNCHANGED vars PROVE StoreKept
BY NextTables DEF StoreKept, TokensKept, LastOwner, vars

-----------------------------------------------------------------------------
(***************************************************************************)
(* The steps of a run.                                                     *)
(***************************************************************************)
\* It is enough to look at the run that takes the step.
LEMMA RunStep ==
  ASSUME TurnInv, TokensKept, SavedOK', NEW r \in Run, NEW s \in RunState,
         RunOK(s, issued'), run' = [run EXCEPT ![r] = s]
  PROVE  TurnInv'
<1>1. run' \in [Run -> RunState]
  BY DEF TurnInv, RunsOK
<1>2. ASSUME NEW q \in Run PROVE RunOK(run'[q], issued')
  <2>1. CASE q = r
    BY <2>1 DEF TurnInv, RunsOK
  <2>2. CASE q # r
    <3>1. run'[q] = run[q] /\ RunOK(run[q], issued)
      BY <2>2 DEF TurnInv, RunsOK
    <3> QED  BY <3>1 DEF RunOK, TokensKept
  <2> QED  BY <2>1, <2>2
<1> QED  BY <1>1, <1>2 DEF TurnInv, RunsOK, TokensKept

LEMMA SavedStill ==
  ASSUME TurnInv, StoreKept, saved' = saved
  PROVE  SavedOK' /\ TokensKept
BY DEF TurnInv, SavedOK, StoreKept

\* A step that only moves the run to another place in its node.
LEMMA GotoStep ==
  ASSUME TurnInv, StoreKept, NEW r \in Run, NEW pc \in Pc, Goto(r, pc), saved' = saved,
         run[r].pc \notin Ended,
         pc \in Leased \cup {"cleanup"} => run[r].tok \in issued,
         pc \in Unleased => run[r].ops = 0 /\ (pc = "create" => run[r].want \in Payload),
         pc \in {"begin", "op", "accept"} => run[r].ops < MaxOps(run[r].place)
  PROVE  TurnInv'
<1>1. run[r] \in RunState /\ RunOK(run[r], issued)
  BY DEF TurnInv, RunsOK
<1>2. PICK s \in RunState : s = [run[r] EXCEPT !.pc = pc]
  BY <1>1, PcChange
<1>3. /\ s.pc = pc /\ s.place = run[r].place /\ s.want = run[r].want
      /\ s.tok = run[r].tok /\ s.ops = run[r].ops
  BY <1>1, <1>2, PcChange
<1>4. run' = [run EXCEPT ![r] = s]
  BY <1>2 DEF Goto
<1>5. RunOK(s, issued')
  BY <1>1, <1>3 DEF RunOK, StoreKept, TokensKept, Unleased
<1> QED  BY <1>4, <1>5, RunStep, SavedStill

LEMMA EndStep ==
  ASSUME TurnInv, TokensKept, SavedOK', NEW r \in Run, NEW pc \in Ended, End(r, pc)
  PROVE  TurnInv'
<1>1. run[r] \in RunState
  BY DEF TurnInv, RunsOK
<1>2. Resting(pc, run[r].starts) \in RunState /\ RunOK(Resting(pc, run[r].starts), issued')
  BY <1>1, RestingOK
<1> QED  BY <1>2, RunStep DEF End

LEMMA StartOK == ASSUME TurnInv, NEW r \in Run, Start(r) PROVE TurnInv'
<1>1. StoreKept /\ SavedOK' /\ TokensKept
  <2>1. UNCHANGED vars /\ saved' = saved
    BY DEF Start, StartAt
  <2> QED  BY <2>1, StillKeeps, SavedStill DEF TurnInv
<1>2. run[r] \in RunState /\ run \in [Run -> RunState]
  BY DEF TurnInv, RunsOK
<1>3. ASSUME NEW p \in Place, NEW w \in Payload \cup {Nil}, StartAt(r, p, w),
             p.node # "end", p.node = "setup" => w \in Payload
      PROVE  TurnInv'
  <2>1. PICK e \in RunState : /\ e = Enter(r, p, w) /\ RunOK(e, issued')
                              /\ e.starts = run[r].starts
    BY <1>2, <1>3, EnterOK
  <2>2. e.starts + 1 \in 0..MaxStarts
    BY <1>2, <1>3, <2>1, StateFields, TurnConstants DEF StartAt
  <2>3. PICK s \in RunState : s = [e EXCEPT !.starts = e.starts + 1]
    BY <2>2 DEF RunState
  <2>4. /\ s.pc = e.pc /\ s.place = e.place /\ s.want = e.want /\ s.tok = e.tok
        /\ s.ops = e.ops
    BY <2>3 DEF RunState
  <2>5. RunOK(s, issued')
    BY <2>1, <2>4 DEF RunOK
  <2>6. run' = [run EXCEPT ![r] = s]
    BY <1>3, <2>1, <2>3 DEF StartAt
  <2> QED  BY <1>1, <2>5, <2>6, RunStep
<1>4. CASE \E w \in Payload : StartAt(r, Entry, w)
  <2>1. Entry \in Place /\ Entry.node = "setup"
    BY TurnConstants DEF Entry, Place, Node
  <2> QED  BY <1>3, <1>4, <2>1
<1>5. CASE \E c \in checkpoints : saved[c.id].node # "end" /\ StartAt(r, saved[c.id], Nil)
  <2>1. PICK c \in checkpoints : saved[c.id].node # "end" /\ StartAt(r, saved[c.id], Nil)
    BY <1>5
  <2>2. saved[c.id] \in Place /\ saved[c.id].node # "setup"
    BY DEF TurnInv, SavedOK, TablesOK, TypeOK, Checkpoint
  <2> QED  BY <1>3, <2>1, <2>2
<1> QED  BY <1>4, <1>5 DEF Start

\* What RunOK and the types say of a run at some point.
LEMMA RunFacts ==
  ASSUME TurnInv, NEW r \in Run
  PROVE  /\ run \in [Run -> RunState] /\ run[r] \in RunState /\ run[r].tok.key = TheKey
         /\ run[r].pc \in Leased \cup {"cleanup"} => run[r].tok \in issued
         /\ run[r].pc \notin Ended => run[r].place.node # "end"
         /\ run[r].pc \in Unleased => run[r].ops = 0
         /\ run[r].pc \in {"begin", "op", "accept"} => run[r].ops < MaxOps(run[r].place)
         /\ run[r].pc = "create" => run[r].want \in Payload
BY DEF TurnInv, RunsOK, RunOK

LEMMA CreateOK == ASSUME TurnInv, NEW r \in Run, Create(r) PROVE TurnInv'
<1>1. /\ run[r].pc = "create" /\ run[r].want \in Payload /\ run[r].ops = 0
      /\ saved' = saved /\ run[r].pc \notin Ended
  BY RunFacts DEF Create, Unleased, Ended
<1>2. \A pc \in {"link", "load"} :
        /\ pc \in Pc /\ pc \notin Leased \cup {"cleanup"} /\ pc # "create"
        /\ pc \notin {"begin", "op", "accept"}
  BY DEF Pc, Leased, Unleased
<1>3. CASE CreateOrLoad(TheKey, run[r].want, r) /\ Goto(r, "link")
  <2>1. StoreKept
    BY <1>1, <1>3, CreateKeeps DEF TurnInv
  <2> QED  BY <1>1, <1>2, <1>3, <2>1, GotoStep
<1>4. CASE Goto(r, "load") /\ UNCHANGED vars
  <2>1. StoreKept
    BY <1>4, StillKeeps DEF TurnInv
  <2> QED  BY <1>1, <1>2, <1>4, <2>1, GotoStep
<1> QED  BY <1>3, <1>4 DEF Create

LEMMA LoadOK == ASSUME TurnInv, NEW r \in Run, Load(r) PROVE TurnInv'
<1>1. /\ run[r].pc = "load" /\ run[r].ops = 0 /\ run[r].pc \notin Ended
      /\ saved' = saved /\ UNCHANGED vars
  BY RunFacts DEF Load, Unleased, Ended
<1>2. StoreKept /\ SavedOK' /\ TokensKept
  BY <1>1, StillKeeps, SavedStill DEF TurnInv
<1>3. CASE Goto(r, "link")
  <2>1. /\ "link" \in Pc /\ "link" \notin Leased \cup {"cleanup"}
        /\ "link" \notin {"begin", "op", "accept", "create"}
    BY DEF Pc, Leased, Unleased
  <2> QED  BY <1>1, <1>2, <1>3, <2>1, GotoStep
<1>4. CASE End(r, "failed")
  BY <1>2, <1>4, EndStep DEF Ended
<1> QED  BY <1>3, <1>4 DEF Load

LEMMA LinkOK == ASSUME TurnInv, NEW r \in Run, Link(r) PROVE TurnInv'
<1>1. /\ run[r].pc = "link" /\ run[r].ops = 0 /\ run[r].place.node # "end"
      /\ saved' = saved /\ run[r] \in RunState /\ run[r].tok.key = TheKey
  BY RunFacts DEF Link, Unleased, Ended
<1>2. CASE RecordRunLink(TheKey, r) /\ run' = [run EXCEPT ![r].pc = "claim", ![r].linked = TRUE]
  <2>1. StoreKept
    BY <1>2, RunLinkKeeps DEF TurnInv
  <2>2. "claim" \in Pc
    BY DEF Pc, Unleased
  <2>3. PICK s \in RunState : s = [run[r] EXCEPT !.pc = "claim", !.linked = TRUE]
    BY <1>1, <2>2 DEF RunState
  <2>4. s.pc = "claim" /\ s.place = run[r].place /\ s.tok = run[r].tok /\ s.ops = run[r].ops
    BY <1>1, <2>3 DEF RunState
  <2>5. RunOK(s, issued')
    BY <1>1, <2>4 DEF RunOK, Leased
  <2>6. run' = [run EXCEPT ![r] = s]
    BY <1>2, <2>3
  <2> QED  BY <1>1, <2>1, <2>5, <2>6, RunStep, SavedStill
<1>3. CASE End(r, "failed") /\ UNCHANGED vars
  <2>1. SavedOK' /\ TokensKept
    BY <1>1, <1>3, StillKeeps, SavedStill DEF TurnInv
  <2> QED  BY <1>3, <2>1, EndStep DEF Ended
<1> QED  BY <1>2, <1>3 DEF Link

\* Every node runs between one and three operations.
LEMMA OpsBounds ==
  ASSUME NEW p \in Place PROVE MaxOps(p) \in 1..3
BY DEF MaxOps, MinOps

LEMMA TakeLeaseOK == ASSUME TurnInv, NEW r \in Run, TakeLease(r) PROVE TurnInv'
<1> DEFINE tok == [key |-> TheKey, owner |-> claims + 1, fence |-> recipes[TheKey].fence + 1]
<1>1. /\ run[r].pc = "claim" /\ run[r].ops = 0 /\ run[r].place.node # "end"
      /\ saved' = saved /\ run[r] \in RunState
  BY RunFacts DEF TakeLease, Unleased, Ended
<1>2. StoreKept /\ tok \in issued'
  BY ClaimKeeps DEF TakeLease, TurnInv
<1>3. tok \in Token /\ tok.key = TheKey
  BY <1>2 DEF StoreKept, TokensKept, TablesOK, TypeOK
<1>4. "begin" \in Pc
  BY DEF Pc, Leased
<1>5. PICK s \in RunState : s = [run[r] EXCEPT !.pc = "begin", !.tok = tok]
  BY <1>1, <1>3, <1>4 DEF RunState
<1>6. s.pc = "begin" /\ s.place = run[r].place /\ s.tok = tok /\ s.ops = 0
  BY <1>1, <1>5 DEF RunState
<1>7. 0 < MaxOps(s.place)
  <2>1. s.place \in Place
    BY StateFields
  <2>2. MaxOps(s.place) \in 1..3
    BY <2>1, OpsBounds
  <2> QED  BY <2>2
<1>8. RunOK(s, issued')
  BY <1>1, <1>2, <1>3, <1>6, <1>7 DEF RunOK, Unleased
<1>9. run' = [run EXCEPT ![r] = s]
  BY <1>5 DEF TakeLease
<1> QED  BY <1>2, <1>1, <1>8, <1>9, RunStep, SavedStill

LEMMA LeaseDeniedOK == ASSUME TurnInv, NEW r \in Run, LeaseDenied(r) PROVE TurnInv'
<1>1. /\ run[r].pc = "claim" /\ saved' = saved /\ run[r] \in RunState /\ UNCHANGED vars
      /\ RunOK(run[r], issued)
  BY RunFacts DEF LeaseDenied, TurnInv, RunsOK
<1>2. StoreKept /\ SavedOK' /\ TokensKept
  BY <1>1, StillKeeps, SavedStill DEF TurnInv
<1>3. CASE run[r].tries + 1 < ClaimAttempts /\ run' = [run EXCEPT ![r].tries = @ + 1]
  <2>1. run[r].tries + 1 \in 0..ClaimAttempts
    BY <1>1, <1>3, StateFields DEF ClaimAttempts
  <2>2. PICK s \in RunState : s = [run[r] EXCEPT !.tries = run[r].tries + 1]
    BY <1>1, <2>1 DEF RunState
  <2>3. /\ s.pc = run[r].pc /\ s.place = run[r].place /\ s.tok = run[r].tok
        /\ s.ops = run[r].ops /\ s.want = run[r].want
    BY <1>1, <2>2 DEF RunState
  <2>4. RunOK(s, issued')
    BY <1>1, <1>2, <2>3 DEF RunOK, TokensKept
  <2>5. run' = [run EXCEPT ![r] = s]
    BY <1>3, <2>2
  <2> QED  BY <1>2, <2>4, <2>5, RunStep
<1>4. CASE End(r, "failed")
  BY <1>2, <1>4, EndStep DEF Ended
<1> QED  BY <1>3, <1>4 DEF LeaseDenied

-----------------------------------------------------------------------------
\* What a run with a lease knows, and the places its node may go to.
LEMMA LeasedFacts ==
  ASSUME TurnInv, NEW r \in Run, run[r].pc \in Leased \cup {"cleanup"}
  PROVE  /\ run[r].tok \in issued /\ run[r].tok.key = TheKey /\ run[r].pc \notin Ended
         /\ "cleanup" \in Pc /\ "cleanup" \notin Unleased /\ "cleanup" \notin {"begin", "op", "accept"}
         /\ Leased \subseteq Pc /\ \A pc \in Leased : pc \notin Unleased
<1>1. run[r].pc \notin Ended
  BY DEF Leased, Ended
<1> QED  BY <1>1, RunFacts DEF Pc, Leased, Unleased

\* A renewal in a lease's name and a refusal leave the store's facts true.
LEMMA RenewKeeps ==
  ASSUME TurnInv, NEW r \in Run, run[r].pc \in Leased \cup {"cleanup"},
         \/ Renew(run[r].tok) \/ Release(run[r].tok) \/ MarkTerminal(run[r].tok) \/ UNCHANGED vars
  PROVE  StoreKept
BY LeasedFacts, HolderKeeps, StillKeeps DEF TurnInv

\* The steps in which a leased run goes to another pc of its node.
LEMMA LeasedGoto ==
  ASSUME TurnInv, NEW r \in Run, run[r].pc \in Leased \cup {"cleanup"},
         \/ Renew(run[r].tok) \/ Release(run[r].tok) \/ MarkTerminal(run[r].tok) \/ UNCHANGED vars,
         NEW pc \in Leased \cup {"cleanup"}, Goto(r, pc), saved' = saved,
         pc \in {"begin", "op", "accept"} => run[r].ops < MaxOps(run[r].place)
  PROVE  TurnInv'
<1>1. StoreKept
  BY RenewKeeps
<1>2. pc \in Pc /\ pc \notin Unleased /\ run[r].tok \in issued /\ run[r].pc \notin Ended
  BY LeasedFacts
<1> QED  BY <1>1, <1>2, GotoStep

LEMMA BeginOK == ASSUME TurnInv, NEW r \in Run, Begin(r) PROVE TurnInv'
<1>1. /\ run[r].pc = "begin" /\ run[r].pc \in Leased /\ saved' = saved
      /\ run[r].ops < MaxOps(run[r].place) /\ "op" \in Leased
  BY RunFacts DEF Begin, Leased
<1>2. CASE Renew(run[r].tok) /\ run' = [run EXCEPT ![r].pc = "op"]
  <2>1. Goto(r, "op")
    BY <1>2 DEF Goto
  <2> QED  BY <1>1, <1>2, <2>1, LeasedGoto
<1>3. CASE Goto(r, "cleanup") /\ UNCHANGED vars
  BY <1>1, <1>3, LeasedGoto
<1> QED  BY <1>2, <1>3 DEF Begin, RenewOr

LEMMA BeatOK == ASSUME TurnInv, NEW r \in Run, Beat(r) PROVE TurnInv'
<1>1. /\ run[r].pc = "op" /\ run[r].pc \in Leased /\ saved' = saved
      /\ run[r] \in RunState /\ RunOK(run[r], issued) /\ run \in [Run -> RunState]
  BY DEF Beat, Leased, TurnInv, RunsOK
<1>2. CASE Renew(run[r].tok) /\ run' = run
  <2>1. StoreKept
    BY <1>1, <1>2, RenewKeeps
  <2>2. RunOK(run[r], issued')
    BY <1>1, <2>1 DEF RunOK, StoreKept, TokensKept
  <2>3. run' = [run EXCEPT ![r] = run[r]]
    BY <1>1, <1>2
  <2> QED  BY <1>1, <2>1, <2>2, <2>3, RunStep, SavedStill
<1>3. CASE Goto(r, "cleanup") /\ UNCHANGED vars
  BY <1>1, <1>3, LeasedGoto
<1> QED  BY <1>2, <1>3 DEF Beat, RenewOr

LEMMA AcceptOK == ASSUME TurnInv, NEW r \in Run, Accept(r) PROVE TurnInv'
<1>1. /\ run[r].pc = "accept" /\ run[r].pc \in Leased /\ saved' = saved
      /\ run[r] \in RunState /\ run[r].ops < MaxOps(run[r].place)
      /\ run[r].place.node # "end" /\ run[r].tok \in issued /\ run[r].tok.key = TheKey
  BY RunFacts DEF Accept, Leased, Ended
<1>2. CASE Renew(run[r].tok) /\ run' = [run EXCEPT ![r].pc = "rest", ![r].ops = @ + 1]
  <2>1. StoreKept
    BY <1>1, <1>2, RenewKeeps
  <2>2. run[r].ops + 1 \in 0..3 /\ "rest" \in Pc
    BY <1>1, StateFields, OpsBounds DEF Pc, Leased
  <2>3. PICK s \in RunState : s = [run[r] EXCEPT !.pc = "rest", !.ops = run[r].ops + 1]
    BY <1>1, <2>2 DEF RunState
  <2>4. s.pc = "rest" /\ s.place = run[r].place /\ s.tok = run[r].tok
    BY <1>1, <2>3 DEF RunState
  <2>5. RunOK(s, issued')
    BY <1>1, <2>1, <2>4 DEF RunOK, StoreKept, TokensKept, Unleased
  <2>6. run' = [run EXCEPT ![r] = s]
    BY <1>2, <2>3
  <2> QED  BY <1>1, <2>1, <2>5, <2>6, RunStep, SavedStill
<1>3. CASE Goto(r, "cleanup") /\ UNCHANGED vars
  BY <1>1, <1>3, LeasedGoto
<1> QED  BY <1>2, <1>3 DEF Accept, RenewOr

LEMMA OpEndsOK == ASSUME TurnInv, NEW r \in Run, OpEnds(r) PROVE TurnInv'
<1>1. /\ run[r].pc \in Leased /\ saved' = saved /\ "accept" \in Leased
      /\ run[r].ops < MaxOps(run[r].place)
  BY RunFacts DEF OpEnds, Leased
<1> QED  BY <1>1, LeasedGoto DEF OpEnds

LEMMA NextOpOK == ASSUME TurnInv, NEW r \in Run, NextOp(r) PROVE TurnInv'
<1>1. run[r].pc \in Leased /\ saved' = saved /\ "begin" \in Leased
  BY DEF NextOp, Leased
<1> QED  BY <1>1, LeasedGoto DEF NextOp

LEMMA OpsOverOK == ASSUME TurnInv, NEW r \in Run, OpsOver(r) PROVE TurnInv'
<1>1. run[r].pc \in Leased /\ saved' = saved /\ {"mark", "release"} \subseteq Leased
  BY DEF OpsOver, Leased
<1>2. PICK pc \in {"mark", "release"} : Goto(r, pc)
  BY DEF OpsOver
<1> QED  BY <1>1, <1>2, LeasedGoto DEF OpsOver

LEMMA MarkOK == ASSUME TurnInv, NEW r \in Run, Mark(r) PROVE TurnInv'
<1>1. run[r].pc \in Leased /\ saved' = saved /\ "stamp" \in Leased
  BY DEF Mark, Leased
<1>2. CASE Renew(run[r].tok) /\ run' = [run EXCEPT ![r].pc = "stamp"]
  <2>1. Goto(r, "stamp")
    BY <1>2 DEF Goto
  <2> QED  BY <1>1, <1>2, <2>1, LeasedGoto
<1>3. CASE Goto(r, "cleanup") /\ UNCHANGED vars
  BY <1>1, <1>3, LeasedGoto
<1> QED  BY <1>2, <1>3 DEF Mark, RenewOr

LEMMA StampOK == ASSUME TurnInv, NEW r \in Run, Stamp(r) PROVE TurnInv'
<1>1. run[r].pc \in Leased /\ saved' = saved /\ "release" \in Leased
  BY DEF Stamp, Leased
<1>2. CASE MarkTerminal(run[r].tok) /\ Goto(r, "release")
  BY <1>1, <1>2, LeasedGoto
<1>3. CASE Goto(r, "cleanup") /\ UNCHANGED vars
  BY <1>1, <1>3, LeasedGoto
<1> QED  BY <1>2, <1>3 DEF Stamp

LEMMA FinishOK == ASSUME TurnInv, NEW r \in Run, Finish(r) PROVE TurnInv'
<1>1. /\ run[r].pc = "release" /\ run[r].pc \in Leased /\ saved' = saved
      /\ run[r].tok \in issued /\ run[r].pc \notin Ended
  BY RunFacts DEF Finish, Leased, Ended
<1>2. CASE Release(run[r].tok) /\ Goto(r, "save")
  <2>1. StoreKept
    BY <1>1, <1>2, RenewKeeps
  <2>2. /\ "save" \in Pc /\ "save" \notin Leased \cup {"cleanup"} /\ "save" \notin Unleased
        /\ "save" \notin {"begin", "op", "accept"}
    BY DEF Pc, Leased, Unleased
  <2> QED  BY <1>1, <1>2, <2>1, <2>2, GotoStep
<1>3. CASE End(r, "failed") /\ UNCHANGED vars
  <2>1. SavedOK' /\ TokensKept
    BY <1>1, <1>3, StillKeeps, SavedStill DEF TurnInv
  <2> QED  BY <1>3, <2>1, EndStep DEF Ended
<1> QED  BY <1>2, <1>3 DEF Finish

LEMMA CleanupOK == ASSUME TurnInv, NEW r \in Run, Cleanup(r) PROVE TurnInv'
<1>1. run[r].pc \in Leased \cup {"cleanup"} /\ saved' = saved /\ End(r, "failed")
  BY DEF Cleanup
<1>2. Release(run[r].tok) \/ UNCHANGED vars
  BY DEF Cleanup
<1>3. StoreKept
  BY <1>1, <1>2, RenewKeeps
<1> QED  BY <1>1, <1>3, SavedStill, EndStep DEF Ended

\* A node goes on to places of the graph, never back to its entry.
LEMMA AfterNodePlaces ==
  ASSUME NEW p \in Place, p.node # "end", NEW q \in AfterNode(p)
  PROVE  q \in Place /\ q.node # "setup"
<1>1. /\ RoundLimit \in 0..RoundLimit /\ 0 \in 0..RoundLimit
      /\ p.left \in 0..RoundLimit /\ p.left > 0 => p.left - 1 \in 0..RoundLimit
  BY TurnConstants DEF Place
<1>2. CASE p.node = "setup"
  <2>1. q = [node |-> "agent", left |-> RoundLimit]
    BY <1>2 DEF AfterNode
  <2> QED  BY <1>1, <2>1 DEF Place, Node
<1>3. CASE p.node = "agent" /\ p.left > 0
  <2>1. PICK n \in {"tools", "compose"} : q = [node |-> n, left |-> p.left - 1]
    <3>1. AfterNode(p) = {[node |-> n, left |-> p.left - 1] : n \in {"tools", "compose"}}
      BY <1>3 DEF AfterNode
    <3> QED  BY <3>1
  <2> QED  BY <1>1, <1>3, <2>1 DEF Place, Node
<1>4. CASE p.node = "agent" /\ p.left = 0
  <2>1. q = [node |-> "compose", left |-> 0]
    BY <1>4 DEF AfterNode
  <2> QED  BY <1>1, <2>1 DEF Place, Node
<1>5. CASE p.node = "tools"
  <2>1. q = [p EXCEPT !.node = "agent"]
    BY <1>5 DEF AfterNode
  <2> QED  BY <2>1 DEF Place, Node
<1>6. CASE p.node = "compose"
  <2>1. q = [node |-> "end", left |-> 0]
    BY <1>6 DEF AfterNode
  <2> QED  BY <1>1, <2>1 DEF Place, Node
<1> QED  BY <1>2, <1>3, <1>4, <1>5, <1>6 DEF Place, Node

LEMMA SaveOK == ASSUME TurnInv, NEW r \in Run, Save(r) PROVE TurnInv'
<1>1. /\ run[r].pc = "save" /\ run[r].place.node # "end" /\ run[r] \in RunState
      /\ run \in [Run -> RunState] /\ run[r].place \in Place
  <2>1. run[r].pc = "save" /\ run[r] \in RunState /\ run[r].place.node # "end"
    BY RunFacts DEF Save, Ended
  <2> QED  BY <2>1, StateFields, RunFacts
<1>2. PICK id \in NextIds, p \in AfterNode(run[r].place) :
        /\ Aput(TheThread, TheNs, id, TheTurn, r)
        /\ saved' = [saved EXCEPT ![id] = p]
        /\ IF p.node = "end" THEN End(r, "done") ELSE run' = [run EXCEPT ![r] = Enter(r, p, Nil)]
  BY DEF Save
<1>3. id \in CkptId /\ p \in Place /\ p.node # "setup"
  BY <1>1, AfterNodePlaces DEF NextIds
<1>4. TokensKept
  BY <1>2, <1>3, AputKeeps DEF TurnInv
<1>5. SavedOK'
  <2>1. saved' \in [CkptId -> Place] /\ saved'[id] = p
    BY <1>2, <1>3 DEF TurnInv, SavedOK
  <2>2. ASSUME NEW c \in checkpoints' PROVE saved'[c.id].node # "setup"
    <3>1. CASE c.id = id
      BY <1>3, <2>1, <3>1
    <3>2. CASE c.id # id
      <4>1. c \in checkpoints
        BY <1>2, <3>2 DEF Aput
      <4>2. c.id \in CkptId
        BY <4>1 DEF TurnInv, TablesOK, TypeOK, Checkpoint
      <4> QED  BY <1>2, <3>2, <4>1, <4>2 DEF TurnInv, SavedOK
    <3> QED  BY <3>1, <3>2
  <2> QED  BY <2>1, <2>2 DEF SavedOK
<1>6. CASE p.node = "end"
  <2>1. End(r, "done")
    BY <1>2, <1>6
  <2> QED  BY <1>4, <1>5, <2>1, EndStep DEF Ended
<1>7. CASE p.node # "end"
  <2>1. Enter(r, p, Nil) \in RunState /\ RunOK(Enter(r, p, Nil), issued')
    BY <1>1, <1>3, <1>7, EnterOK
  <2>2. run' = [run EXCEPT ![r] = Enter(r, p, Nil)]
    BY <1>2, <1>7
  <2> QED  BY <1>4, <1>5, <2>1, <2>2, RunStep
<1> QED  BY <1>6, <1>7

LEMMA RaiseOK == ASSUME TurnInv, NEW r \in Run, Raise(r) PROVE TurnInv'
<1>1. saved' = saved /\ UNCHANGED vars
  BY DEF Raise
<1>2. CASE CleansUp(r) /\ Goto(r, "cleanup")
  <2>1. run[r].pc \in Leased \cup {"cleanup"}
    BY <1>2 DEF CleansUp, Leased
  <2> QED  BY <1>1, <1>2, <2>1, LeasedGoto
<1>3. CASE End(r, "failed")
  BY <1>1, <1>3, StillKeeps, SavedStill, EndStep DEF TurnInv, Ended
<1> QED  BY <1>2, <1>3 DEF Raise

LEMMA CrashOK == ASSUME TurnInv, NEW r \in Run, Crash(r) PROVE TurnInv'
BY StillKeeps, SavedStill, EndStep DEF TurnInv, Ended, Crash

-----------------------------------------------------------------------------
(***************************************************************************)
(* The steps of the world: time passes, the thread is maintained or        *)
(* deleted.  Of the runs they change no more than what they remember.      *)
(***************************************************************************)
LEMMA WorldStep ==
  ASSUME TurnInv, StoreKept, saved' = saved, run' \in [Run -> RunState],
         \A r \in Run : /\ run'[r].pc = run[r].pc /\ run'[r].place = run[r].place
                        /\ run'[r].tok = run[r].tok /\ run'[r].ops = run[r].ops
                        /\ run'[r].want = run[r].want
  PROVE  TurnInv'
<1>1. ASSUME NEW r \in Run PROVE RunOK(run'[r], issued')
  BY DEF TurnInv, RunsOK, RunOK, StoreKept, TokensKept
<1> QED  BY <1>1, SavedStill DEF TurnInv, RunsOK, StoreKept, TokensKept

LEMMA TimeOK == ASSUME TurnInv, Time PROVE TurnInv'
<1>1. StoreKept /\ saved' = saved
  BY TickKeeps DEF Time, TurnInv
<1>2. ASSUME NEW r \in Run, NEW s, s = run'[r]
      PROVE  /\ s \in RunState /\ s.pc = run[r].pc /\ s.place = run[r].place
             /\ s.tok = run[r].tok /\ s.ops = run[r].ops /\ s.want = run[r].want
  <2> DEFINE b == Active(r) /\ (run[r].late \/ ~OnTime(r))
  <2>1. run[r] \in RunState /\ b \in BOOLEAN
    BY RunFacts
  <2>2. s = [run[r] EXCEPT !.late = b]
    BY <1>2 DEF Time
  <2> HIDE DEF b
  <2> QED  BY <2>1, <2>2 DEF RunState
<1>3. run' \in [Run -> RunState]
  BY <1>2 DEF Time
<1> QED  BY <1>1, <1>2, <1>3, WorldStep

LEMMA MaintainOK == ASSUME TurnInv, Maintain PROVE TurnInv'
<1>1. StoreKept /\ saved' = saved /\ run' = run
  BY MaintenanceKeeps DEF Maintain, TurnInv, turnVars
<1> QED  BY <1>1, WorldStep DEF TurnInv, RunsOK

LEMMA WipeOK == ASSUME TurnInv, Wipe PROVE TurnInv'
<1>1. StoreKept /\ saved' = saved
  BY MaintenanceKeeps DEF Wipe, TurnInv
<1>2. ASSUME NEW r \in Run, NEW s, s = run'[r]
      PROVE  /\ s \in RunState /\ s.pc = run[r].pc /\ s.place = run[r].place
             /\ s.tok = run[r].tok /\ s.ops = run[r].ops /\ s.want = run[r].want
  <2>1. run[r] \in RunState /\ Active(r) \in BOOLEAN
    BY RunFacts DEF Active
  <2>2. s = [run[r] EXCEPT !.wiped = Active(r)]
    BY <1>2 DEF Wipe
  <2> QED  BY <2>1, <2>2 DEF RunState
<1>3. run' \in [Run -> RunState]
  BY <1>2 DEF Wipe
<1> QED  BY <1>1, <1>2, <1>3, WorldStep

LEMMA StutterOK == ASSUME TurnInv, UNCHANGED allVars PROVE TurnInv'
<1>1. StoreKept /\ saved' = saved /\ run' = run
  BY StillKeeps DEF allVars, turnVars, TurnInv
<1> QED  BY <1>1, WorldStep DEF TurnInv, RunsOK

-----------------------------------------------------------------------------
LEMMA TurnInitOK == TurnInit => TurnInv
<1> SUFFICES ASSUME TurnInit PROVE TurnInv
  OBVIOUS
<1>1. TablesOK
  BY InitTables DEF TurnInit
<1>2. LastOwner
  BY TheKeyIsKey DEF TurnInit, Init, LastOwner, NoRow
<1>3. Idle \in RunState /\ \A tokens : RunOK(Idle, tokens)
  <2>1. Idle = Resting("idle", 0)
    BY DEF Idle
  <2>2. /\ Entry \in Place /\ "idle" \in Pc /\ NoToken.key = TheKey
        /\ "idle" \notin Leased \cup {"cleanup"} /\ "idle" \notin Unleased /\ "idle" \in Ended
        /\ 0 \in 0..MaxStarts /\ 0 \in 0..ClaimAttempts /\ 0 \in 0..3
    BY TurnConstants DEF Entry, Place, Node, Pc, NoToken, Ended, Leased, Unleased, ClaimAttempts
  <2>3. Idle \in RunState
    BY <2>1, <2>2 DEF Resting, RunState
  <2>4. ASSUME NEW tokens PROVE RunOK(Idle, tokens)
    BY <2>1, <2>2 DEF RunOK, Resting
  <2> QED  BY <2>3, <2>4
<1>4. RunsOK
  BY <1>3 DEF TurnInit, RunsOK
<1>5. SavedOK
  <2>1. Entry \in Place
    BY TurnConstants DEF Entry, Place, Node
  <2> QED  BY <2>1 DEF TurnInit, Init, SavedOK
<1> QED  BY <1>1, <1>2, <1>4, <1>5 DEF TurnInv

LEMMA TurnNextOK == TurnInv /\ [TurnNext]_allVars => TurnInv'
<1> SUFFICES ASSUME TurnInv, [TurnNext]_allVars PROVE TurnInv'
  OBVIOUS
<1>1. ASSUME NEW r \in Run, Step(r) PROVE TurnInv'
  BY <1>1, CreateOK, LoadOK, LinkOK, TakeLeaseOK, LeaseDeniedOK, BeginOK, OpEndsOK,
     AcceptOK, NextOpOK, OpsOverOK, MarkOK, StampOK, FinishOK, CleanupOK, SaveOK DEF Step
<1>2. ASSUME NEW r \in Run, Start(r) \/ Beat(r) \/ Raise(r) \/ Crash(r) PROVE TurnInv'
  BY <1>2, StartOK, BeatOK, RaiseOK, CrashOK
<1> QED  BY <1>1, <1>2, TimeOK, MaintainOK, WipeOK, StutterOK DEF TurnNext

LEMMA TurnInductive == TurnSpec => []TurnInv
<1>1. TurnInit => TurnInv
  BY TurnInitOK
<1>2. TurnInv /\ [TurnNext]_allVars => TurnInv'
  BY TurnNextOK
<1> QED  BY <1>1, <1>2, PTL DEF TurnSpec

-----------------------------------------------------------------------------
\* Runs, their tokens and the places they are in keep their types, and so do
\* the tables under them.
THEOREM TurnTypeCorrect == TurnSpec => []TurnTypeOK
<1>1. TurnInv => TurnTypeOK
  BY DEF TurnInv, TablesOK, RunsOK, SavedOK, TurnTypeOK
<1> QED  BY <1>1, TurnInductive, PTL

\* A node that succeeds was alone: the release that lets its checkpoint be
\* written is accepted only from the owner of the last claim.
THEOREM NodesAlwaysAlone == TurnSpec => NodesRunAlone
<1>1. ASSUME TurnInv, [TurnNext]_allVars, NEW r \in Run,
             run[r].pc = "release", run'[r].pc = "save"
      PROVE  run[r].tok.owner = claims
  <2>1. run \in [Run -> RunState] /\ run[r].tok \in issued /\ run[r].tok.key = TheKey
    BY <1>1, RunFacts DEF Leased
  <2>2. Holds(run[r].tok)
    <3>1. CASE UNCHANGED allVars
      BY <1>1, <3>1 DEF allVars, turnVars
    <3>2. CASE Time \/ Maintain \/ Wipe
      <4>1. run'[r].pc = run[r].pc
        BY <3>2, <2>1 DEF Time, Maintain, Wipe, turnVars, RunState
      <4> QED  BY <1>1, <4>1
    <3>3. ASSUME NEW q \in Run, Start(q) \/ Step(q) \/ Beat(q) \/ Raise(q) \/ Crash(q)
          PROVE  Holds(run[r].tok)
      <4>1. CASE q # r
        <5>1. run'[r] = run[r]
          BY <2>1, <3>3, <4>1
          DEF Start, StartAt, Step, Create, Load, Link, TakeLease, LeaseDenied, Begin, Beat,
              OpEnds, Accept, NextOp, OpsOver, Mark, Stamp, Finish, Cleanup, Save, Raise,
              Crash, Goto, End, RenewOr, turnVars
        <5> QED  BY <1>1, <5>1
      <4>2. CASE q = r
        <5>1. Finish(r) \/ Raise(r) \/ Crash(r)
          BY <1>1, <3>3, <4>2
          DEF Start, StartAt, Step, Create, Load, Link, TakeLease, LeaseDenied, Begin, Beat,
              OpEnds, Accept, NextOp, OpsOver, Mark, Stamp, Cleanup, Save
        <5>2. CASE End(r, "failed") \/ End(r, "crashed") \/ Goto(r, "cleanup")
          <6>1. run'[r].pc \in {"failed", "crashed", "cleanup"}
            BY <2>1, <5>2 DEF End, Goto, Resting, RunState
          <6> QED  BY <1>1, <6>1
        <5>3. CASE Release(run[r].tok)
          BY <5>3 DEF Release
        <5> QED  BY <5>1, <5>2, <5>3 DEF Finish, Raise, Crash
      <4> QED  BY <4>1, <4>2
    <3> QED  BY <1>1, <3>1, <3>2, <3>3 DEF TurnNext
  <2>3. run[r].tok.owner # NoOwner
    BY <1>1, <2>1 DEF TurnInv, TablesOK, TypeOK, Token, NoOwner
  <2> QED  BY <1>1, <2>1, <2>2, <2>3 DEF Holds, TurnInv, LastOwner
<1>2. TurnInv /\ [TurnNext]_allVars
        => [\A r \in Run : run[r].pc = "release" /\ run'[r].pc = "save"
                             => run[r].tok.owner = claims]_allVars
  BY <1>1
<1> QED  BY <1>2, TurnInductive, PTL DEF TurnSpec, NodesRunAlone

\* Every step of the runs is one the store's specification allows: they present
\* only tokens they were given, so whatever holds of the store under arbitrary
\* callers holds of it under the runs.
THEOREM TurnUsesStore == TurnSpec => Spec
<1>1. TurnInit => Init
  BY DEF TurnInit
<1>2. ASSUME TurnInv, [TurnNext]_allVars PROVE [Next]_vars
  <2>1. CASE UNCHANGED vars
    BY <2>1
  <2>2. ASSUME NEW r \in Run,
               \/ \E p \in Payload : CreateOrLoad(TheKey, p, r)
               \/ RecordRunLink(TheKey, r) \/ Claim(TheKey)
        PROVE  Next
    BY <2>2, TheKeyIsKey DEF Next
  <2>3. ASSUME NEW tok \in issued, Renew(tok) \/ Release(tok) \/ MarkTerminal(tok) PROVE Next
    BY <2>3 DEF Next
  <2>4. ASSUME NEW r \in Run, NEW id \in CkptId, Aput(TheThread, TheNs, id, TheTurn, r) PROVE Next
    BY <2>4, TurnConstants DEF Next
  <2>5. ASSUME NEW r \in Run, Step(r) \/ Beat(r) PROVE [Next]_vars
    <3>1. CASE Create(r)
      <4>1. run[r].want \in Payload
        BY <1>2, <3>1, RunFacts DEF Create
      <4> QED  BY <2>1, <2>2, <3>1, <4>1 DEF Create
    <3>2. CASE Link(r) \/ TakeLease(r)
      BY <2>1, <2>2, <3>2 DEF Link, TakeLease
    <3>3. CASE Begin(r) \/ Beat(r) \/ Accept(r) \/ Mark(r) \/ Stamp(r) \/ Finish(r) \/ Cleanup(r)
      <4>1. run[r].tok \in issued
        BY <1>2, <3>3, RunFacts
        DEF Begin, Beat, Accept, Mark, Stamp, Finish, Cleanup, Leased
      <4>2. \/ Renew(run[r].tok) \/ Release(run[r].tok) \/ MarkTerminal(run[r].tok)
            \/ UNCHANGED vars
        BY <3>3 DEF Begin, Beat, Accept, Mark, Stamp, Finish, Cleanup, RenewOr
      <4> QED  BY <2>1, <2>3, <4>1, <4>2
    <3>4. CASE Save(r)
      BY <2>4, <3>4 DEF Save, NextIds
    <3>5. CASE Load(r) \/ LeaseDenied(r) \/ OpEnds(r) \/ NextOp(r) \/ OpsOver(r)
      BY <3>5 DEF Load, LeaseDenied, OpEnds, NextOp, OpsOver
    <3> QED  BY <2>5, <3>1, <3>2, <3>3, <3>4, <3>5 DEF Step
  <2>6. ASSUME NEW r \in Run, Start(r) \/ Raise(r) \/ Crash(r) PROVE UNCHANGED vars
    BY <2>6 DEF Start, StartAt, Raise, Crash
  <2>7. CASE Time \/ Maintain \/ Wipe
    <3>1. Tick \/ Reconcile \/ Prune({TheThread}) \/ (\E r \in Run : DeleteForRuns({r}))
            \/ DeleteThread(TheThread)
      BY <2>7 DEF Time, Maintain, Wipe
    <3>2. CASE Prune({TheThread})
      BY <3>2, TurnConstants DEF Next
    <3>3. CASE \E r \in Run : DeleteForRuns({r})
      BY <3>3 DEF Next
    <3>4. CASE Tick \/ Reconcile \/ DeleteThread(TheThread)
      BY <3>4, TurnConstants DEF Next
    <3> QED  BY <3>1, <3>2, <3>3, <3>4
  <2> QED  BY <1>2, <2>1, <2>5, <2>6, <2>7 DEF TurnNext, allVars
<1>3. TurnInv /\ [TurnNext]_allVars => [Next]_vars
  BY <1>2
<1> QED  BY <1>1, <1>3, TurnInductive, PTL DEF TurnSpec, Spec

-----------------------------------------------------------------------------
(***************************************************************************)
(* Proofs that a run keeps what it relies on: its lease, as long as its    *)
(* heartbeats are punctual, and the recipe it linked itself to.            *)
(*                                                                         *)
(* The first is an argument about time.  A renewal sets the expiry a whole *)
(* lease ahead, and a run that is not late has renewed at most a heartbeat *)
(* interval ago, which is less than a lease: so the row is live, a live    *)
(* row is neither claimed nor collected, and nobody else can renew or      *)
(* release it, because no two runs ever hold a token of the same owner.    *)
(***************************************************************************)

HasLease(s) == s.pc \in Leased \cup {"cleanup"}

\* The row is tok's, and was renewed at most a heartbeat interval ago.
Fresh(tok) ==
  /\ Stored(TheKey)
  /\ recipes[TheKey].owner = tok.owner /\ recipes[TheKey].fence = tok.fence
  /\ now <= recipes[TheKey].expires - LeaseDuration + HeartbeatInterval

OwnersOK ==
  /\ \A r \in Run : HasLease(run[r]) => run[r].tok.owner \in 1..claims
  /\ \A r, q \in Run : r # q /\ HasLease(run[r]) /\ HasLease(run[q])
                         => run[r].tok.owner # run[q].tok.owner

PunctualOK ==
  \A r \in Run : run[r].pc \in Leased /\ ~run[r].wiped /\ ~run[r].late => Fresh(run[r].tok)

LeaseInv == OwnersOK /\ PunctualOK

-----------------------------------------------------------------------------
(***************************************************************************)
(* The shape of a run's step.                                              *)
(***************************************************************************)
\* What it does to the store.
StoreEffect(q) ==
  \/ UNCHANGED vars
  \/ \E p \in Payload : CreateOrLoad(TheKey, p, q)
  \/ RecordRunLink(TheKey, q)
  \/ Claim(TheKey)
  \/ HasLease(run[q]) /\ (Renew(run[q].tok) \/ Release(run[q].tok) \/ MarkTerminal(run[q].tok))
  \/ \E id \in CkptId : Aput(TheThread, TheNs, id, TheTurn, q)

\* A lease is taken, kept or given up.
Kept(q) ==
  /\ HasLease(run[q]) /\ run'[q].tok = run[q].tok
  /\ run'[q].late = run[q].late /\ run'[q].wiped = run[q].wiped
  /\ run'[q].pc \in Leased => run[q].pc \in Leased
  /\ UNCHANGED vars \/ Renew(run[q].tok) \/ MarkTerminal(run[q].tok)

GivenUp(q) == ~HasLease(run'[q]) /\ UNCHANGED leases

RunMoves(q) == Start(q) \/ Step(q) \/ Beat(q) \/ Raise(q) \/ Crash(q)

LEMMA OthersStay ==
  ASSUME TurnInv, NEW q \in Run, RunMoves(q), NEW r \in Run, r # q
  PROVE  run'[r] = run[r]
<1>1. run \in [Run -> RunState]
  BY RunFacts
<1> QED
  BY <1>1
  DEF RunMoves, Start, StartAt, Step, Create, Load, Link, TakeLease, LeaseDenied, Begin, Beat,
      OpEnds, Accept, NextOp, OpsOver, Mark, Stamp, Finish, Cleanup, Save, Raise,
      Crash, Goto, End, RenewOr

LEMMA MoveEffect ==
  ASSUME TurnInv, NEW q \in Run, RunMoves(q)
  PROVE  StoreEffect(q)
<1>1. CASE Start(q) \/ Load(q) \/ LeaseDenied(q) \/ OpEnds(q) \/ NextOp(q) \/ OpsOver(q)
        \/ Raise(q) \/ Crash(q)
  BY <1>1 DEF Start, StartAt, Load, LeaseDenied, OpEnds, NextOp, OpsOver, Raise, Crash, StoreEffect
<1>2. CASE Create(q)
  <2>1. run[q].want \in Payload
    BY <1>2, RunFacts DEF Create
  <2> QED  BY <1>2, <2>1 DEF Create, StoreEffect
<1>3. CASE Link(q) \/ TakeLease(q)
  BY <1>3 DEF Link, TakeLease, StoreEffect
<1>4. CASE Begin(q) \/ Beat(q) \/ Accept(q) \/ Mark(q) \/ Stamp(q) \/ Finish(q) \/ Cleanup(q)
  <2>1. HasLease(run[q])
    BY <1>4 DEF Begin, Beat, Accept, Mark, Stamp, Finish, Cleanup, HasLease, Leased
  <2> QED
    BY <1>4, <2>1 DEF Begin, Beat, Accept, Mark, Stamp, Finish, Cleanup, RenewOr, StoreEffect
<1>5. CASE Save(q)
  BY <1>5 DEF Save, NextIds, StoreEffect
<1> QED  BY <1>1, <1>2, <1>3, <1>4, <1>5 DEF RunMoves, Step

LEMMA PcOnly ==
  ASSUME TurnInv, NEW q \in Run, NEW pc \in Pc, Goto(q, pc)
  PROVE  /\ run'[q].pc = pc /\ run'[q].tok = run[q].tok
         /\ run'[q].late = run[q].late /\ run'[q].wiped = run[q].wiped
         /\ run'[q].linked = run[q].linked
<1>1. run \in [Run -> RunState] /\ run[q] \in RunState
  BY RunFacts
<1> QED  BY <1>1 DEF Goto, RunState

LEMMA EndOnly ==
  ASSUME TurnInv, NEW q \in Run, NEW pc \in Ended, End(q, pc)
  PROVE  run'[q].pc = pc /\ run'[q].linked = FALSE
BY RunFacts DEF End, Resting

LEMMA Pcs ==
  /\ Leased \cup Unleased \cup Ended \cup {"cleanup", "save"} \subseteq Pc
  /\ \A pc \in Ended \cup Unleased \cup {"save"} : pc \notin Leased /\ pc # "cleanup"
  /\ "cleanup" \notin Leased
BY DEF Pc, Leased, Unleased, Ended

LEMMA MoveShape ==
  ASSUME TurnInv, NEW q \in Run, RunMoves(q)
  PROVE  Kept(q) \/ GivenUp(q) \/ TakeLease(q)
<1> USE Pcs
<1>0. run \in [Run -> RunState] /\ run[q] \in RunState
  BY RunFacts
<1>1. ASSUME NEW pc \in Ended, End(q, pc), UNCHANGED leases PROVE GivenUp(q)
  BY <1>1, EndOnly DEF GivenUp, HasLease
<1>2. ASSUME NEW pc \in Unleased \cup {"save"}, Goto(q, pc), UNCHANGED leases PROVE GivenUp(q)
  BY <1>2, PcOnly DEF GivenUp, HasLease
<1>3. ASSUME NEW pc \in Leased \cup {"cleanup"}, Goto(q, pc), HasLease(run[q]),
             pc \in Leased => run[q].pc \in Leased,
             UNCHANGED vars \/ Renew(run[q].tok) \/ MarkTerminal(run[q].tok)
      PROVE  Kept(q)
  BY <1>3, PcOnly DEF Kept
<1>4. UNCHANGED vars => UNCHANGED leases
  BY DEF vars, leases
<1>5. ASSUME NEW p \in Place, NEW w, run'[q] = Enter(q, p, w), UNCHANGED leases PROVE GivenUp(q)
  BY <1>5 DEF GivenUp, HasLease, Enter, Unleased
<1>6. CASE Start(q)
  <2>1. PICK p, w : StartAt(q, p, w)
    BY <1>6 DEF Start
  <2>2. run'[q].pc = Enter(q, p, w).pc /\ UNCHANGED vars
    BY <1>0, <2>1 DEF StartAt, Enter
  <2> QED  BY <1>4, <2>2 DEF GivenUp, HasLease, Enter, Unleased
<1>7. CASE Create(q) \/ Load(q) \/ LeaseDenied(q)
  <2>1. UNCHANGED leases
    BY <1>4, <1>7 DEF Create, Load, LeaseDenied, CreateOrLoad
  <2>2. {"link", "load"} \subseteq Unleased /\ "failed" \in Ended /\ "claim" \in Unleased
    BY DEF Unleased, Ended
  <2>3. CASE run' = [run EXCEPT ![q].tries = @ + 1] /\ run[q].pc = "claim"
    <3>1. run'[q].pc = "claim"
      BY <1>0, <2>3 DEF RunState
    <3> QED  BY <2>1, <2>2, <3>1 DEF GivenUp, HasLease
  <2> QED  BY <1>1, <1>2, <1>7, <2>1, <2>2, <2>3 DEF Create, Load, LeaseDenied
<1>8. CASE Link(q)
  <2>1. UNCHANGED leases
    BY <1>4, <1>8 DEF Link, RecordRunLink
  <2>2. CASE run' = [run EXCEPT ![q].pc = "claim", ![q].linked = TRUE]
    <3>1. run'[q].pc = "claim"
      BY <1>0, <2>2 DEF RunState
    <3> QED  BY <2>1, <3>1 DEF GivenUp, HasLease, Unleased
  <2> QED  BY <1>1, <1>8, <2>1, <2>2 DEF Link, Ended
<1>9. CASE Begin(q) \/ Mark(q) \/ Stamp(q) \/ OpEnds(q) \/ NextOp(q) \/ OpsOver(q)
  <2>1. run[q].pc \in Leased
    BY <1>9 DEF Begin, Mark, Stamp, OpEnds, NextOp, OpsOver, Leased
  <2>2. UNCHANGED vars \/ Renew(run[q].tok) \/ MarkTerminal(run[q].tok)
    BY <1>9 DEF Begin, Mark, Stamp, OpEnds, NextOp, OpsOver, RenewOr
  <2>3. PICK pc \in Leased \cup {"cleanup"} : Goto(q, pc)
    BY <1>9 DEF Begin, Mark, Stamp, OpEnds, NextOp, OpsOver, RenewOr, Goto, Leased
  <2> QED  BY <1>3, <2>1, <2>2, <2>3 DEF HasLease
<1>10. CASE Beat(q) \/ Accept(q)
  <2>1. run[q].pc \in Leased
    BY <1>10 DEF Beat, Accept, Leased
  <2>2. CASE Goto(q, "cleanup") /\ UNCHANGED vars
    BY <1>3, <2>1, <2>2 DEF HasLease
  <2>3. CASE Renew(run[q].tok) /\ run' = run
    BY <2>1, <2>3 DEF Kept, HasLease
  <2>4. CASE Renew(run[q].tok) /\ run' = [run EXCEPT ![q].pc = "rest", ![q].ops = @ + 1]
    <3>1. /\ run'[q].tok = run[q].tok /\ run'[q].late = run[q].late
          /\ run'[q].wiped = run[q].wiped
      BY <1>0, <2>4 DEF RunState
    <3> QED  BY <2>1, <2>4, <3>1 DEF Kept, HasLease
  <2> QED  BY <1>10, <2>2, <2>3, <2>4 DEF Beat, Accept, RenewOr
<1>11. CASE Finish(q) \/ Cleanup(q)
  <2>1. UNCHANGED leases
    BY <1>4, <1>11 DEF Finish, Cleanup, Release
  <2> QED  BY <1>1, <1>2, <1>11, <2>1 DEF Finish, Cleanup, Ended
<1>12. CASE Save(q)
  <2>1. UNCHANGED leases
    BY <1>12 DEF Save, Aput
  <2>2. PICK p \in AfterNode(run[q].place) :
          IF p.node = "end" THEN End(q, "done") ELSE run' = [run EXCEPT ![q] = Enter(q, p, Nil)]
    BY <1>12 DEF Save
  <2>3. CASE End(q, "done")
    BY <1>1, <2>1, <2>3 DEF Ended
  <2>4. CASE run' = [run EXCEPT ![q] = Enter(q, p, Nil)]
    <3>1. run'[q] = Enter(q, p, Nil)
      BY <1>0, <2>4
    <3> QED  BY <2>1, <3>1 DEF GivenUp, HasLease, Enter, Unleased
  <2> QED  BY <2>2, <2>3, <2>4
<1>13. CASE Raise(q)
  <2>1. UNCHANGED vars
    BY <1>13 DEF Raise
  <2>2. CASE CleansUp(q) /\ Goto(q, "cleanup")
    <3>1. run[q].pc \in Leased
      BY <2>2 DEF CleansUp, Leased
    <3> QED  BY <1>3, <2>1, <2>2, <3>1 DEF HasLease
  <2>3. CASE End(q, "failed")
    BY <1>1, <1>4, <2>1, <2>3 DEF Ended
  <2> QED  BY <1>13, <2>2, <2>3 DEF Raise
<1>14. CASE Crash(q)
  BY <1>1, <1>4, <1>14 DEF Crash, Ended
<1> QED
  BY <1>6, <1>7, <1>8, <1>9, <1>10, <1>11, <1>12, <1>13, <1>14 DEF RunMoves, Step

-----------------------------------------------------------------------------
(***************************************************************************)
(* Owners.                                                                 *)
(***************************************************************************)
\* The world leaves the runs' pcs and tokens alone, and grants no lease.
WorldMoves == Time \/ Maintain \/ Wipe \/ UNCHANGED allVars

LEMMA WorldShape ==
  ASSUME TurnInv, WorldMoves
  PROVE  /\ \A r \in Run : /\ run'[r].pc = run[r].pc /\ run'[r].tok = run[r].tok
                           /\ run'[r].linked = run[r].linked
                           /\ ~run'[r].wiped => ~run[r].wiped \/ ~Active(r)
                           /\ ~run'[r].late => ~run[r].late \/ ~Active(r)
         /\ UNCHANGED leases
<1>0. run \in [Run -> RunState] /\ \A r \in Run : run[r] \in RunState
  BY DEF TurnInv, RunsOK
<1>1. CASE Time
  <2>1. UNCHANGED leases
    BY <1>1 DEF Time, Tick
  <2>2. ASSUME NEW r \in Run, NEW b \in BOOLEAN, b = (Active(r) /\ (run[r].late \/ ~OnTime(r))),
               NEW s, s = run'[r]
        PROVE  /\ s.pc = run[r].pc /\ s.tok = run[r].tok /\ s.linked = run[r].linked
               /\ s.wiped = run[r].wiped /\ s.late = b
    <3>1. s = [run[r] EXCEPT !.late = b]
      BY <1>1, <2>2 DEF Time
    <3> QED  BY <1>0, <3>1 DEF RunState
  <2> QED  BY <2>1, <2>2
<1>2. CASE Maintain
  <2>1. UNCHANGED leases /\ run' = run
    BY <1>2 DEF Maintain, turnVars, Reconcile, Prune, DeleteForRuns, DropCheckpoints
  <2> QED  BY <2>1
<1>3. CASE Wipe
  <2>1. UNCHANGED leases
    BY <1>3 DEF Wipe, DeleteThread
  <2>2. ASSUME NEW r \in Run, NEW b \in BOOLEAN, b = Active(r), NEW s, s = run'[r]
        PROVE  /\ s.pc = run[r].pc /\ s.tok = run[r].tok /\ s.linked = run[r].linked
               /\ s.late = run[r].late /\ s.wiped = b
    <3>1. s = [run[r] EXCEPT !.wiped = b]
      BY <1>3, <2>2 DEF Wipe
    <3> QED  BY <1>0, <3>1 DEF RunState
  <2> QED  BY <2>1, <2>2 DEF Active
<1>4. CASE UNCHANGED allVars
  BY <1>4 DEF allVars, vars, turnVars, leases
<1> QED  BY <1>1, <1>2, <1>3, <1>4 DEF WorldMoves

LEMMA OwnersKept ==
  ASSUME TurnInv, OwnersOK, (\E q \in Run : RunMoves(q)) \/ WorldMoves
  PROVE  OwnersOK'
<1>0. claims \in Nat
  BY StoreConstants DEF TurnInv, TablesOK, TypeOK
<1>1. CASE WorldMoves
  BY <1>1, WorldShape DEF OwnersOK, HasLease, leases
<1>2. ASSUME NEW q \in Run, RunMoves(q) PROVE OwnersOK'
  <2>1. \A r \in Run : r # q => run'[r] = run[r]
    BY <1>2, OthersStay
  <2>2. CASE Kept(q)
    <3>1. claims' = claims
      BY <2>2 DEF Kept, vars, Renew, MarkTerminal, leases
    <3>2. HasLease(run[q]) /\ run'[q].tok = run[q].tok
      BY <2>2 DEF Kept
    <3> QED  BY <2>1, <3>1, <3>2 DEF OwnersOK
  <2>3. CASE GivenUp(q)
    <3>1. claims' = claims /\ ~HasLease(run'[q])
      BY <2>3 DEF GivenUp, leases
    <3> QED  BY <2>1, <3>1 DEF OwnersOK
  <2>4. CASE TakeLease(q)
    <3>1. claims' = claims + 1 /\ run'[q].tok.owner = claims + 1
      <4>1. run \in [Run -> RunState] /\ run[q] \in RunState
        BY RunFacts
      <4> QED  BY <2>4, <4>1 DEF TakeLease, Claim, RunState
    <3>2. \A r \in Run : r # q /\ HasLease(run'[r]) => run'[r].tok.owner \in 1..claims
      BY <2>1 DEF OwnersOK
    <3> QED  BY <1>0, <2>1, <3>1, <3>2 DEF OwnersOK
  <2> QED  BY <1>2, <2>2, <2>3, <2>4, MoveShape
<1> QED  BY <1>1, <1>2

-----------------------------------------------------------------------------
(***************************************************************************)
(* Time.                                                                   *)
(***************************************************************************)
\* A lease renewed at most an interval ago runs: an interval is less than it.
LEMMA FreshIsLive ==
  ASSUME TurnInv, NEW tok, Fresh(tok), tok.owner # NoOwner
  PROVE  /\ Live(TheKey) /\ ~Claimable(TheKey)
         /\ recipes[TheKey].expires \in Nat
         /\ tok.key = TheKey => Holds(tok)
<1>1. /\ now \in Nat /\ LeaseDuration \in Nat \ {0} /\ recipes[TheKey] \in Row
  BY TheKeyIsKey, StoreConstants DEF TurnInv, TablesOK, TypeOK
<1>2. HeartbeatInterval \in Nat /\ HeartbeatInterval < LeaseDuration
  BY <1>1 DEF HeartbeatInterval
<1>3. recipes[TheKey].expires \in Nat \cup {NoTime}
  BY <1>1 DEF Row
<1>4. recipes[TheKey].expires > now /\ recipes[TheKey].expires \in Nat
  BY <1>1, <1>2, <1>3 DEF Fresh, NoTime
<1>5. Live(TheKey) /\ ~Claimable(TheKey)
  BY <1>4 DEF Live, Claimable, Fresh
<1> QED  BY <1>4, <1>5 DEF Fresh, Holds

\* The row and the clock say it all.
LEMMA FreshStays ==
  ASSUME NEW tok, Fresh(tok), recipes'[TheKey] = recipes[TheKey], now' = now
  PROVE  Fresh(tok)'
BY DEF Fresh, Stored

\* A renewal makes a lease fresh, and a mark leaves it so.
LEMMA RenewalIsFresh ==
  ASSUME TurnInv, NEW tok \in issued, tok.key = TheKey, Renew(tok)
  PROVE  Fresh(tok)'
<1>1. recipes \in [Key -> Row] /\ recipes[TheKey] \in Row /\ now \in Nat
      /\ LeaseDuration \in Nat \ {0}
  BY TheKeyIsKey, StoreConstants DEF TurnInv, TablesOK, TypeOK
<1>2. now + LeaseDuration - LeaseDuration + HeartbeatInterval >= now
  BY <1>1 DEF HeartbeatInterval
<1>3. /\ recipes'[TheKey].payload = recipes[TheKey].payload
      /\ recipes'[TheKey].owner = recipes[TheKey].owner
      /\ recipes'[TheKey].fence = recipes[TheKey].fence
      /\ recipes'[TheKey].expires = now + LeaseDuration /\ now' = now
  BY <1>1, TheKeyIsKey DEF Renew, Renewed, Row
<1>4. HeartbeatInterval' = HeartbeatInterval
  BY DEF HeartbeatInterval
<1> QED  BY <1>1, <1>2, <1>3, <1>4 DEF Fresh, Stored, Renew, Holds

LEMMA MarkStaysFresh ==
  ASSUME TurnInv, NEW tok \in issued, tok.key = TheKey, MarkTerminal(tok), Fresh(tok)
  PROVE  Fresh(tok)'
<1>1. recipes \in [Key -> Row] /\ recipes[TheKey] \in Row
  BY TheKeyIsKey DEF TurnInv, TablesOK, TypeOK
<1>2. /\ recipes'[TheKey].payload = recipes[TheKey].payload
      /\ recipes'[TheKey].owner = recipes[TheKey].owner
      /\ recipes'[TheKey].fence = recipes[TheKey].fence
      /\ recipes'[TheKey].expires = recipes[TheKey].expires /\ now' = now
  BY <1>1, TheKeyIsKey DEF MarkTerminal, Marked, Row
<1> QED  BY <1>2 DEF Fresh, Stored

LEMMA ClaimIsFresh ==
  ASSUME TurnInv, Claim(TheKey),
         NEW tok, tok.owner = claims + 1, tok.fence = recipes[TheKey].fence + 1
  PROVE  Fresh(tok)'
<1>1. recipes \in [Key -> Row] /\ recipes[TheKey] \in Row /\ now \in Nat
      /\ LeaseDuration \in Nat \ {0}
  BY TheKeyIsKey, StoreConstants DEF TurnInv, TablesOK, TypeOK
<1>2. now + LeaseDuration - LeaseDuration + HeartbeatInterval >= now
  BY <1>1 DEF HeartbeatInterval
<1>3. /\ recipes'[TheKey].payload = recipes[TheKey].payload
      /\ recipes'[TheKey].owner = claims + 1
      /\ recipes'[TheKey].fence = recipes[TheKey].fence + 1
      /\ recipes'[TheKey].expires = now + LeaseDuration /\ now' = now
  BY <1>1, TheKeyIsKey DEF Claim, Claimed, Row
<1> QED  BY <1>1, <1>2, <1>3 DEF Fresh, Stored, Claim, Claimable, HeartbeatInterval

-----------------------------------------------------------------------------
\* Nobody but its holder touches a fresh lease: the row is neither claimed nor
\* somebody else's to renew or release.
LEMMA OthersLeaveFresh ==
  ASSUME TurnInv, LeaseInv, NEW r \in Run, NEW q \in Run, q # r, RunMoves(q),
         HasLease(run[r]), Fresh(run[r].tok)
  PROVE  Fresh(run[r].tok)'
<1>1. PICK tok : tok = run[r].tok
  OBVIOUS
<1>2. run'[r].tok = tok /\ tok.owner \in 1..claims /\ Fresh(tok)
  BY <1>1, OthersStay DEF LeaseInv, OwnersOK
<1>3. tok.owner # NoOwner
  BY <1>2 DEF NoOwner
<1>4. ~Claimable(TheKey)
  BY <1>2, <1>3, FreshIsLive
<1>5. CASE UNCHANGED vars
  BY <1>2, <1>5, FreshStays DEF vars
<1>6. CASE \/ \E p \in Payload : CreateOrLoad(TheKey, p, q)
           \/ RecordRunLink(TheKey, q)
           \/ \E id \in CkptId : Aput(TheThread, TheNs, id, TheTurn, q)
  <2>1. UNCHANGED <<recipes, now>>
    BY <1>2, <1>6 DEF CreateOrLoad, RecordRunLink, Aput, Fresh
  <2> QED  BY <1>2, <2>1, FreshStays
<1>7. CASE Claim(TheKey)
  BY <1>4, <1>7 DEF Claim
<1>8. CASE HasLease(run[q]) /\ (Renew(run[q].tok) \/ Release(run[q].tok) \/ MarkTerminal(run[q].tok))
  <2>1. Holds(run[q].tok) /\ run[q].tok.key = TheKey
    BY <1>8, RunFacts DEF Renew, Release, MarkTerminal
  <2>2. recipes[TheKey].owner = run[q].tok.owner
    BY <2>1 DEF Holds
  <2>3. run[q].tok.owner # tok.owner
    BY <1>1, <1>8 DEF LeaseInv, OwnersOK
  <2> QED  BY <1>2, <2>2, <2>3 DEF Fresh
<1>9. StoreEffect(q)
  BY MoveEffect
<1> QED  BY <1>5, <1>6, <1>7, <1>8, <1>9 DEF StoreEffect

\* Its holder's own steps keep it fresh until they give it up.
LEMMA HolderStaysFresh ==
  ASSUME TurnInv, LeaseInv, NEW q \in Run, RunMoves(q),
         run'[q].pc \in Leased, ~run'[q].wiped, ~run'[q].late
  PROVE  Fresh(run[q].tok)'
<1>1. CASE TakeLease(q)
  <2>1. PICK tok : tok = [key |-> TheKey, owner |-> claims + 1, fence |-> recipes[TheKey].fence + 1]
    OBVIOUS
  <2>2. run \in [Run -> RunState] /\ run[q] \in RunState
    BY RunFacts
  <2>3. run'[q].tok = tok
    BY <1>1, <2>1, <2>2 DEF TakeLease, RunState
  <2>4. tok.owner = claims + 1 /\ tok.fence = recipes[TheKey].fence + 1
    BY <2>1
  <2>5. Fresh(tok)'
    BY <1>1, <2>4, ClaimIsFresh DEF TakeLease
  <2> QED  BY <2>3, <2>5 DEF Fresh
<1>2. CASE Kept(q)
  <2>1. PICK tok : tok = run[q].tok
    OBVIOUS
  <2>2. /\ run'[q].tok = tok /\ run[q].pc \in Leased /\ Fresh(tok)
    BY <1>2, <2>1 DEF Kept, LeaseInv, PunctualOK
  <2>3. tok \in issued /\ tok.key = TheKey
    BY <2>1, <2>2, RunFacts
  <2>4. Fresh(tok)'
    <3>1. CASE UNCHANGED vars
      BY <2>2, <3>1, FreshStays DEF vars
    <3>2. CASE Renew(tok)
      BY <2>3, <3>2, RenewalIsFresh
    <3>3. CASE MarkTerminal(tok)
      BY <2>2, <2>3, <3>3, MarkStaysFresh
    <3> QED  BY <1>2, <2>1, <3>1, <3>2, <3>3 DEF Kept
  <2> QED  BY <2>2, <2>4 DEF Fresh
<1>3. CASE GivenUp(q)
  BY <1>3 DEF GivenUp, HasLease
<1> QED  BY <1>1, <1>2, <1>3, MoveShape

\* Time that leaves a run on time leaves its lease fresh; maintenance collects
\* no live row; a deleted thread is not the run's fault.
LEMMA WorldStaysFresh ==
  ASSUME TurnInv, LeaseInv, WorldMoves, NEW r \in Run,
         run'[r].pc \in Leased, ~run'[r].wiped, ~run'[r].late
  PROVE  Fresh(run[r].tok)'
<1>1. PICK tok : tok = run[r].tok
  OBVIOUS
<1>2. run[r].pc \in Leased /\ run'[r].tok = tok /\ Active(r)
  BY <1>1, WorldShape DEF Active, Leased, Ended
<1>3. ~run[r].wiped /\ ~run[r].late
  BY <1>2, WorldShape
<1>4. Fresh(tok) /\ tok.owner \in 1..claims /\ tok.key = TheKey
  BY <1>1, <1>2, <1>3, RunFacts DEF LeaseInv, OwnersOK, PunctualOK, HasLease
<1>5. Live(TheKey) /\ Holds(tok)
  BY <1>4, FreshIsLive DEF NoOwner
<1>6. CASE Time
  <2>1. run[r] \in RunState
    BY RunFacts
  <2>2. OnTime(r)
    <3>1. run'[r] = [run[r] EXCEPT !.late = Active(r) /\ (run[r].late \/ ~OnTime(r))]
      BY <1>6 DEF Time
    <3>2. ASSUME NEW b, b = (Active(r) /\ (run[r].late \/ ~OnTime(r))) PROVE run'[r].late = b
      BY <2>1, <3>1, <3>2 DEF RunState
    <3> QED  BY <1>2, <3>2
  <2>3. run[r].pc = "op"
    BY <1>2, <2>2 DEF OnTime, Leased
  <2>4. now + 1 <= recipes[TheKey].expires - LeaseDuration + HeartbeatInterval
    BY <1>1, <1>5, <2>2, <2>3 DEF OnTime
  <2>5. now' = now + 1 /\ UNCHANGED recipes
    BY <1>6 DEF Time, Tick, tables
  <2>6. Fresh(tok)'
    BY <1>4, <2>4, <2>5 DEF Fresh, Stored, HeartbeatInterval
  <2> QED  BY <1>2, <2>6 DEF Fresh
<1>7. CASE Maintain
  <2>1. UNCHANGED now
    BY <1>7 DEF Maintain, Reconcile, Prune, DeleteForRuns, DropCheckpoints
  <2>2. \A cl, rl : TheKey \notin Unprotected(cl, rl)
    BY <1>5 DEF Unprotected
  <2>3. ASSUME NEW gone, TheKey \notin gone, recipes' = Without(gone)
        PROVE  recipes'[TheKey] = recipes[TheKey]
    BY <2>3, TheKeyIsKey DEF Without
  <2>4. recipes'[TheKey] = recipes[TheKey]
    <3>1. CASE Reconcile
      <4>1. PICK cl : recipes' = Without({k \in Unprotected(cl, KeptRunLinks) : OldEnough(k)})
        BY <3>1 DEF Reconcile
      <4> QED  BY <2>2, <2>3, <4>1
    <3>2. ASSUME NEW gone, NEW rl, DropCheckpoints(gone, rl)
          PROVE  recipes'[TheKey] = recipes[TheKey]
      <4>1. PICK cl : recipes' = Without(Unprotected(cl, rl))
        BY <3>2 DEF DropCheckpoints
      <4> QED  BY <2>2, <2>3, <4>1
    <3> QED  BY <1>7, <3>1, <3>2 DEF Maintain, Prune, DeleteForRuns
  <2>5. Fresh(tok)'
    BY <1>4, <2>1, <2>4, FreshStays
  <2> QED  BY <1>2, <2>5 DEF Fresh
<1>8. CASE Wipe
  <2>1. run[r] \in RunState
    BY RunFacts
  <2>2. run'[r] = [run[r] EXCEPT !.wiped = Active(r)]
    BY <1>8 DEF Wipe
  <2>3. run'[r].wiped = TRUE
    BY <1>2, <2>1, <2>2 DEF RunState
  <2> QED  BY <2>3
<1>9. CASE UNCHANGED allVars
  <2>1. Fresh(tok)'
    BY <1>4, <1>9, FreshStays DEF allVars, vars
  <2> QED  BY <1>2, <2>1 DEF Fresh
<1> QED  BY <1>6, <1>7, <1>8, <1>9 DEF WorldMoves

LEMMA LeaseInductive == TurnSpec => [](TurnInv /\ LeaseInv)
<1>1. TurnInit => LeaseInv
  BY DEF TurnInit, LeaseInv, OwnersOK, PunctualOK, HasLease, Leased, Idle, Resting
<1>2. ASSUME TurnInv, LeaseInv, [TurnNext]_allVars PROVE LeaseInv'
  <2>1. (\E q \in Run : RunMoves(q)) \/ WorldMoves
    BY <1>2 DEF TurnNext, RunMoves, WorldMoves
  <2>2. OwnersOK'
    BY <1>2, <2>1, OwnersKept DEF LeaseInv
  <2>3. ASSUME NEW r \in Run, run'[r].pc \in Leased, ~run'[r].wiped, ~run'[r].late
        PROVE  Fresh(run[r].tok)'
    <3>1. CASE WorldMoves
      BY <1>2, <2>3, <3>1, WorldStaysFresh
    <3>2. ASSUME NEW q \in Run, RunMoves(q) PROVE Fresh(run[r].tok)'
      <4>1. CASE q = r
        BY <1>2, <2>3, <3>2, <4>1, HolderStaysFresh
      <4>2. CASE q # r
        <5>1. run'[r] = run[r]
          BY <1>2, <3>2, <4>2, OthersStay
        <5>2. HasLease(run[r]) /\ Fresh(run[r].tok)
          BY <1>2, <2>3, <5>1 DEF LeaseInv, PunctualOK, HasLease
        <5> QED  BY <1>2, <3>2, <4>2, <5>2, OthersLeaveFresh
      <4> QED  BY <4>1, <4>2
    <3> QED  BY <2>1, <3>1, <3>2
  <2> QED  BY <2>2, <2>3 DEF LeaseInv, PunctualOK, Fresh
<1>3. TurnInv /\ LeaseInv /\ [TurnNext]_allVars => LeaseInv'
  BY <1>2
<1> QED  BY <1>1, <1>3, TurnInductive, PTL DEF TurnSpec

\* Punctual heartbeats keep the lease: however long a node's operations take and
\* however late other runs are, no other run takes its lease over.
THEOREM PunctualHeartbeatsKeepLeases == TurnSpec => []PunctualHeartbeatKeepsLease
<1>1. ASSUME TurnInv, LeaseInv, NEW r \in Run,
             run[r].pc \in Leased, ~run[r].wiped, ~run[r].late
      PROVE  Holds(run[r].tok)
  <2>1. PICK tok : tok = run[r].tok
    OBVIOUS
  <2>2. Fresh(tok) /\ tok.owner \in 1..claims /\ tok.key = TheKey
    BY <1>1, <2>1, RunFacts DEF LeaseInv, OwnersOK, PunctualOK, HasLease
  <2> QED  BY <1>1, <2>1, <2>2, FreshIsLive DEF NoOwner
<1>2. TurnInv /\ LeaseInv => PunctualHeartbeatKeepsLease
  BY <1>1 DEF PunctualHeartbeatKeepsLease
<1> QED  BY <1>2, LeaseInductive, PTL

-----------------------------------------------------------------------------
(***************************************************************************)
(* The recipe.  A run that linked itself has a link until it ends: its own *)
(* links go with its own rollback, which comes after its end, with the     *)
(* whole thread, or with the retention, which starts at the first link and *)
(* is not extended by the later ones.  So the theorem speaks of the first  *)
(* retention only: a run that is still going after that may lose its link  *)
(* between two of its nodes.                                               *)
(***************************************************************************)
HasLink(r) == \E l \in runLinks : l.key = TheKey /\ l.run = r

LinkedOK ==
  \A r \in Run : /\ run[r].linked /\ ~run[r].wiped => HasLink(r)
                 /\ run[r].linked => Active(r)

\* The steps of the runs drop no link, and only Link makes a run linked.
LEMMA MovesKeepLinks ==
  ASSUME TurnInv, NEW q \in Run, RunMoves(q)
  PROVE  runLinks \subseteq runLinks'
<1>1. StoreEffect(q)
  BY MoveEffect
<1>2. CASE UNCHANGED vars
  BY <1>2 DEF vars
<1>3. CASE \E p \in Payload : CreateOrLoad(TheKey, p, q)
  BY <1>3 DEF CreateOrLoad, WithRunLink
<1>4. CASE RecordRunLink(TheKey, q)
  BY <1>4 DEF RecordRunLink, WithRunLink
<1>5. CASE \/ Claim(TheKey) \/ Renew(run[q].tok) \/ Release(run[q].tok)
           \/ MarkTerminal(run[q].tok)
           \/ \E id \in CkptId : Aput(TheThread, TheNs, id, TheTurn, q)
  BY <1>5 DEF Claim, Renew, Release, MarkTerminal, Aput
<1> QED  BY <1>1, <1>2, <1>3, <1>4, <1>5 DEF StoreEffect

LEMMA MoveLinked ==
  ASSUME TurnInv, LinkedOK, NEW q \in Run, RunMoves(q), run'[q].linked
  PROVE  /\ Active(q)'
         /\ ~run'[q].wiped => Link(q) \/ (run[q].linked /\ ~run[q].wiped)
<1>0. run \in [Run -> RunState] /\ run[q] \in RunState
  BY RunFacts
<1>1. ASSUME NEW pc \in Ended, End(q, pc) PROVE FALSE
  BY <1>1, EndOnly
<1>2. ASSUME NEW pc \in Pc \ Ended, Goto(q, pc)
      PROVE  Active(q)' /\ run[q].linked /\ run'[q].wiped = run[q].wiped
  BY <1>2, PcOnly DEF Active
<1>3. CASE Start(q)
  <2>1. PICK p, w : StartAt(q, p, w)
    BY <1>3 DEF Start
  <2>2. run'[q].linked = run[q].linked /\ ~Active(q)
    BY <1>0, <2>1 DEF StartAt, Enter, Active, Ended
  <2> QED  BY <2>2 DEF LinkedOK
<1>4. CASE Create(q)
  BY <1>2, <1>4 DEF Create, Pc, Unleased, Ended
<1>5. CASE Load(q)
  BY <1>1, <1>2, <1>5 DEF Load, Pc, Unleased, Ended
<1>6. CASE Link(q)
  <2>1. CASE run' = [run EXCEPT ![q].pc = "claim", ![q].linked = TRUE]
    <3>1. run'[q].pc = "claim"
      BY <1>0, <2>1 DEF RunState
    <3> QED  BY <1>6, <3>1 DEF Active, Ended
  <2> QED  BY <1>1, <1>6, <2>1 DEF Link, Ended
<1>7. CASE TakeLease(q)
  <2>1. run'[q].pc = "begin" /\ run'[q].linked = run[q].linked /\ run'[q].wiped = run[q].wiped
    BY <1>0, <1>7 DEF TakeLease, RunState
  <2> QED  BY <2>1 DEF Active, Ended
<1>8. CASE LeaseDenied(q)
  <2>1. CASE run' = [run EXCEPT ![q].tries = @ + 1]
    <3>1. run'[q].pc = run[q].pc /\ run'[q].linked = run[q].linked /\ run'[q].wiped = run[q].wiped
      BY <1>0, <2>1 DEF RunState
    <3> QED  BY <1>8, <3>1 DEF LeaseDenied, Active, Ended
  <2> QED  BY <1>1, <1>8, <2>1 DEF LeaseDenied, Ended
<1>9. CASE Begin(q) \/ Mark(q) \/ Stamp(q) \/ OpEnds(q) \/ NextOp(q) \/ OpsOver(q)
  <2>1. PICK pc \in Leased \cup {"cleanup"} : Goto(q, pc)
    BY <1>9 DEF Begin, Mark, Stamp, OpEnds, NextOp, OpsOver, RenewOr, Goto, Leased
  <2>2. pc \in Pc \ Ended
    BY DEF Pc, Leased, Ended
  <2> QED  BY <1>2, <2>1, <2>2
<1>10. CASE Beat(q) \/ Accept(q)
  <2>1. CASE Goto(q, "cleanup")
    <3>1. "cleanup" \in Pc \ Ended
      BY DEF Pc, Ended
    <3> QED  BY <1>2, <2>1, <3>1
  <2>2. CASE run' = run
    BY <1>10, <2>2 DEF Beat, Accept, Active, Ended
  <2>3. CASE run' = [run EXCEPT ![q].pc = "rest", ![q].ops = @ + 1]
    <3>1. run'[q].pc = "rest" /\ run'[q].linked = run[q].linked /\ run'[q].wiped = run[q].wiped
      BY <1>0, <2>3 DEF RunState
    <3> QED  BY <3>1 DEF Active, Ended
  <2> QED  BY <1>10, <2>1, <2>2, <2>3 DEF Beat, Accept, RenewOr
<1>11. CASE Finish(q) \/ Cleanup(q)
  <2>1. "save" \in Pc \ Ended /\ "failed" \in Ended
    BY DEF Pc, Ended
  <2> QED  BY <1>1, <1>2, <1>11, <2>1 DEF Finish, Cleanup
<1>12. CASE Save(q)
  <2>1. PICK p \in AfterNode(run[q].place) :
          IF p.node = "end" THEN End(q, "done") ELSE run' = [run EXCEPT ![q] = Enter(q, p, Nil)]
    BY <1>12 DEF Save
  <2>2. CASE run' = [run EXCEPT ![q] = Enter(q, p, Nil)]
    <3>1. /\ run'[q].linked = run[q].linked /\ run'[q].wiped = run[q].wiped
          /\ run'[q].pc \in {"create", "load"}
      BY <1>0, <2>2 DEF Enter
    <3> QED  BY <3>1 DEF Active, Ended
  <2> QED  BY <1>1, <2>1, <2>2 DEF Ended
<1>13. CASE Raise(q)
  <2>1. "cleanup" \in Pc \ Ended /\ "failed" \in Ended
    BY DEF Pc, Ended
  <2> QED  BY <1>1, <1>2, <1>13, <2>1 DEF Raise
<1>14. CASE Crash(q)
  BY <1>1, <1>14 DEF Crash, Ended
<1> QED
  BY <1>3, <1>4, <1>5, <1>6, <1>7, <1>8, <1>9, <1>10, <1>11, <1>12, <1>13, <1>14
  DEF RunMoves, Step

LEMMA LinksKept ==
  ASSUME MaxNow < Retention, TurnInv, LinkedOK, [TurnNext]_allVars
  PROVE  LinkedOK'
<1>1. ASSUME NEW q \in Run, RunMoves(q) PROVE LinkedOK'
  <2>1. runLinks \subseteq runLinks'
    BY <1>1, MovesKeepLinks
  <2>2. ASSUME NEW r \in Run, r # q, run'[r].linked
        PROVE  Active(r)' /\ (~run'[r].wiped => HasLink(r)')
    <3>1. run'[r] = run[r]
      BY <1>1, <2>2, OthersStay
    <3> QED  BY <2>1, <2>2, <3>1 DEF LinkedOK, HasLink, Active
  <2>3. ASSUME run'[q].linked PROVE Active(q)' /\ (~run'[q].wiped => HasLink(q)')
    <3>1. CASE Link(q)
      <4>1. RecordRunLink(TheKey, q)
        <5>1. ~End(q, "failed")
          BY <1>1, <2>3, EndOnly DEF Ended
        <5> QED  BY <3>1, <5>1 DEF Link
      <4>2. \E l \in WithRunLink(TheKey, q) : l.key = TheKey /\ l.run = q
        <5>1. CASE \E l \in runLinks : l.key = TheKey /\ l.run = q
          BY <5>1 DEF WithRunLink
        <5>2. CASE ~\E l \in runLinks : l.key = TheKey /\ l.run = q
          <6> DEFINE new == [key |-> TheKey, run |-> q, created |-> now]
          <6>1. new \in WithRunLink(TheKey, q)
            BY <5>2 DEF WithRunLink
          <6> QED  BY <6>1
        <5> QED  BY <5>1, <5>2
      <4>3. HasLink(q)'
        BY <4>1, <4>2 DEF RecordRunLink, HasLink, TheKey
      <4> QED  BY <1>1, <2>3, <4>3, MoveLinked
    <3>2. CASE ~Link(q)
      <4>1. Active(q)' /\ (~run'[q].wiped => run[q].linked /\ ~run[q].wiped)
        BY <1>1, <2>3, <3>2, MoveLinked
      <4> QED  BY <2>1, <4>1 DEF LinkedOK, HasLink
    <3> QED  BY <3>1, <3>2
  <2> QED  BY <2>2, <2>3 DEF LinkedOK
<1>2. ASSUME WorldMoves, NEW r \in Run, run'[r].linked
      PROVE  Active(r)' /\ (~run'[r].wiped => HasLink(r)')
  <2>1. run[r].linked /\ Active(r) /\ run'[r].pc = run[r].pc
    BY <1>2, WorldShape DEF LinkedOK
  <2>2. Active(r)'
    BY <2>1 DEF Active
  <2>3. ASSUME ~run'[r].wiped PROVE HasLink(r)'
    <3>1. PICK l \in runLinks : l.key = TheKey /\ l.run = r
      BY <1>2, <2>1, <2>3, WorldShape DEF LinkedOK, HasLink
    <3>2. l.created > now - Retention
      BY StoreConstants DEF TurnInv, TablesOK, TypeOK, RunLink
    <3>3. l \in runLinks'
      <4>1. CASE Time \/ UNCHANGED allVars
        BY <4>1 DEF Time, Tick, tables, allVars, vars
      <4>2. CASE Maintain
        <5>1. CASE Reconcile
          BY <3>2, <5>1 DEF Reconcile, KeptRunLinks
        <5>2. CASE Prune({TheThread})
          BY <5>2 DEF Prune, DropCheckpoints
        <5>3. ASSUME NEW q \in Run, run[q].pc \in {"done", "failed"}, DeleteForRuns({q})
              PROVE  l \in runLinks'
          <6>1. q # r
            BY <2>1, <5>3 DEF Active, Ended
          <6> QED  BY <3>1, <5>3, <6>1 DEF DeleteForRuns, DropCheckpoints
        <5> QED  BY <4>2, <5>1, <5>2, <5>3 DEF Maintain
      <4>3. CASE Wipe
        <5>1. run[r] \in RunState
          BY RunFacts
        <5>2. run'[r] = [run[r] EXCEPT !.wiped = Active(r)]
          BY <4>3 DEF Wipe
        <5>3. run'[r].wiped = TRUE
          BY <2>1, <5>1, <5>2 DEF RunState
        <5> QED  BY <2>3, <5>3
      <4> QED  BY <1>2, <4>1, <4>2, <4>3 DEF WorldMoves
    <3> QED  BY <3>1, <3>3 DEF HasLink
  <2> QED  BY <2>2, <2>3
<1> QED  BY <1>1, <1>2 DEF TurnNext, RunMoves, WorldMoves, LinkedOK

\* A run that linked itself to the recipe finds it until it ends, unless its
\* thread is deleted: for runs that end within the retention of their first link.
THEOREM LinkedRunsFindRecipe == MaxNow < Retention => (TurnSpec => []LinkedRunFindsRecipe)
<1> SUFFICES ASSUME MaxNow < Retention PROVE TurnSpec => []LinkedRunFindsRecipe
  OBVIOUS
<1>1. TurnInit => LinkedOK
  BY DEF TurnInit, LinkedOK, Idle, Resting
<1>2. TurnInv /\ LinkedOK /\ [TurnNext]_allVars => LinkedOK'
  BY LinksKept
<1>3. TurnInv /\ LinkedOK => LinkedRunFindsRecipe
  BY DEF LinkedOK, HasLink, LinkedRunFindsRecipe, TurnInv, TablesOK, LinksResolve
<1> QED  BY <1>1, <1>2, <1>3, TurnInductive, PTL DEF TurnSpec
=============================================================================
