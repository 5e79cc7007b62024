---------------------------- MODULE ToolAgentTurn ----------------------------
(***************************************************************************)
(* The runs that execute one tool-agent turn on top of the recipe store.   *)
(*                                                                         *)
(* A run walks the graph setup -> agent <-> tools -> compose of            *)
(* src/rag_agent/graphs/chat_agent.py.  Every node reconstructs the turn   *)
(* from its recipe (tool_agent_turn.py): it creates or loads the recipe,   *)
(* links its run to it, claims the lease, runs its external operations     *)
(* (loading the MCP tools, the model, the tools, reranking and synthesis)  *)
(* under a lease heartbeat, marks the turn terminal if it composes, and    *)
(* releases the lease.  Each of these calls is one transaction of the      *)
(* store, so other runs, the clock and the checkpointer's maintenance act  *)
(* between any two of them.  A run may be cancelled or fail at any await,  *)
(* crash anywhere, and be started again from any retained checkpoint.      *)
(*                                                                         *)
(* One thread and one turn are modelled: leases and recipes of different   *)
(* turns do not interact, except through the checkpointer's maintenance,   *)
(* which RecipeStore covers.                                               *)
(***************************************************************************)
EXTENDS RecipeStore

CONSTANTS
  TheThread, TheTurn, TheNs,  \* the turn that is executed
  RoundLimit,   \* tool_round_limit of its recipe
  MaxStarts     \* bound: how often one run is started

ASSUME TurnConstants ==
  /\ TheThread \in Thread /\ TheTurn \in Turn /\ TheNs \in Ns
  /\ {RoundLimit, MaxStarts} \subseteq Nat \ {0}

VARIABLES
  run,    \* what each run is doing
  saved   \* where a run that resumes from a checkpoint continues

turnVars == <<run, saved>>
allVars == <<vars, turnVars>>

TheKey == <<TheThread, TheTurn>>

ClaimAttempts == 4     \* _CLAIM_RETRY_ATTEMPTS

\* Half of the lease, after a faulty interval that lets the lease run out.
WholeLease == LeaseDuration
HeartbeatInterval == LeaseDuration \div 2

Node == {"setup", "agent", "tools", "compose"}

\* A place in the graph: the node to run and the remaining model calls.
Place == [node : Node \cup {"end"}, left : 0..RoundLimit]
Entry == [node |-> "setup", left |-> 0]

Unleased == {"create", "load", "link", "claim"}
Leased   == {"begin", "op", "accept", "rest", "mark", "stamp", "release"}
Ended    == {"idle", "done", "failed", "crashed"}
Pc       == Unleased \cup Leased \cup {"cleanup", "save"} \cup Ended

NoToken == [key |-> TheKey, owner |-> NoOwner, fence |-> 0]

RunState == [pc : Pc, place : Place, want : Payload \cup {Nil},
             tok : Token \cup {NoToken}, tries : 0..ClaimAttempts, ops : 0..3,
             starts : 0..MaxStarts, linked : BOOLEAN, wiped : BOOLEAN,
             late : BOOLEAN]   \* history: time passed a due heartbeat of this node

\* A run that was started n times and does nothing.
Resting(pc, n) ==
  [pc |-> pc, place |-> Entry, want |-> Nil, tok |-> NoToken, tries |-> 0, ops |-> 0,
   starts |-> n, linked |-> FALSE, wiped |-> FALSE, late |-> FALSE]

Idle == Resting("idle", 0)

Active(r) == run[r].pc \notin Ended
Goto(r, pc) == run' = [run EXCEPT ![r].pc = pc]

\* A run ends and forgets everything but how often it was started.
End(r, pc) == run' = [run EXCEPT ![r] = Resting(pc, run[r].starts)]

\* Heartbeat-protected operations of a node: the MCP tools are loaded first;
\* then the model (unless the limit is reached), the tools (if there are any),
\* and in a composition at most a reranking and a synthesis.
MinOps(p) == IF p.node = "agent" /\ p.left > 0 THEN 2 ELSE 1
MaxOps(p) == CASE p.node = "setup" -> 1
               [] p.node = "agent" -> MinOps(p)
               [] p.node = "tools" -> 2
               [] OTHER -> 3

\* Where the graph goes after a node.  A model answer may ask for tools; the
\* answer made up when no calls remain never does.  The first definition is a
\* faulty one that never stops asking.
AfterNodeUnlimited(p) ==
  CASE p.node = "setup" -> {[node |-> "agent", left |-> RoundLimit]}
    [] p.node = "agent" -> {[node |-> n, left |-> p.left - 1] : n \in {"tools", "compose"}}
    [] p.node = "tools" -> {[p EXCEPT !.node = "agent"]}
    [] p.node = "compose" -> {[node |-> "end", left |-> 0]}

AfterNode(p) ==
  CASE p.node = "setup" -> {[node |-> "agent", left |-> RoundLimit]}
    [] p.node = "agent" /\ p.left > 0 -> {[node |-> n, left |-> p.left - 1] : n \in {"tools", "compose"}}
    [] p.node = "agent" /\ p.left = 0 -> {[node |-> "compose", left |-> 0]}
    [] p.node = "tools" -> {[p EXCEPT !.node = "agent"]}
    [] p.node = "compose" -> {[node |-> "end", left |-> 0]}

TurnInit ==
  /\ Init
  /\ run = [r \in Run |-> Idle]
  /\ saved = [id \in CkptId |-> Entry]

-----------------------------------------------------------------------------
\* Run r enters the node at place p; the setup node wants recipe w.
Enter(r, p, w) ==
  [pc |-> IF p.node = "setup" THEN "create" ELSE "load",
   place |-> p, want |-> w, tok |-> NoToken, tries |-> 0, ops |-> 0,
   starts |-> run[r].starts, linked |-> run[r].linked, wiped |-> run[r].wiped,
   late |-> FALSE]

\* The Agent Server starts a run, at the entry or at a retained checkpoint, or
\* starts it again after a crash.
StartAt(r, p, w) ==
  /\ run[r].pc \in {"idle", "crashed"} /\ run[r].starts < MaxStarts
  /\ run' = [run EXCEPT ![r] = [Enter(r, p, w) EXCEPT !.starts = @ + 1]]
  /\ UNCHANGED <<vars, saved>>

Start(r) ==
  \/ \E w \in Payload : StartAt(r, Entry, w)
  \/ \E c \in checkpoints : saved[c.id].node # "end" /\ StartAt(r, saved[c.id], Nil)

\* _load_or_create_recipe, create: the recipe this run asks for was inserted or
\* is the stored one, or it conflicts.
Create(r) ==
  /\ run[r].pc = "create"
  /\ \/ CreateOrLoad(TheKey, run[r].want, r) /\ Goto(r, "link")
     \/ /\ Stored(TheKey)
        /\ recipes[TheKey].payload # run[r].want \/ recipes[TheKey].origin # r
        /\ Goto(r, "load") /\ UNCHANGED vars
  /\ UNCHANGED saved

\* _load_or_create_recipe, load: after a conflict only a recipe that differs in
\* nothing but its origin run will do.
Load(r) ==
  /\ run[r].pc = "load"
  /\ IF Stored(TheKey) /\ run[r].want \in {Nil, recipes[TheKey].payload}
     THEN Goto(r, "link") ELSE End(r, "failed")
  /\ UNCHANGED <<vars, saved>>

Link(r) ==
  /\ run[r].pc = "link"
  /\ \/ RecordRunLink(TheKey, r) /\ run' = [run EXCEPT ![r].pc = "claim", ![r].linked = TRUE]
     \/ ~Stored(TheKey) /\ End(r, "failed") /\ UNCHANGED vars
  /\ UNCHANGED saved

\* The claim loop of reconstruct_tool_agent_turn.
TakeLease(r) ==
  /\ run[r].pc = "claim"
  /\ Claim(TheKey)
  /\ run' = [run EXCEPT ![r].pc = "begin",
                        ![r].tok = [key |-> TheKey, owner |-> claims + 1,
                                    fence |-> recipes[TheKey].fence + 1]]
  /\ UNCHANGED saved

\* ALREADY_ACTIVE is tried again a few times, MISSING is not.  The first
\* definition is a faulty one that waits for as long as it takes.
LeaseAwaited(r) == run[r].pc = "claim" /\ ~Claimable(TheKey) /\ UNCHANGED allVars

LeaseDenied(r) ==
  /\ run[r].pc = "claim" /\ ~Claimable(TheKey)
  /\ IF Stored(TheKey) /\ run[r].tries + 1 < ClaimAttempts
     THEN run' = [run EXCEPT ![r].tries = @ + 1] ELSE End(r, "failed")
  /\ UNCHANGED <<vars, saved>>

-----------------------------------------------------------------------------
(***************************************************************************)
(* run_with_lease_heartbeat: renew, run the operation with a task that     *)
(* renews every half lease, renew again before the result is accepted.  A  *)
(* renewal that fails cancels the operation.                               *)
(***************************************************************************)
RenewOr(r, ok) ==
  \/ Renew(run[r].tok) /\ run' = ok
  \/ ~Holds(run[r].tok) /\ Goto(r, "cleanup") /\ UNCHANGED vars

Begin(r) ==
  /\ run[r].pc = "begin" /\ RenewOr(r, [run EXCEPT ![r].pc = "op"]) /\ UNCHANGED saved

Beat(r) ==
  /\ run[r].pc = "op" /\ RenewOr(r, run) /\ UNCHANGED saved

OpEnds(r) ==
  /\ run[r].pc = "op" /\ Goto(r, "accept") /\ UNCHANGED <<vars, saved>>

Accept(r) ==
  /\ run[r].pc = "accept"
  /\ RenewOr(r, [run EXCEPT ![r].pc = "rest", ![r].ops = @ + 1])
  /\ UNCHANGED saved

\* The node's own code between two operations and after the last.
NextOp(r) ==
  /\ run[r].pc = "rest" /\ run[r].ops < MaxOps(run[r].place)
  /\ Goto(r, "begin") /\ UNCHANGED <<vars, saved>>

OpsOver(r) ==
  /\ run[r].pc = "rest" /\ run[r].ops >= MinOps(run[r].place)
  /\ Goto(r, IF run[r].place.node = "compose" THEN "mark" ELSE "release")
  /\ UNCHANGED <<vars, saved>>

\* mark_tool_agent_turn_terminal: one more renewal, then the mark.
Mark(r) ==
  /\ run[r].pc = "mark" /\ RenewOr(r, [run EXCEPT ![r].pc = "stamp"]) /\ UNCHANGED saved

Stamp(r) ==
  /\ run[r].pc = "stamp"
  /\ \/ MarkTerminal(run[r].tok) /\ Goto(r, "release")
     \/ ~Holds(run[r].tok) /\ Goto(r, "cleanup") /\ UNCHANGED vars
  /\ UNCHANGED saved

\* A node whose release is refused has failed, whatever it computed.
Finish(r) ==
  /\ run[r].pc = "release"
  /\ \/ Release(run[r].tok) /\ Goto(r, "save")
     \/ ~Holds(run[r].tok) /\ End(r, "failed") /\ UNCHANGED vars
  /\ UNCHANGED saved

\* release_tool_agent_turn_after_failure: best effort.
Cleanup(r) ==
  /\ run[r].pc = "cleanup"
  /\ \/ Release(run[r].tok)
     \/ ~Holds(run[r].tok) /\ UNCHANGED vars
  /\ End(r, "failed") /\ UNCHANGED saved

\* The least id above every retained checkpoint's: ids grow with time, and how
\* far apart they are makes no difference.
NextIds == {id \in CkptId : /\ \A c \in checkpoints : c.id < id
                           /\ \A i \in CkptId : i < id => \E c \in checkpoints : i <= c.id}

\* The Agent Server writes the node's checkpoint and goes on from it.
Save(r) ==
  /\ run[r].pc = "save"
  /\ \E id \in NextIds, p \in AfterNode(run[r].place) :
       /\ Aput(TheThread, TheNs, id, TheTurn, r)
       /\ saved' = [saved EXCEPT ![id] = p]
       /\ IF p.node = "end" THEN End(r, "done") ELSE run' = [run EXCEPT ![r] = Enter(r, p, Nil)]

-----------------------------------------------------------------------------
\* An exception or a cancellation at an await: a run with a lease cleans up,
\* unless it was giving the lease back (where only a composition tries again).
CleansUp(r) ==
  \/ run[r].pc \in Leased \ {"release"}
  \/ run[r].pc = "release" /\ run[r].place.node = "compose"

Raise(r) ==
  /\ Active(r)
  /\ IF CleansUp(r) THEN Goto(r, "cleanup") ELSE End(r, "failed")
  /\ UNCHANGED <<vars, saved>>

Crash(r) == Active(r) /\ End(r, "crashed") /\ UNCHANGED <<vars, saved>>

\* Time, the checkpointer's maintenance, and the rollback of ended runs.  Time
\* is on time for a run if its heartbeats fire when they are due and the steps
\* between two operations are not stretched; otherwise the run is late.
OnTime(r) ==
  /\ run[r].pc \notin {"begin", "accept", "rest", "mark", "stamp", "release", "cleanup"}
  /\ run[r].pc = "op" /\ Holds(run[r].tok) =>
       now + 1 <= recipes[TheKey].expires - LeaseDuration + HeartbeatInterval

Time ==
  /\ Tick
  /\ run' = [r \in Run |-> [run[r] EXCEPT !.late = Active(r) /\ (@ \/ ~OnTime(r))]]
  /\ UNCHANGED saved

Maintain ==
  /\ \/ Reconcile
     \/ Prune({TheThread})
     \/ \E r \in Run : run[r].pc \in {"done", "failed"} /\ DeleteForRuns({r})
  /\ UNCHANGED turnVars

Wipe ==
  /\ DeleteThread(TheThread)
  /\ run' = [r \in Run |-> [run[r] EXCEPT !.wiped = Active(r)]]
  /\ UNCHANGED saved

Step(r) == \/ Create(r) \/ Load(r) \/ Link(r) \/ TakeLease(r) \/ LeaseDenied(r)
           \/ Begin(r) \/ OpEnds(r) \/ Accept(r) \/ NextOp(r) \/ OpsOver(r)
           \/ Mark(r) \/ Stamp(r) \/ Finish(r) \/ Cleanup(r) \/ Save(r)

TurnNext ==
  \/ \E r \in Run : Start(r) \/ Step(r) \/ Beat(r) \/ Raise(r) \/ Crash(r)
  \/ Time \/ Maintain \/ Wipe

TurnSpec == TurnInit /\ [][TurnNext]_allVars

(***************************************************************************)
(* A run that is executing goes on: the event loop schedules it, and the   *)
(* model, the tools and the MCP servers answer or time out.                *)
(***************************************************************************)
FairTurnSpec == TurnSpec /\ \A r \in Run : WF_allVars(Step(r))

-----------------------------------------------------------------------------
TurnTypeOK ==
  /\ TypeOK
  /\ run \in [Run -> RunState]
  /\ saved \in [CkptId -> Place]

\* A node that succeeds was alone: from its claim to its release nobody else
\* claimed the turn, although leases expire under slow runs and a deleted and
\* recreated recipe counts its fences from zero.
NodesRunAlone ==
  [][\A r \in Run : run[r].pc = "release" /\ run'[r].pc = "save" => run[r].tok.owner = claims]_allVars

\* A run that linked itself to the recipe finds it until it ends, between its
\* nodes too and before its first checkpoint, unless the whole thread is deleted:
\* pruning, reconciliation and the rollback of other runs never fail it.
LinkedRunFindsRecipe ==
  \A r \in Run : Active(r) /\ run[r].linked /\ ~run[r].wiped => Stored(TheKey)

\* Heartbeats that fire when they are due keep the lease: no other run can take
\* it over from a run that is still executing an operation, however long it takes,
\* and however late the other run's own heartbeats are.
PunctualHeartbeatKeepsLease ==
  \A r \in Run : run[r].pc \in Leased /\ ~run[r].wiped /\ ~run[r].late => Holds(run[r].tok)

\* Every run that starts ends: waiting for a lease is bounded, a lost lease ends
\* the node that lost it, and the agent and the tools cannot alternate for ever.
RunsEnd == \A r \in Run : Active(r) ~> ~Active(r)
=============================================================================
