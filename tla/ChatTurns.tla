------------------------------ MODULE ChatTurns ------------------------------
(***************************************************************************)
(* What the turns of a chat leave in the messages of their thread.         *)
(*                                                                         *)
(* A run of the graph (src/rag_agent/graphs/chat_agent.py) appends to the  *)
(* persisted messages: the direct and the rag node one answer each; in the *)
(* mcp and mixed modes the agent's messages, the results of the tools it   *)
(* calls, and a composed answer.  Setup stores a recipe of the turn, and   *)
(* each later node loads its tools anew, from a configuration that may     *)
(* have changed, if the recipe still fits (reconstruct_tool_agent_turn).   *)
(* The composition has only the persisted messages to go by: it            *)
(* reconstructs which tools were called and how they ended                 *)
(* (analyze_tool_execution), what the latest Oracle retrieval found        *)
(* (OracleRetrievalEvidenceStore.from_persisted_messages), decides on the  *)
(* answer, and either labels the agent's own message as the terminal one   *)
(* or adds a message (messages_from_result).  Runs may fail in any node,   *)
(* which leaves an unfinished turn in front of the next one.               *)
(*                                                                         *)
(* Leases and crashes are in ToolAgentTurn.  Texts are reduced to where    *)
(* they come from, documents and call ids to identities, and the tools of  *)
(* a server to the server.                                                 *)
(***************************************************************************)
EXTENDS Integers, Sequences, FiniteSets, SequencesExt

CONSTANTS
  Mode,       \* the modes in use, of {"direct", "rag", "mcp", "mixed"}
  Doc,        \* what a retrieval may find
  CallId,     \* ids of tool calls; the model may use one again
  Server,     \* keys of MCP servers, each for its tools
  Behaviour, Secret, \* what a server's definition says, and its credentials
  EmptySelection,    \* _EMPTY_MCP_SELECTION
  Required,   \* tools that MCP_WORKFLOW_POLICY requires of a mixed turn
  Reranker,   \* enable_reranker
  RoundLimit, \* tool_round_limit: calls of the model in one turn
  MaxTurns, MaxCalls, MaxCallsPerAnswer  \* bounds: turns and tool calls

Oracle == "oracle_retrieval"
Tool == Server \cup {Oracle}

ASSUME ChatConstants ==
  /\ Mode \subseteq {"direct", "rag", "mcp", "mixed"}
  /\ Oracle \notin Server /\ EmptySelection \notin Server
  /\ Required \subseteq Tool /\ Reranker \in BOOLEAN
  /\ {RoundLimit, MaxTurns, MaxCalls, MaxCallsPerAnswer} \subseteq Nat \ {0}

VARIABLES
  messages,  \* the thread's messages, as the checkpointer stores them
  node,      \* the node that runs next, or "idle"
  mode,      \* the mode of the current run
  left,      \* remaining_steps
  recipe,    \* of a tool turn: the selected servers, and what they were then
  used       \* history: what answered calls of this turn while nothing changed

chatVars == <<messages, node, mode, left, recipe, used>>

\* A text without a letter or a digit is trivial, the empty one too.
AgentText == {"words", "trivial", "empty"}
Text == AgentText \cup {"limit", "synthesis", "policy", "tools_failed",
                        "retrieval_failed", "no_context", "exception"}
Outcome == {"none", "success", "error"}

Call == [id : CallId, tool : Tool]

\* The messages.  A failed retrieval is a tool message whose status is success
\* and whose artifact is the failure.
Human == [kind : {"human"}]
AI    == [kind : {"ai"}, text : Text, calls : Seq(Call), final : BOOLEAN,
          outcome : Outcome, docs : SUBSET Doc]
Result == [kind : {"tool"}, id : CallId, tool : Tool,
           status : {"success", "error"}, failed : BOOLEAN, docs : SUBSET Doc]

Question == [kind |-> "human"]
Says(text, calls) == [kind |-> "ai", text |-> text, calls |-> calls, final |-> FALSE,
                      outcome |-> "none", docs |-> {}]
Answers(text, outcome, docs) == [kind |-> "ai", text |-> text, calls |-> <<>>, final |-> TRUE,
                                 outcome |-> outcome, docs |-> docs]

\* assistant_message_from_exception
Apology == Answers("exception", "error", {})

Trivial(text) == text \in {"trivial", "empty"}

NoRecipe == [keys |-> {}, digest |-> <<>>]

Init ==
  /\ messages = <<>> /\ node = "idle" /\ mode = "direct" /\ left = 0
  /\ recipe = NoRecipe /\ used = {}

-----------------------------------------------------------------------------
(***************************************************************************)
(* Reading the messages.                                                   *)
(***************************************************************************)
Kind(k, ms) == {i \in DOMAIN ms : ms[i].kind = k}
LatestHuman(ms) == CHOOSE i \in Kind("human", ms) \cup {0} :
                     \A j \in Kind("human", ms) : j <= i

\* messages_since_latest_user
CurrentTurn(ms) == SubSeq(ms, LatestHuman(ms) + 1, Len(ms))

\* analyze_tool_execution: the calls of the agent, each with what became of it.
\* An invocation is named by its place, <<i, k>> for call k of message i and
\* <<i, 0>> for a result that answers no call.  pending maps the id of an
\* unanswered call to its place; a second call with that id takes it over.
NoPlace == <<0, 0>>
Invocation(c, got) == [id |-> c.id, tool |-> c.tool, got |-> got]

LastCall(m, id) == CHOOSE k \in DOMAIN m.calls :
  m.calls[k].id = id /\ \A l \in DOMAIN m.calls : m.calls[l].id = id => l <= k

NoteCalls(acc, m, i) ==
  [pending |-> [id \in CallId |-> IF \E k \in DOMAIN m.calls : m.calls[k].id = id
                                  THEN <<i, LastCall(m, id)>> ELSE acc.pending[id]],
   inv |-> [p \in DOMAIN acc.inv \cup ({i} \X DOMAIN m.calls) |->
              IF p \in DOMAIN acc.inv THEN acc.inv[p]
              ELSE Invocation(m.calls[p[2]], "nothing")]]

\* Of the two definitions the first is a faulty one that leaves a call pending.
NotedAt(p, acc, m) ==
  [acc.inv EXCEPT ![p].got = m.status]
NoteResultStillPending(acc, m, i) ==
  IF acc.pending[m.id] # NoPlace
  THEN [acc EXCEPT !.inv = NotedAt(acc.pending[m.id], acc, m)]
  ELSE [acc EXCEPT !.inv = [p \in DOMAIN acc.inv \cup {<<i, 0>>} |->
          IF p \in DOMAIN acc.inv THEN acc.inv[p] ELSE Invocation(m, m.status)]]

NoteResult(acc, m, i) ==
  IF acc.pending[m.id] # NoPlace
  THEN [pending |-> [acc.pending EXCEPT ![m.id] = NoPlace],
        inv |-> NotedAt(acc.pending[m.id], acc, m)]
  ELSE [acc EXCEPT !.inv = [p \in DOMAIN acc.inv \cup {<<i, 0>>} |->
          IF p \in DOMAIN acc.inv THEN acc.inv[p] ELSE Invocation(m, m.status)]]

Note(acc, m, i) ==
  CASE m.kind = "ai"   -> NoteCalls(acc, m, i)
    [] m.kind = "tool" -> NoteResult(acc, m, i)
    [] m.kind = "human" -> acc

Notes(ms) ==
  LET noted[i \in 0..Len(ms)] ==
        IF i = 0 THEN [pending |-> [id \in CallId |-> NoPlace], inv |-> <<>>]
        ELSE Note(noted[i - 1], ms[i], i)
  IN noted

\* Calls that are still pending at the end have failed.
Invocations(ms) ==
  LET acc == Notes(ms)[Len(ms)]
  IN [p \in DOMAIN acc.inv |->
        IF acc.pending[acc.inv[p].id] = p
        THEN Invocation(acc.inv[p], "incomplete") ELSE acc.inv[p]]

\* _latest_agent_final_answer
FinalAnswers(ms) == {i \in Kind("ai", ms) : ms[i].calls = <<>> /\ ~Trivial(ms[i].text)}
FinalAnswer(ms) ==
  IF FinalAnswers(ms) = {} THEN "empty"
  ELSE ms[CHOOSE i \in FinalAnswers(ms) : \A j \in FinalAnswers(ms) : j <= i].text

\* tool_failure_summary has something to say.
ToolFailed(inv) == \E p \in DOMAIN inv : inv[p].got \in {"error", "incomplete"}

\* OracleRetrievalEvidenceStore.from_persisted_messages: what the latest
\* retrieval of the turn found.  EvidenceEver is a faulty form that reads the
\* whole thread.
NoEvidence == [found |-> FALSE, docs |-> {}, error |-> FALSE]
Retrievals(ms) == {i \in Kind("tool", ms) : ms[i].tool = Oracle}
EvidenceIn(ms) ==
  LET m == ms[CHOOSE i \in Retrievals(ms) : \A j \in Retrievals(ms) : j <= i]
  IN IF Retrievals(ms) = {} THEN NoEvidence
     ELSE [found |-> TRUE, docs |-> m.docs, error |-> m.failed \/ m.status = "error"]
EvidenceEver(ms) == EvidenceIn(ms)
Evidence(ms) == EvidenceIn(CurrentTurn(ms))

-----------------------------------------------------------------------------
(***************************************************************************)
(* The servers of a turn.  The configuration is read anew by each check    *)
(* and each load, and may be any.                                          *)
(***************************************************************************)
Definition == [does : Behaviour, secret : Secret]
Configurations == UNION {[S -> Definition] : S \in SUBSET Server}

\* _mcp_digest: the definitions of the selected servers without their secrets.
Digest(config, keys) == [s \in keys |-> config[s].does]

\* _resolve_mcp_selection: the servers the request names, or all.
Selections(config) ==
  {[keys |-> keys, digest |-> Digest(config, keys)] : keys \in SUBSET DOMAIN config}

\* The check of _load_or_create_recipe.  KeysPresent is a faulty form that
\* only looks for the servers.
KeysPresent(config) == recipe.keys \subseteq DOMAIN config
Compatible(config) ==
  recipe.keys \subseteq DOMAIN config /\ recipe.digest = Digest(config, recipe.keys)

\* adapter_server_keys: a selection of nothing is not to be taken for none.
Requested == IF recipe.keys = {} THEN {EmptySelection} ELSE recipe.keys

\* build_run_config, with the keys that the run's own configuration names.
RunKeys(parent) == IF recipe.keys = {} THEN parent ELSE recipe.keys

\* _select_server_keys
SelectKeys(config, requested, run) ==
  LET keys == IF requested # {} THEN requested ELSE run
  IN IF keys # {} THEN keys \cap DOMAIN config ELSE DOMAIN config

\* load_adapter_tools after the check: of the selected servers, those that list
\* tools, with what is behind them; steady if nothing changed in between.
Loads ==
  {load \in [serves : UNION {[S -> Behaviour] : S \in SUBSET Server}, steady : BOOLEAN] :
     \E seen, config \in Configurations, parent \in SUBSET Server :
       /\ Compatible(seen) /\ load.steady = (seen = config)
       /\ DOMAIN load.serves \subseteq SelectKeys(config, Requested, RunKeys(parent))
       /\ \A s \in DOMAIN load.serves : load.serves[s] = config[s].does}

\* The tools a node has: those of the servers and, in the mixed mode, Oracle's.
Offered(load) == DOMAIN load.serves \cup (IF mode = "mixed" THEN {Oracle} ELSE {})

-----------------------------------------------------------------------------
(***************************************************************************)
(* What the external services may answer.                                  *)
(***************************************************************************)
\* filter_retrieved_docs: a keyword filter that may leave nothing.
Filtered(docs) == SUBSET docs

\* retrieve_candidates: documents, none, or a failure of the backend, which
\* retrieve_oracle_docs raises.
Candidates == [outcome : {"success"}, docs : SUBSET Doc \ {{}}]
                \cup [outcome : {"no_hits", "backend_error"}, docs : {{}}]
Found == {c.docs : c \in {c \in Candidates : c.outcome # "backend_error"}}

\* rerank_candidates: a ranking, which may drop documents, or a failure.
Ranked(docs) == [status : {"applied"}, docs : SUBSET docs]
                  \cup [status : {"failed"}, docs : {docs}]

\* rerank_retrieved_docs: if the ranking fails, the keyword filter decides.
Reranked(docs) ==
  IF Reranker
  THEN UNION {IF r.status = "failed" THEN Filtered(docs) ELSE {r.docs} : r \in Ranked(docs)}
  ELSE {docs}

\* synthesize_rag_answer
Synthesis == {"synthesis", "trivial", "empty"}

\* What ToolNode makes of a call, with the tools of a load.
ResultOf(c, status, failed, docs) ==
  [kind |-> "tool", id |-> c.id, tool |-> c.tool, status |-> status, failed |-> failed,
   docs |-> docs]

Results(c, load) ==
  {ResultOf(c, "error", FALSE, {})} \cup
  IF c.tool \notin Offered(load) THEN {}
  ELSE IF c.tool = Oracle
  THEN {ResultOf(c, "success", FALSE, d) : d \in UNION {Filtered(docs) : docs \in Found}}
         \cup {ResultOf(c, "success", TRUE, {})}
  ELSE {ResultOf(c, "success", FALSE, {})}

-----------------------------------------------------------------------------
(***************************************************************************)
(* The nodes of the graph.                                                 *)
(***************************************************************************)
\* The bounds count questions and calls.
Turns == Kind("human", messages)
CallsIn(ms) == UNION {{i} \X DOMAIN ms[i].calls : i \in Kind("ai", ms)}
CallsMade == Cardinality(CallsIn(messages))

Append1(m, next) == messages' = Append(messages, m) /\ node' = next

\* A run that ends leaves its recipe behind.
Ended == recipe' = NoRecipe /\ used' = {} /\ UNCHANGED <<mode, left>>

\* A run is submitted with a question, and bootstrap routes it by its mode.
Ask ==
  /\ node = "idle" /\ Cardinality(Turns) < MaxTurns
  /\ mode' \in Mode
  /\ Append1(Question, IF mode' \in {"direct", "rag"} THEN mode' ELSE "setup")
  /\ UNCHANGED <<left, recipe, used>>

\* run_direct_node: an exception becomes an answer of its own.
Direct ==
  /\ node = "direct" /\ Ended
  /\ \/ \E text \in AgentText : Append1(Answers(text, "none", {}), "idle")
     \/ Append1(Apology, "idle")

\* run_rag_node
Rag ==
  /\ node = "rag" /\ Ended
  /\ \/ \E found \in Found : \E docs \in Reranked(found) :
          \/ docs # {} /\ \E text \in Synthesis : Append1(Answers(text, "none", docs), "idle")
          \/ docs = {} /\ Append1(Answers("no_context", "none", {}), "idle")
     \/ Append1(Apology, "idle")

\* run_mcp_setup, run_mixed_mcp_setup.  SetupMore is a faulty form that adds to
\* what an earlier turn left over.
SetupMore ==
  /\ node = "setup" /\ node' = "agent" /\ left' = left + RoundLimit
  /\ \E config \in Configurations : recipe' \in Selections(config)
  /\ UNCHANGED <<messages, mode, used>>

Setup ==
  /\ node = "setup" /\ node' = "agent" /\ left' = RoundLimit
  /\ \E config \in Configurations : recipe' \in Selections(config)
  /\ UNCHANGED <<messages, mode, used>>

\* call_llm_node and route: when no calls of the model remain, a text is made up
\* for it; otherwise it answers with a text, or with calls of tools it has, beside
\* which a text is never read again.
CallLists(tools) == UNION {[1..n -> [id : CallId, tool : tools]] : n \in 1..MaxCallsPerAnswer}

Agent ==
  /\ node = "agent" /\ left' = left - 1 /\ UNCHANGED <<mode, recipe, used>>
  /\ \/ left = 0 /\ Append1(Says("limit", <<>>), "compose")
     \/ /\ left > 0
        /\ \/ \E text \in AgentText : Append1(Says(text, <<>>), "compose")
           \/ \E tools \in {Offered(load) : load \in Loads} : \E calls \in CallLists(tools) :
                /\ CallsMade + Len(calls) <= MaxCalls
                /\ Append1(Says("empty", calls), "tools")

\* run_tools_node: ToolNode answers every call of the last message, in its order,
\* unless the turn has no tools by now.
Tools ==
  /\ node = "tools" /\ node' = "agent" /\ UNCHANGED <<mode, left, recipe>>
  /\ LET calls == Last(messages).calls
     IN \E load \in Loads :
          \/ /\ Offered(load) = {}
             /\ UNCHANGED <<messages, used>>
          \/ /\ Offered(load) # {}
             /\ \E rs \in {f \in [DOMAIN calls ->
                                   UNION {Results(calls[k], load) : k \in DOMAIN calls}] :
                             \A k \in DOMAIN calls : f[k] \in Results(calls[k], load)} :
                  /\ messages' = messages \o rs
                  /\ used' = used \cup
                       {<<calls[k].tool, load.serves[calls[k].tool]>> :
                          k \in {k \in DOMAIN calls : /\ load.steady /\ calls[k].tool # Oracle
                                                      /\ rs[k].status = "success"}}

\* messages_from_result: the agent's last message becomes the terminal one if
\* its text is the answer or there is no answer, and moves to the end under its
\* new id; otherwise the answer is a new message.  Two trivial texts may be the
\* same or not.  FirstAI is a faulty form of LastAI that looks from the front.
FirstAI == CHOOSE i \in Kind("ai", messages) : \A j \in Kind("ai", messages) : j >= i
LastAI == CHOOSE i \in Kind("ai", messages) : \A j \in Kind("ai", messages) : j <= i
WithReferences(m, outcome, docs) ==
  [m EXCEPT !.final = TRUE, !.outcome = outcome, !.docs = docs]
Relabelled(i, outcome, docs) ==
  Append(RemoveAt(messages, i), WithReferences(messages[i], outcome, docs))
Place(text, outcome, docs) ==
  \/ /\ text = "empty" \/ messages[LastAI].text = text
     /\ messages' = Relabelled(LastAI, outcome, docs)
  \/ /\ text # "empty" /\ (messages[LastAI].text # text \/ text = "trivial")
     /\ messages' = Append(messages, Answers(text, outcome, docs))

\* run_mcp_compose
ComposeMcp ==
  /\ node = "compose" /\ mode = "mcp"
  /\ LET turn   == CurrentTurn(messages)
         answer == FinalAnswer(turn)
     IN Place(IF Trivial(answer) /\ ToolFailed(Invocations(turn))
              THEN "tools_failed" ELSE answer, "none", {})
  /\ node' = "idle" /\ Ended

\* workflow_policy_for_request: whether a policy applies depends on the words of
\* the question.  enforce_workflow_policy: required tools that were never called.
Policies == {{}, Required}
Called(inv) == {inv[p].tool : p \in DOMAIN inv}
Missing(policy, inv) == policy \ Called(inv)

\* oracle_retrieval_error and oracle_retrieval_used_without_context.  The tool
\* message that the evidence comes from is among the invocations, under its id
\* and the retrieval's name.
RetrievalFailed(found) == found.error
WithoutContext(found) == found.found /\ ~found.error /\ found.docs = {}

\* _compose_mixed_result: the answer of a mixed turn with this policy, these
\* invocations, this retrieval, and these documents left by the reranker.  Each
\* reason to replace the agent's answer comes before the next one.
\* MixedAnswersUnchecked is a faulty form in which the retrieval comes first.
MixedAnswersUnchecked(policy, inv, answer, found, kept) ==
  IF found.found /\ kept = {} THEN {<<"no_context", "success">>}
  ELSE IF Trivial(answer) /\ kept # {} THEN {<<t, "success">> : t \in Synthesis}
  ELSE {<<answer, "success">>}

MixedAnswers(policy, inv, answer, found, kept) ==
  IF Missing(policy, inv) # {} THEN {<<"policy", "error">>}
  ELSE IF Trivial(answer) /\ ToolFailed(inv) THEN {<<"tools_failed", "error">>}
  ELSE IF RetrievalFailed(found) THEN {<<"retrieval_failed", "error">>}
  ELSE IF WithoutContext(found) THEN {<<"no_context", "success">>}
  ELSE IF Trivial(answer) /\ kept # {} THEN {<<t, "success">> : t \in Synthesis}
  ELSE {<<answer, "success">>}

ComposeMixed ==
  /\ node = "compose" /\ mode = "mixed"
  /\ LET turn  == CurrentTurn(messages)
         found == Evidence(messages)
     IN \E kept \in Reranked(found.docs), policy \in Policies :
          \E a \in MixedAnswers(policy, Invocations(turn), FinalAnswer(turn), found, kept) :
            Place(a[1], a[2], kept)
  /\ node' = "idle" /\ Ended

\* A node of a tool turn raises, or its run is cancelled: the messages of the
\* nodes before it stay.
Fail ==
  /\ node \in {"setup", "agent", "tools", "compose"}
  /\ node' = "idle" /\ Ended /\ UNCHANGED messages

Next == Ask \/ Direct \/ Rag \/ Setup \/ Agent \/ Tools \/ ComposeMcp \/ ComposeMixed \/ Fail

Spec == Init /\ [][Next]_chatVars

-----------------------------------------------------------------------------
\* Types, and that remaining_steps counts the model's messages of this turn.
ChatTypeOK ==
  /\ messages \in Seq(Human \cup AI \cup Result)
  /\ node \in {"idle", "direct", "rag", "setup", "agent", "tools", "compose"}
  /\ mode \in Mode \cup {"direct"} /\ left \in -1..RoundLimit
  /\ recipe.keys \subseteq Server /\ recipe.digest \in [recipe.keys -> Behaviour]
  /\ used \subseteq Server \X Behaviour
  /\ node \in {"agent", "tools", "compose"} =>
       left = RoundLimit - Cardinality(Kind("ai", CurrentTurn(messages)))
  /\ Cardinality(Turns) <= MaxTurns /\ CallsMade <= MaxCalls

\* The messages of a turn: what follows its question up to the next one.
EndOf(q) == CHOOSE e \in q..Len(messages) :
  /\ \A i \in q + 1..e : i \notin Turns
  /\ e < Len(messages) => e + 1 \in Turns
TurnOf(q) == SubSeq(messages, q + 1, EndOf(q))
Finals(ms) == {i \in Kind("ai", ms) : ms[i].final}

UniqueIds(ms) ==
  \A p, r \in CallsIn(ms) :
    ms[p[1]].calls[p[2]].id = ms[r[1]].calls[r[2]].id => p = r

\* What became of call k of message i, by its position: ToolNode's results
\* follow the message that asked for them, in the order of its calls.
Became(ms, i, k) ==
  IF \A j \in 1..k : i + j \in Kind("tool", ms) THEN ms[i + k].status ELSE "incomplete"

\* analyze_tool_execution accounts for every call: if ids are unique, each call
\* has exactly what its own result says, or is incomplete; and even when the
\* model uses an id again, no result and no error is lost or counted twice.
CallsAccounted ==
  \A q \in Turns :
    LET turn == TurnOf(q)
        inv  == Invocations(turn)
    IN /\ UniqueIds(turn) =>
            inv = [p \in CallsIn(turn) |->
                     Invocation(turn[p[1]].calls[p[2]], Became(turn, p[1], p[2]))]
       /\ \A status \in {"success", "error"} :
            Cardinality({p \in DOMAIN inv : inv[p].got = status}) =
            Cardinality({i \in Kind("tool", turn) : turn[i].status = status})

\* A composed answer cites only documents that a retrieval of its own turn
\* returned, although the earlier turns' results are in the same messages, and
\* an answer that says there were none cites none.
SourcesOfThisTurn ==
  \A q \in Turns : \A f \in Finals(TurnOf(q)) :
    LET turn == TurnOf(q)
        a    == turn[f]
    IN /\ a.outcome # "none" =>
            a.docs \subseteq UNION {turn[i].docs : i \in Kind("tool", turn)}
       /\ a.text \in {"no_context", "retrieval_failed"} => a.docs = {}

\* No failure is passed over in silence: an empty answer means that every tool
\* of the turn succeeded and every call was answered, a mixed turn whose latest
\* retrieval failed is not a success, and what is not a success says why, whatever
\* the agent said.
NoSilentFailure ==
  \A q \in Turns : \A f \in Finals(TurnOf(q)) :
    LET turn == TurnOf(q)
        a    == turn[f]
    IN /\ Trivial(a.text) => \A i \in Kind("tool", turn) : turn[i].status = "success"
       /\ Trivial(a.text) /\ UniqueIds(turn) =>
            \A p \in CallsIn(turn) : Became(turn, p[1], p[2]) # "incomplete"
       /\ a.outcome = "success" => ~EvidenceIn(turn).error
       /\ a.outcome = "error" =>
            a.text \in {"exception", "policy", "tools_failed", "retrieval_failed"}

\* A turn uses the servers it started with and no others, whatever the settings
\* become while it runs: only selected servers ever answer a call, and, but for a
\* change in the very moment of a load, as they were defined when it started.
ToolsOfTurn ==
  node \in {"agent", "tools", "compose"} =>
    LET turn == CurrentTurn(messages)
    IN /\ \A i \in Kind("tool", turn) :
            turn[i].status = "success" => turn[i].tool \in recipe.keys \cup {Oracle}
       /\ \A u \in used : u[1] \in recipe.keys /\ u[2] = recipe.digest[u[1]]

\* Every turn has at most one terminal answer, it is the last message of its
\* turn when it is given, and later turns change no earlier answer: the thread
\* implements Conversation.
Thread ==
  INSTANCE Conversation WITH
    Answer <- {m \in AI : m.final}, Unanswered <- [kind |-> "none"],
    log <- [q \in Turns |-> IF Finals(TurnOf(q)) = {} THEN [kind |-> "none"]
                            ELSE Last(TurnOf(q))]
ImplementsConversation == Thread!ConversationSpec
=============================================================================
