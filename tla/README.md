# A verification project for the Oracle 26ai LangChain RAG application

The repository is a chat application over an Oracle vector store: LangGraph
agents that an Agent Server runs, a FastAPI backend that ingests documents and
serves configuration, and a Next.js page.  This directory holds TLA+ modules of
its stateful parts, the TLC runs that check them on small instances, and proofs
that TLAPS checks for every value of the constants.

`PROJECT.json` lists the components, the runs, the definition-to-source map, the
hazards and the theorems.  Run a check with
`tlc -config <cfg> <module>` and the proofs with `tlapm <module>_proofs.tla`.

## 1. Inventory

| Component | State it keeps | Operations | Hard behaviour | What makes it correct | Module |
|---|---|---|---|---|---|
| Tool-agent recipe store (`runtime/tool_agent_recipe_store.py`) | one recipe per (thread, turn) with a fenced, expiring lease; links from checkpoints and runs | create_or_load, claim, renew, release, mark_terminal, record_run_link, reconcile | expired holders, fences that restart, retention by age | one holder at a time, dead tokens stay dead, a needed recipe is never collected | `RecipeStore`, `FencedLease` |
| Agent Server checkpointer (`runtime/agent_server_checkpointer.py`) | SQLite tables of checkpoints and the links; one shared connection under a lock; a periodic task | aput, aprune, acopy_thread, adelete_for_runs, adelete_thread, transaction_locked | cancellation inside a transaction; pruning one thread collects recipes of all | links resolve, transactions are all or nothing, the connection recovers | `RecipeStore`, `SaverTransaction` |
| Tool-agent turn (`graphs/tool_agent_turn.py`) | per node: a lease token, a heartbeat task | reconstruct, run with heartbeat, mark terminal, release | a takeover while a node computes; crashes and restarts | a node that succeeds was alone; a punctual heartbeat keeps the lease | `ToolAgentTurn` |
| Chat graph and nodes (`graphs/chat_agent.py`, `tool_agent_execution.py`, `nodes/`) | the thread's messages, remaining steps | direct, rag, setup, agent, tools, compose | error and cancellation paths at every await; unfinished turns in front of the next | every run ends; at most one terminal answer per turn | `ToolAgentTurn`, `ChatTurns`, `Conversation` |
| Tool transcript and outcome policy (`tool_agent_execution.py`, `mcp_policies.py`, `mcp_turn.py`) | none: it reads the persisted messages | analyse a turn, decide on the answer | duplicate call ids, evidence of earlier turns | each call has one outcome; no failure passes as success | `ChatTurns` |
| Retrieval and RAG answer (`rag_runtime.py`, `oracle_knowledge.py`, `oracle_retrieval_evidence.py`) | none | retrieve, filter, rerank, synthesise | failures at each stage | an answer cites its own turn's documents | `ChatTurns` |
| Knowledge server (`mcp_servers/oracle_knowledge.py`, `application/oracle_knowledge.py`) | none | search, list documents | providers that fail or hang, a deadline, requests beyond the bounds | evidence only with success, of one allowed collection, within the limits | `KnowledgeSearch` |
| Selection of MCP servers for a turn (`tool_agent_turn.py`, `mcp_adapter_runtime.py`) | the keys and a digest in the recipe | select, check, load | the configuration changes while the turn runs | a turn uses the servers it started with | `ChatTurns` |
| Document ingestion jobs (`api/services/document_ingestion_jobs.py`, `api/routes/documents.py`, `ingestion.py`) | a JSON record per job, an in-memory set of active jobs, upload directories | upload, the worker, status requests | worker and event loop write one file without a lock; restarts | no false "indexed"; the page learns the end | `IngestionJobs` |
| Ingestion progress page (`useDocumentIngestionJobs.ts`) | tracked jobs | poll until terminal | late answers | stops only at the end | `IngestionJobs` |
| MCP OAuth client (`mcp_oauth.py`) | a token with its expiry and a generation, an async lock | get, refresh, change credentials | credentials change during a token request | no token of old credentials is used | `McpClients` |
| MCP adapter cache (`mcp_adapter_runtime.py`) | clients and tools by connection | load, evict, clear | cancellation while a client loads | no broken client is cached, none in use is closed | `McpClients` |
| MCP server configuration (`mcp_config_store.py`, `config_route.py`, `mcp_settings.py`) | one JSON file over a base configuration | list, put, patch, delete, test | requests without the secret; overlapping requests | a register that forgets no secret | `McpServerStore`, `ServerRegistry` |
| MCP settings page (`settings/page.tsx`, `mcp-config.ts`) | list, draft, test result, button states | load, select, edit, save, toggle, delete, test | answers in any order or never | the page shows the store; a result is of the draft | `McpSettings` |
| Chat session (`useChatSession.ts`, `hooks/chat/`, `page.tsx`) | the active thread, shared by the tabs through localStorage; the sidebar; the stream's phase | select, new, send, stop, clear, delete | callbacks that end after the user went on; other tabs | a missing thread is left, a deleted one leaves the sidebar, tabs agree | `ChatSession` |
| Suggestions (`useSuggestions.ts`, `routes/suggestions.py`) | request id, abort controller | request, abort | late answers | suggestions follow the answer on display | `ChatSession` |
| Memory and runtime context (`memory.py`, `graphs/runtime.py`) | none | the turn's question and messages | unfinished turns | a part of `ChatTurns` | `ChatTurns` |
| Database utilities, models, observability, API shell, UI components, scripts | connection pools and caches at most | sequential calls of external services | little of their own | left out; see "Not modelled" | — |

How they interact: the Agent Server starts a *run* on a *thread*; the run walks
the graph, and each node calls the recipe store, the MCP tools and the model.
After a node the server calls the checkpointer, which shares the SQLite
database, the connection and the lock with the recipe store.  The checkpointer's
maintenance (pruning, rollback, deletion, copies, the periodic reconciliation)
acts on the same tables between any two calls of a run.  A composition decides by
the persisted messages alone.  The backend's ingestion thread and its event loop
share only the file system and one set; the page polls the event loop.  The
browser tabs share one localStorage key and the server's threads; the settings
pages share the file behind the routes, which is also what a run's MCP clients
are made from.

## 2. Plan

By how much depends on each part; all of it is done:

1. `RecipeStore`, its abstract lease `FencedLease`, and their proofs.
2. `ToolAgentTurn`, which composes runs with `RecipeStore`, and its proofs over
   the store's.
3. `SaverTransaction`: why each operation of `RecipeStore` may be one action, and
   where the code falls short of it; its proofs.
4. `IngestionJobs` with the polling page; its proofs.
5. `McpClients`: OAuth generations, the two caches, the connection test's timeout;
   its proofs.
6. `ChatTurns` with its abstract specification `Conversation`, and `KnowledgeSearch`;
   their proofs.
7. `McpServerStore` and, over it, `McpSettings`, with `ServerRegistry`; their proofs.
8. `ChatSession` with suggestions; its proofs.

Composition: `ToolAgentTurn` extends `RecipeStore`, `McpSettings` extends
`McpServerStore`.  Refinement: `RecipeStore` implements `FencedLease`, the runs of
`ToolAgentTurn` implement `RecipeStore`, `McpSettings` implements
`ServerRegistry` and `ChatTurns` implements `Conversation`; all are proved.

## 3. Modules and the code

### RecipeStore

One variable per SQLite table (`recipes`, `checkpoints`, `ckptLinks`, `runLinks`),
the database clock `now`, and two variables the program keeps elsewhere: `claims`
names the random owner ids (a uuid4 is fresh, so the n-th claim gets owner n) and
`issued` holds every token a caller was ever given, because a caller may use an
old token at any time.  Every public operation runs in one `BEGIN IMMEDIATE`
transaction under the saver's lock and is one action; an operation that raises
rolls back and is no step.  `Prune` and `DeleteForRuns` share `DropCheckpoints`, as
both end with `_delete_unreachable_recipes_locked`, which looks at *every* thread.
The recipe's JSON is a `Payload` that is only compared, next to its origin run,
which the store reads from it.  NULL timestamps are -1: SQL's `NULL > now` is not
true, and neither is `-1 > now`.

`Checkpoint.resumable` is a history field: whether the turn had a recipe when the
checkpoint was written, so that a resumption needs one.

Left out: validation of the JSON, the copy provenance table (written, never
read), the `origin_run_id` column (same), the `writes` table of the base saver,
schema setup.

### FencedLease

What the lease of a recipe promises, without tables: a token is granted while
nobody holds the key and was never granted before; leases lapse.  `RecipeStore`
implements it with the token in force as `holder` and `issued` as `granted`.

### ToolAgentTurn

Extends `RecipeStore` by the runs of one turn.  `run[r].pc` is where a run is
between two transactions: creating or loading the recipe, linking, claiming
(four attempts), then for each external operation a renewal (`Begin`), the
operation with heartbeats (`Beat`, `OpEnds`), a renewal before the result is
accepted (`Accept`), and at the end the terminal mark (`Mark`, `Stamp`) and the
release.  `place` is the node and the remaining model calls.  `Raise` is any
exception or cancellation at an await, with the node's error path; `Crash` is
the death of the process; `Start` begins at the entry or at any retained
checkpoint.  `Time`, `Maintain` and `Wipe` interleave with all of it.

Heartbeats: `Beat` may happen at any time and may be late.  Time may pass anywhere;
`late` is a history field that says it passed a due heartbeat of the run's node or
stretched one of the short steps between its operations, `wiped` one that says
the thread was deleted under the run.

### SaverTransaction

`transaction_locked` and `_rollback_safely`, each statement a message in the
queue of aiosqlite's thread (external).  Cancelling a task abandons its await,
never the statement; `Answered` drops the result of a statement its task no longer
awaits.  `Put` is the base saver's `aput_writes`, which shares the lock and the
connection but has no rollback.

### IngestionJobs

One upload.  `disk` is the record, `temp` the one temporary file of `_write_job`,
`worker` the thread with its private copy, `get` the status request with its own,
`answers` what is on its way to the page.  Reading, opening the temporary file
(which truncates it, `Empty`), writing to it and renaming it are steps of their own,
since the thread and the event loop run them concurrently.  An open file goes where
a rename takes it (`out`, `Moved`): a write may reach the record itself.  Writing
over what the other thread wrote leaves the copy or, if that was the longer one, the
copy with its tail, which is no JSON (`Torn`).  A rename without a file raises, into
the handlers of `process_file_paths` and `run_ingestion_job_sync` (`Raised`).  A
record that is empty or torn is `Unreadable`: `_read_job` returns None, the worker's
reports are skipped without a word, and a status request gets a 404, which the page
ignores.  Docling and the vector store are their outcomes.  `old` says that the
record's `updated_at` is past the grace period of 15 seconds.

Left out: a file system that fails, or reads or writes a record in more than one
piece, a file called like another one's stored path, more than one job (each has its
own record).

### McpClients

One process's MCP clients, all coroutines of one event loop.  `load[l]` is one call
of `load_adapter_tools`, from the bearer token (`headers`, `request`: at the token
endpoint under the refresh lock) over the client lock (`lock`) to listing tools
with the new adapter (`list`) and, if that fails, closing it (`evict`).  `cred` and
`cached` are the OAuth provider's secret with its generation and its token.
`clients` and `tools` are the two caches, with an adapter as a number and the key
as the server with the bearer token, which is all of the credentials that
`_connections_cache_key` sees.  Token endpoint and servers are external: they
answer, fail, or do neither.  `Interrupt` is a cancellation or the timeout of a
connection test, at whichever await the load is.

`cleared` and `abandoned` are history: adapters that
`clear_adapter_runtime_cache` took, and those whose closing was itself cancelled,
which nothing closes any more.

Left out: which servers a load selects (that is in `ChatTurns`), the normalisation of
tool results, which keeps their status, several servers behind one adapter, several OAuth identities (they share nothing), and everything of a
tool call after its tools were loaded.

### ChatTurns and Conversation

The messages of one thread and the run that appends to them.  `messages` is what
the checkpointer stores: questions, answers, agent messages with tool calls and
tool results; `node`, `mode` and `left` are the run's, `recipe` is the part of its
recipe that names the MCP servers.  A text is reduced to where
it comes from ("no_context", "policy", "exception", ...), a document and a call id
to an identity.  `Setup`, the agent's step, the tools and the two compositions are
the nodes of `chat_agent.py`; a failure of a run leaves an unfinished turn.
`Invocations` is `analyze_tool_execution`, a recursive function over the messages; an
invocation is named by its place, the message and the position of the call.
`CallsAccounted` checks it against `Became`, a reference that goes by position and does
not look at ids.  `Evidence` is what `from_persisted_messages` finds: the *latest*
retrieval of the turn alone.  `MixedAnswers` keeps the order in which
`_compose_mixed_result` lets a reason replace the answer.

The servers of a turn: `Setup` stores the keys it resolves and a digest of their
definitions without the secrets.  Each later node reads the configuration twice, once
to check that digest and once to load the tools, and in between and in general it may
have become any (`Loads`): that a server is missing from a load may also mean that it
did not answer.  `used` is history: which server, defined how, answered a call of the
turn, for loads in which the two readings agree.  A selection of no server is loaded
under a key that names none (`Requested`).

`Conversation` is what a thread promises whatever its mode: a list of questions,
each answered at most once, only the latest one ever, and no answer changed.  A
question is numbered by its place among the messages.

Left out: which workflow policy applies (it depends on words of the question, and
is a choice), the texts, the pure contextualisation of questions, the configuration a
connection test passes in place of the stored one, and turning MCP off altogether,
which is like an empty configuration.  Error results of tools are assumed to have a
text.

### KnowledgeSearch

The MCP server over `OracleKnowledgeService` keeps no state, so it is a set of results
per request: `ServedSearch` is the validation and `search`, whose refusals come in the
code's order before any provider is called; `Listings` is `list_documents`.  Embedding,
vector store and reranker answer in any way, fail, or are cut off by the deadline.
`SearchContract` is what a client may rely on.  Left out: SQL, texts and scores, the
readiness probe.

### McpServerStore, McpSettings and ServerRegistry

`file` is the JSON file, or `NoFile` while the environment's configuration stands in
for it; `Put`, `Patch` and `Delete` are the routes, each one step as no handler awaits
between its read and its replacement.  `WrittenSecret` is what becomes of a request
without a secret.  `McpSettings` adds the pages: their list, form, result and
buttons, and the requests under way, which reach the server and are answered in
any order, or not.  `alone`, `doubt` and `touched` are history: whether requests
overlapped or answers were lost, and whether the form changed during a test.

`ServerRegistry` is the register the store implements: one server changes at a
time, a secret that is not given again is kept for the same kind of
authentication, and a run is offered exactly the enabled servers.

### ChatSession

Any number of tabs in full (`Tab`); a tab outside that set, an API caller and the server's sweep of old
threads are `SelectedElsewhere` and `DeletedElsewhere`.  `stored` is the localStorage
entry, `ops` the searches and deletions under way (a deletion carries the sidebar of
its click, `seen`), `asked` the suggestion requests.  `Render` is a change of a page
together with the effects React runs for it: aborting and asking for suggestions,
searching when the tab becomes idle.  The stream of `@langchain/react` is external:
it hydrates a thread it is bound to, joins its run, or fails.  `met`, `gone`,
`overtaken` and `lost` are history.  `Creating` are the tabs that wait for the thread
their question is to create.

`MCChatSession` keeps the two checked tabs small: the searches of tabs outside
`Heard` are lost at once, and everything else those tabs do is `ChatSession`'s.

Left out: toasts, feedback, citations, the recovery of a thread in another mode, the
width of the sidebar.

## 4. Runs

| Run | States | Bounds | Shows |
|---|---|---|---|
| `store_safety` | 252,585 | 2 threads, 1 checkpoint id, 1 run, clock to 1, 2 claims | `TypeOK`, `LinksResolve`, `ResumableHasRecipe`, `LeasedRecipeFrozen`, `ImplementsFencedLease`: writing, leasing, taking over, pruning, rollback, copy and deletion in every order |
| `store_upkeep` | 69,390 | 1 thread, 2 runs, clock to 4 (past every retention), 1 claim | `RunLinkProtects`, and `AbandonedCollected` under fairness |
| `turn_safety` | 445,076 | 2 runs, lease 2 / grace 3 / retention 4, clock to 3, 2 claims | `LinkedRunFindsRecipe`, `NodesRunAlone`, `PunctualHeartbeatKeepsLease` with late heartbeats, crashes, maintenance |
| `turn_progress` | 204,165 | 1 run started twice, 1 round | `TurnTypeOK`, `RunsEnd` over the whole graph |
| `chat_turns` | 122,636 | 2 turns of any mode, 2 rounds, 2 tool calls, 2 call ids, 1 document, 1 MCP server with 2 definitions and 2 secrets | `ChatTypeOK`, `CallsAccounted`, `SourcesOfThisTurn`, `NoSilentFailure`, `ToolsOfTurn`, `ImplementsConversation`; and, as an assumption TLC evaluates, `SearchContract` for every request to 3 knowledge bases (2 allowed) of at most 2 chunks |
| `mcp_clients` | 1,005,890 | 3 loads (one a connection test), 2 secrets, lifetimes 1 and 2 | `ClientsTypeOK`, `HeadersAreCurrent`, `CachedClientsWork`, `ServedStayOpen`, `OpenIsOwned`, `TestsEnd` |
| `mcp_settings` | 221,372 | 2 pages, 2 servers, 3 kinds of authentication, 3 clicks or edits, 2 requests at once | `SettingsTypeOK`, `PageShowsStore`, `ResultOfTestedServer`, `ImplementsRegistry`, `ButtonsComeBack` |
| `chat_session` | 440,675 | 2 tabs beside others (the searches of one of them reach the server), 2 threads, 2 clicks, 2 answers, 2 operations at once | `SessionTypeOK`, `SuggestionsOfLastAnswer`, `MissingThreadLeft`, `DeletedLeavesSidebar`, `SuggestionsSettle`, `TabsAgree` |
| `ingestion_progress` | 417,729 | 2 files, 1 crash | `IndexedIsStored`, and `PageSeesEnd` unless the record stays unreadable, see below |
| `ingestion_interrupted` | violation | 1 file | `InterruptedMeansRestart` does not hold, see below |
| `saver_commit` | 23,013 | 2 transactions of 2 writes, 2 callers of `aput_writes` | `TypeOK`, `AllOrNothing`, `DoneIsStored` |
| `saver_recovery` | violation | 3 transactions | `ConnectionRecovered` does not hold, see below |

Each property has a mutant of the modelled code that breaks it, kept next to the
definition it mutates (`UnprotectedDespiteRuns`, `HoldsByFence`, ...).

**Bounds.** Two threads are needed for copies and for maintenance that reaches
across threads.  Checkpoint id 1 can be written again, copied, rolled back and
deleted; pruning what a newer one replaces needs two ids and is in `turn_safety`,
which has both.  Two runs let one be rolled back under the other.  The durations
keep the code's order lease (5 min) < orphan grace (15 min) < retention (7 days).
`store_safety` stays below the grace, where reconciliation only drops links,
and `store_upkeep` goes past the retention.  Two claims let a lease expire, be taken
over, and its recipe be deleted, recreated and claimed with the fence of an old
token.  In `turn_safety` a lease of two ticks has a heartbeat in between, so that
punctual and late runs differ.  One round reaches both answers of the model: with
and without calls left.  Ten claims and nine checkpoint ids in `turn_progress`
are enough for every node of both starts, so that no bound stops a run.

Two turns let evidence, calls and unfinished messages of one be in front of the
other's; two calls in one message, or one in each round, can have the same id.  One
server can be selected or not, be redefined, vanish and come back under the turn.
In `mcp_clients` two loads can hold the two locks while the test waits, adapters
differ by their token, the secret can change and change back under a request, and
with a skew of 1 a token of lifetime 1 is stale when it is issued.  One server is
enough: two servers share a provider and the client lock, and so do two loads of
one.  In `mcp_settings` two pages can overlap each other's requests, or one page
its own; one server of the base configuration has a secret, the other none.  In
`chat_session` a deletion, a search and another tab's selection can overlap, and a
thread can get a second answer under the suggestions of the first.  Two clicks let
one tab select or create a thread while the other clears, deletes or recovers from a
missing one, so that both write the shared entry and each hears of the other's write;
the environment may select and delete besides.  That one of the two tabs never sees an
answer to a search only leaves its sidebar as it was: `TabsAgree` is about the selected
threads, and the safety properties are proved for every number of tabs and clicks.
Symmetry is used on safety runs only.

**Fairness.** `FairSpec` of `RecipeStore`: time passes and the periodic task
reconciles; no caller is obliged to call.  Its `Reconcile` models one pass that
succeeds: `_reconcile_recipes` catches failures and the loop goes on.
`FairTurnSpec`: a run that executes takes its next step, since the event loop
schedules it and operations answer or time out; not the heartbeats, starts,
failures or maintenance.  `IngestionJobs`: the pool gets to the thread, parsing ends,
the grace period passes, and the page stays open and polls a backend that is up.
`McpClients`: the timeouts of connection tests fire, which `asyncio` sees to, and
closing an adapter ends; no endpoint and no server need ever answer, so `TestsEnd`
also covers a test that waits for a lock whose owner hangs.  `McpSettings`: a request
that reached the server is handled and its answer is delivered or fails; the MCP
server under test owes nothing, since the route's timeout ends the probe.
`ChatSession`: the browser delivers storage events and every fetch of suggestions
ends, aborted or answered; searches, deletions, streams and users owe nothing.
`ChatTurns` states none and checks no liveness: that a run ends is `RunsEnd`.

**Deadlock** is not checked: every module's bounds make it stop (the clock, the
claims, the starts, the clicks, the turns, the single use of a task), and an ended
job is an end.

### What disagrees with the repository's words

- `saver_recovery`: `transaction_locked` says it will "always recover the
  connection", but awaits `BEGIN IMMEDIATE` before its `try`.  A task cancelled
  there leaves the lock with the transaction open, and the next transaction fails
  at its own `BEGIN`.  What has been written stays all or nothing all the same
  (`saver_commit`).
- `ingestion_interrupted`: a record is marked with "Backend restarted before
  ingestion completed." when it is 15 seconds old and its job is not in
  `_ACTIVE_JOBS`; a job that waits for a thread is not in it yet.  The page stops
  polling, and the job runs later.  Nor are reading the record, the test and the
  write one step: a job that starts in between can even have its outcome
  overwritten.

### Behaviour a reader may not expect

The properties hold of these, or exclude them by name; they are how the code is.

- *Recipes.*  A later link of the same run does not extend the first one's
  retention (`INSERT OR IGNORE`), so a run that is still going a whole retention
  after its first link may lose it between two nodes.
- *Turns.*  Only the latest retrieval of a turn counts, so an empty one hides what
  an earlier one found.  The agent's "Tool call limit reached." counts as an answer,
  so documents found before it are not synthesised.  Calls that use an id twice
  cannot be told apart: no result is lost, but it may be ascribed to the other call.
  When an MCP turn's tools have vanished its calls stay without results.
- *Ingestion.*  The worker and a status request that declares the job interrupted
  write one temporary file.  What they leave may be empty or torn and is then renamed
  to be the record: the worker's later reports are skipped silently, the files are
  ingested all the same, and status requests get 404 while the page polls on for ever.
  `PageSeesEnd` names this exception.  It takes such a status request:
  `WorkerNeverTears` says that the worker alone cannot do it, even when it dies.
- *Settings.*  A reload discards the edits of the form; so does the answer to
  enabling the server in it.  A deletion filters the list of its click and deletes
  the key in the form.  Requests that overlap can leave the list out of date until
  the next load (`doubt`).  A test result may be of an older form, or survive a
  reload (`touched`).  Saving a server under a new key does not take its secret
  along.
- *Chat.*  `handleClearChat` unselects whichever thread is selected when it ends and
  puts back the sidebar of its click until its search is applied.  Searches applied
  out of order bring a deleted thread back (`overtaken`).  A missing thread is
  recovered from once; meeting it again shows the error (`met`).

## 5. Proofs

| Theorem | Statement |
|---|---|
| `RecipeStore_proofs!TypeCorrect` | `Spec => []TypeOK` |
| `RecipeStore_proofs!LinksAlwaysResolve` | `Spec => []LinksResolve` |
| `RecipeStore_proofs!ResumableAlwaysHasRecipe` | `Spec => []ResumableHasRecipe` |
| `RecipeStore_proofs!StoreImplementsFencedLease` | `Spec => ImplementsFencedLease` |
| `RecipeStore_proofs!LeasedRecipesFrozen` | `Spec => LeasedRecipeFrozen` |
| `RecipeStore_proofs!RunLinksProtect` | `Spec => RunLinkProtects` |
| `RecipeStore_proofs!LeaseTypeCorrect` | every token in force was granted, for the recipe it leases |
| `RecipeStore_proofs!DeadTokensStayDead` | `Spec => Lease!DeadStaysDead` |
| `ToolAgentTurn_proofs!TurnTypeCorrect` | `TurnSpec => []TurnTypeOK` |
| `ToolAgentTurn_proofs!NodesAlwaysAlone` | `TurnSpec => NodesRunAlone` |
| `ToolAgentTurn_proofs!TurnUsesStore` | `TurnSpec => Spec` |
| `ToolAgentTurn_proofs!PunctualHeartbeatsKeepLeases` | `TurnSpec => []PunctualHeartbeatKeepsLease` |
| `ToolAgentTurn_proofs!LinkedRunsFindRecipe` | `MaxNow < Retention => (TurnSpec => []LinkedRunFindsRecipe)` |
| `SaverTransaction_proofs!SaverTypeCorrect` | `Spec => []TypeOK` |
| `SaverTransaction_proofs!TransactionsWhole` | `Spec => []AllOrNothing` |
| `SaverTransaction_proofs!DoneAlwaysStored` | `Spec => []DoneIsStored` |
| `IngestionJobs_proofs!JobsTypeCorrect` | `Spec => []TypeOK` |
| `IngestionJobs_proofs!IndexedAlwaysStored` | `Spec => []IndexedIsStored` |
| `IngestionJobs_proofs!WorkerNeverTears` | `Spec => OnlyInterruptionsTear`: without a status request that writes, the record stays readable |
| `McpClients_proofs!ClientsTypeCorrect` | `Spec => []ClientsTypeOK` |
| `McpClients_proofs!HeadersAlwaysCurrent` | `Spec => HeadersAreCurrent` |
| `McpClients_proofs!CachedClientsAlwaysWork` | `Spec => []CachedClientsWork` |
| `McpClients_proofs!ServedAlwaysOpen` | `Spec => []ServedStayOpen` |
| `McpClients_proofs!OpenAlwaysOwned` | `Spec => []OpenIsOwned` |
| `McpSettings_proofs!SettingsInvariant` | `SettingsSpec => []SettingsInv`, the inductive invariant of the pages |
| `McpSettings_proofs!SettingsTypeCorrect` | `SettingsSpec => []SettingsTypeOK` |
| `McpSettings_proofs!PagesShowStore` | `SettingsSpec => []PageShowsStore` |
| `McpSettings_proofs!ResultIsOfTestedServer` | `SettingsSpec => []ResultOfTestedServer` |
| `McpSettings_proofs!StoreIsRegistry` | `SettingsSpec => ImplementsRegistry` |
| `ChatTurns_proofs!ChatInvariant` | `Spec => []ChatInv`, the inductive invariant of a thread |
| `ChatTurns_proofs!ChatTypeCorrect` | `Spec => []ChatTypeOK` |
| `ChatTurns_proofs!CallsAlwaysAccounted` | `Spec => []CallsAccounted` |
| `ChatTurns_proofs!SourcesAlwaysOfTurn` | `Spec => []SourcesOfThisTurn` |
| `ChatTurns_proofs!NoFailureSilent` | `Spec => []NoSilentFailure` |
| `ChatTurns_proofs!ToolsAlwaysOfTurn` | `Spec => []ToolsOfTurn` |
| `ChatTurns_proofs!ThreadImplementsConversation` | `Spec => ImplementsConversation` |
| `ChatTurns_proofs!SearchKeepsContract` | `SearchContract`, of `KnowledgeSearch` |
| `ChatSession_proofs!SessionInvariant` | `SessionSpec => []SessionInv`, the inductive invariant of the session |
| `ChatSession_proofs!SessionTypeCorrect` | `SessionSpec => []SessionTypeOK` |
| `ChatSession_proofs!SuggestionsFollow` | `SessionSpec => []SuggestionsOfLastAnswer` |
| `ChatSession_proofs!MissingThreadIsLeft` | `SessionSpec => []MissingThreadLeft` |
| `ChatSession_proofs!DeletedThreadsLeave` | `SessionSpec => []DeletedLeavesSidebar` |
| `ChatSession_proofs!LateCallbacksSettle` | `SessionSpec => LateStepsSettle`: without a click, a step of any tab selects no thread or uses up a tab that waits for the one it creates |

They hold for every set of threads, turns, runs, payloads, tasks, files, loads,
tools, documents and ids, and every duration and bound.  The assumptions are the named ones of the
modules: `StoreConstants` of `RecipeStore` (ids are numbers, NULL is no value, lease <
grace < retention), `TurnConstants` (the turn is one of the store's; positive
limits), that `NoToken` is no token, `SaverConstants`, `JobConstants` (`NoJob`, `Empty` and
`Torn` are no records and differ), `ClientConstants` (no load is called `Free`, `NoSecret` is no secret,
lifetimes are positive), `ChatConstants` (the Oracle tool and the key of an empty
selection are no MCP server, limits are positive), `SearchConstants` (the default
knowledge base is an allowed one, limits are positive), `StoreConstants` of
`McpServerStore`, `SettingsConstants` and
`SessionConstants` (the absent values are none of the present ones, the base
configuration names each server once), and,
for `DeadTokensStayDead`, that the absent lease is no token.

Along which argument:

- *Store, types.*  `TypeOK` is not inductive by itself: that a row's NULLs stay
  together after a deletion depends on deleting only stored rows with no links left.
  `TablesOK == TypeOK /\ LinksResolve` is inductive; one lemma per operation.
- *Store, checkpoints.*  `ResumableHasRecipe` also needs that a checkpoint is
  determined by its thread, namespace and id (`OneCheckpoint`: otherwise a link to
  one checkpoint would speak for another) and that each resumable checkpoint has
  its link (`ResumableLinked`).  `StoreOK` adds both.
- *Store, leases.*  The refinement rests on `OwnersDrawn`: each issued token's owner
  is at most `claims`.  So a claim's token is new even where a recreated row's fence
  starts from zero, which is the case a check of the fence alone would miss.  Each
  other operation leaves every holder or ends its lease (`HolderKept`).  The two
  action properties follow from `LeaseOK`, one step per operation.
- *Turns.*  `TurnInv` adds to `TablesOK` what a run knows at each pc (`RunOK`: a run
  with a lease presents a token it was given, a run that begins an operation has one
  left, a run that creates has a recipe to ask for), that the row's owner is the last
  claim's or none (`LastOwner`), and that no retained checkpoint leads back to the
  setup node.  `TurnUsesStore` follows step by step, so the store's theorems hold of
  the runs; `NodesRunAlone` follows as an accepted release names the row's owner,
  which by `LastOwner` is the last claim's.
- *Heartbeats.*  `LeaseInv`: a run that is neither late nor wiped has a fresh row,
  renewed at most a heartbeat interval ago (`PunctualOK`), and no two runs hold
  tokens of one owner (`OwnersOK`).  An interval is less than a lease, so the row is
  live; a live row is neither claimed nor collected, and a renewal or release in
  another owner's name is refused.  The arithmetic is that of any lease duration,
  an odd one too.
- *Links.*  `LinkedOK`: a linked run has its link and is active.  The theorem speaks of
  the first retention only, as the code's promise does (see above).
- *Transactions.*  The holder of the lock awaits the last statement of the queue
  (`QueueOK`), so the statements of a body reach an empty queue, and a write or commit
  is never behind another task's statement; a transaction that is given up has its
  rollback right behind it (`RollbackOK`).  From that, `DataOK` says of each task which
  of its writes are open and which are stored.
- *Ingestion.*  Every record anywhere (on disk, in the temporary file, in the two
  copies) is true of the vector store, and the worker's report "indexed" is
  about a file it has just stored: no overwriting can make a record false, and a torn
  one claims nothing.  `WorkerNeverTears` rests on `Alone`: as long as no status request
  writes, what the worker wrote is whole when it renames it.
- *MCP clients.*  `TypesOK` adds to `ClientsTypeOK` what a load has by when: a token
  before it has a key, an adapter that was created before it is evicted.
  `HeadersAreCurrent` rests on `CredentialsOK`: a request of the present generation was
  made with the present secret.  The secret alone would not do as a test of that, as
  it may change and change back.  The caches rest on `CachesOK`: only the load with the
  client lock is between listing and the end, the caches differ by its entry alone,
  and nobody else knows the adapter of that entry.  Hence evicting makes the caches
  equal again, and closing closes under nobody.
- *Chat turns.*  Every step but a question rebuilds the messages after the latest
  question (`Moves`), so it is enough that the current turn stays in order:
  `ChatInv` has the types, what each node finds (`AtNode`, `OfRecipe`) and of each turn
  (`TurnOK`) that its results are in their calls' places (`Shape`), that a final message
  is its last and calls nothing, that no failed result has documents, and that the
  answer may follow such messages (`Sourced`, `Frank`).  None of the checked
  invariants is inductive without these: a composition reads the results that earlier
  nodes, and possibly an earlier run, left.  What a composition decides on is the
  analysis, so `Frank` needs what the analysis computes: `NotesRead` says that after
  each message its notes hold exactly the results so far and leave pending exactly the
  calls without one, given unique ids; `InvocationsCount` needs no unique ids.  Both
  are inductions over the messages, by the least place at which they fail.  The
  refinement follows from `Moves`: a step leaves all entries of the log, adds an
  open one, or gives the latest its answer.
- *Knowledge search.*  Rankings have no repetitions and truncation keeps their
  places; each refusal shows a name only if it is allowed.
- *MCP settings.*  The store's keys are unique whatever the requests do
  (`UpsertedFacts`, `WithoutFacts`), and by that one lemma each a route is a step of the
  register.  For the pages, `SettingsInv` says per page and per request what the one
  knows of the other: a page without doubt has at most one request under way (`Alone`,
  `OneTest`), whatever the other pages have changed is no more than what it has not yet
  loaded (`AllSeen`, `Fresh`), and a save, switch or deletion that the server has
  handled and not yet answered is known to the store and not yet to the page.  A page
  with none of these under way shows the store (`PageShowsStore`).  A test's request
  carries the form, so its answer is of the form if that was not touched.
- *Chat session.*  A page that hydrates or streams shows no suggestions and has no
  active request for any (`PagesOK`, `AskedOK`), so an answer that is late meets a
  page that refuses it.  A deleted thread is never created again (`UsedOK`); a search
  that was started before the deletion may bring it back, but behind each such search
  a later one is under way that began after the deletion and is applied after it,
  unless searches were applied out of order (`SidebarsOK`, with `Covered` and
  `InTurn`).  `LateCallbacksSettle` goes through the steps: what is left of clicks
  whose answers are late unselects threads and writes their absence, and only a tab in
  `Creating` selects one, which takes it out of that set.  So however many tabs there
  are, they cannot write each other's thread back for ever.

Only model-checked are the liveness properties (`AbandonedCollected`, `RunsEnd`,
`PageSeesEnd`, `TestsEnd`, `ButtonsComeBack`, `SuggestionsSettle`, `TabsAgree`):
fairness and `ENABLED` are out of the prover's reach.  Every safety property of a
passing run is proved.  `LateCallbacksSettle` is the part of `TabsAgree` that needs no
fairness.  The library's induction theorems take an operator as a parameter,
which the installed provers cannot instantiate; the one recursive function, the analysis
of a turn, is reasoned about with least counterexamples instead.  The theorems are about
specifications without fairness, so they hold of the fair ones, which imply them.

## 6. Limits

- `RecipeStore` takes each transaction as atomic.  That is what `SaverTransaction`
  checks of commits and rollbacks, with the stated exception; SQLite's own
  rollback is assumed not to fail.
- `ToolAgentTurn` has one thread and one turn; turns meet only in the
  checkpointer's maintenance, which `RecipeStore` checks with two threads.
  Copies of threads are left to `RecipeStore`, too.
- The contents of recipes, messages, tool results and documents are not modelled
  beyond what the properties tell apart.
- `chat_session` has two tabs, and liveness with more is not checked; a third tab is in
  the environment's selections and deletions and in `LateCallbacksSettle`.

Known weaknesses of the code that no property covers:

- A claim whose commit is cancelled may have stored a lease whose token nobody has;
  the turn waits for it to expire (`tool_agent_recipe_store.py:219`).  A run restarted
  after a crash likewise meets its own dead lease (`tool_agent_turn.py:321`).
- `_complete_job` fails only queued and running files: a worker that dies between two
  reports leaves a file at parsing or embedding (`document_ingestion_jobs.py:223`).
  Uploads are left over by a crash (`:112`), and a file called like another one's
  stored path gets its progress (`:92`).
- Callers with different secrets share one OAuth provider (`mcp_oauth.py:156`), and each
  rotation of a token caches another adapter (`mcp_adapter_runtime.py:343`).
- Two *processes* over one server file can lose each other's change
  (`mcp_config_store.py:206`); the model has one.
- Feedback given by message index is not reset when the thread changes; "New chat"
  does not clear a pending suggestion.

## 7. Not modelled

- *Database utilities*: SQL over a driver's pool; what could go wrong is the driver's.
- *Models and LLM invocation*: calls of an external service, a nondeterministic answer
  in `ChatTurns`.
- *Observability and logging*: side effects nothing of the modelled behaviour reads.
- *API shell and settings*: wiring, parsing, stateless routes.
- *User interface components*: rendering.
- *Scripts*: one-shot maintenance tools.
- *Parts left out of modelled components* are named with each module above and in
  `PROJECT.json`.
