----------------------------- MODULE ChatSession -----------------------------
(***************************************************************************)
(* The chat page in several browser tabs (src/frontend/src: app/page.tsx,  *)
(* hooks/useChatSession.ts, hooks/chat, hooks/useSuggestions.ts).          *)
(*                                                                         *)
(* The tabs share the id of the active thread through localStorage; each   *)
(* has a sidebar, a stream bound to the thread, and follow-up suggestions  *)
(* for the last answer it shows.  Threads live on the Agent Server.  The   *)
(* interleaving is that of callbacks: searches, deletions and suggestions  *)
(* are answered late, out of order or not at all, while the user goes on,  *)
(* and a deletion ends with the sidebar it closed over at its click.       *)
(*                                                                         *)
(* The stream (@langchain/react) and the server's runs are external: a     *)
(* stream that is bound to another thread starts over by hydrating it, and *)
(* joins the run it finds there.  A retry is a run like any other, and     *)
(* reconnecting counts as running.                                         *)
(***************************************************************************)
EXTENDS Naturals, Sequences, SequencesExt, FiniteSets

CONSTANTS
  Tab, Thread,
  Existing,               \* the threads there are at first
  NoThread, NoAnswer,
  MaxClicks, MaxAnswers, MaxUnderWay \* bounds

ASSUME SessionConstants ==
  /\ Existing \subseteq Thread /\ NoThread \notin Thread
  /\ IsFiniteSet(Tab) /\ MaxAnswers \in Nat \ {0}

VARIABLES
  live, used, \* the server's threads, and every thread it ever had
  busy,       \* threads with a run
  answers,    \* the number of answers a thread was given
  stored,     \* localStorage[THREAD_ID_STORAGE_KEY]
  tabs,       \* what each tab shows
  ops,        \* searches and deletions under way, in the order of their start
  asked,      \* requests for suggestions under way
  clicks

server == <<live, used, busy, answers>>
sessionVars == <<server, stored, tabs, ops, asked, clicks>>

Phase == {"hydrating", "running", "idle", "failed"}  \* resolveChatStatus
Answer == Thread \X (1 .. MaxAnswers)

\* `met`, `gone`, `overtaken` and `lost` record what happened, for the
\* properties: the missing threads the tab recovered from, the threads it
\* deleted, that an older search was applied after a
\* newer one, and that a search or the answer to a deletion was lost.
Page == [thread : Thread \cup {NoThread}, history : SUBSET Thread,
         bound : Thread \cup {NoThread}, phase : Phase,
         error : {"none", "missing", "other"},
         last : Answer \cup {NoAnswer},
         shown : Answer \cup {NoAnswer}, loading : BOOLEAN,
         key : Answer \cup {NoAnswer}, recovered : Thread \cup {NoThread},
         met : SUBSET Thread, gone : SUBSET Thread,
         overtaken : BOOLEAN, lost : BOOLEAN]

Search(p) == [tab |-> p, kind |-> "search", thread |-> NoThread, seen |-> {},
              stage |-> "sent", answer |-> {}, late |-> FALSE]
Deletion(p, kind, t) ==
  [Search(p) EXCEPT !.kind = kind, !.thread = t, !.seen = tabs[p].history]

LastAnswer(t) == IF answers[t] = 0 THEN NoAnswer ELSE <<t, answers[t]>>

\* A tab opens on the stored thread; an idle one searches at once.
SessionInit ==
  /\ live = Existing /\ used = Existing /\ busy = {}
  /\ answers = [t \in Thread |-> IF t \in Existing THEN 1 ELSE 0]
  /\ stored \in Existing \cup {NoThread}
  /\ tabs = [p \in Tab |->
       [thread |-> stored, history |-> {}, bound |-> stored,
        phase |-> IF stored = NoThread THEN "idle" ELSE "hydrating",
        error |-> "none", last |-> NoAnswer, shown |-> NoAnswer,
        loading |-> FALSE, key |-> NoAnswer, recovered |-> NoThread,
        met |-> {}, gone |-> {}, overtaken |-> FALSE, lost |-> FALSE]]
  /\ ops = IF stored = NoThread THEN SetToSeq({Search(p) : p \in Tab})
           ELSE <<>>
  /\ asked = <<>> /\ clicks = 0

-----------------------------------------------------------------------------
\* A change of a tab and the effects that follow it.

NotAborted(p) == asked
Aborted(p) == [i \in DOMAIN asked |->
                 [asked[i] EXCEPT !.active = @ /\ asked[i].tab # p]]
QuietStillLoading(page) == [page EXCEPT !.shown = NoAnswer]
Quiet(page) == [page EXCEPT !.shown = NoAnswer, !.loading = FALSE]

\* A tab that becomes idle searches the threads.
Refreshed(p, new, under) ==
  IF new.phase = "idle" /\ tabs[p].phase # "idle"
  THEN Append(under, Search(p)) ELSE under

\* When a hydration or a run begins the suggestions go; when the tab is idle
\* with an answer that it asked none for, it asks.
Render(p, new, under) ==
  LET old   == tabs[p]
      begun == new.phase # old.phase /\ new.phase \in {"hydrating", "running"}
      wants == /\ new.phase = "idle" /\ new.thread # NoThread
               /\ new.last # NoAnswer /\ new.last # new.key
  IN /\ tabs' = [tabs EXCEPT ![p] =
          IF begun THEN Quiet(new)
          ELSE IF wants
          THEN [new EXCEPT !.key = new.last, !.shown = NoAnswer,
                           !.loading = TRUE]
          ELSE new]
     /\ asked' = IF wants THEN Append(Aborted(p), [tab |-> p, of |-> new.last,
                                               active |-> TRUE])
                 ELSE IF begun THEN Aborted(p) ELSE asked
     /\ ops' = Refreshed(p, new, under)

\* The stream follows the thread of the session.
Bind(page, t) ==
  IF t = page.bound THEN [page EXCEPT !.thread = t]
  ELSE [page EXCEPT !.thread = t, !.bound = t, !.error = "none",
                    !.phase = IF t = NoThread THEN "idle" ELSE "hydrating",
                    !.last = NoAnswer]

-----------------------------------------------------------------------------
\* The user.

Click == clicks < MaxClicks /\ clicks' = clicks + 1

SelectThread(p) ==
  /\ Click
  /\ \E t \in tabs[p].history \ {tabs[p].thread} :
       Render(p, Bind(tabs[p], t), ops) /\ stored' = t
  /\ UNCHANGED server

StartNewChat(p) ==
  /\ Click
  /\ Render(p, Bind(tabs[p], NoThread), ops) /\ stored' = NoThread
  /\ UNCHANGED server

\* A question, a suggestion, or a retry.  Without a thread the server is
\* asked for one.
SendUserMessage(p) ==
  LET t == tabs[p].bound
  IN /\ Click
     /\ tabs[p].phase \in {"idle", "failed"} /\ t \notin busy
     /\ busy' = busy \cup ({t} \cap live)
     /\ Render(p, [tabs[p] EXCEPT !.phase = "running", !.error = "none"], ops)
     /\ UNCHANGED <<live, used, answers, stored>>

Stopped(p, under) ==
  /\ busy' = busy \ {tabs[p].bound}
  /\ Render(p, [tabs[p] EXCEPT !.phase = "idle"], under)
  /\ UNCHANGED <<live, used, answers, stored>>

StopStream(p) == Click /\ tabs[p].phase = "running" /\ Stopped(p, ops)

Start(op) == Len(ops) < MaxUnderWay /\ ops' = Append(ops, op)

\* Clearing a chat first stops its stream.
ClearChat(p) ==
  /\ Click
  /\ Start([Deletion(p, "clear", tabs[p].thread) EXCEPT
              !.stage = IF tabs[p].phase = "running" THEN "stopping" ELSE @])
  /\ UNCHANGED <<server, stored, tabs, asked>>

\* Of a thread in the sidebar that is not the active one; that one is cleared.
DeleteThread(p) ==
  /\ Click
  /\ \E t \in tabs[p].history \ {tabs[p].thread} : Start(Deletion(p, "delete", t))
  /\ UNCHANGED <<server, stored, tabs, asked>>

\* A tab that is not among Tab, or a request of the API: it selects a thread
\* or none, or deletes one (so does the sweep of langgraph.json).
SelectedElsewhere ==
  /\ Click
  /\ stored' \in live \cup {NoThread}
  /\ UNCHANGED <<server, tabs, ops, asked>>

DeletedElsewhere ==
  /\ Click
  /\ \E t \in live : live' = live \ {t} /\ busy' = busy \ {t}
  /\ UNCHANGED <<used, answers, stored, tabs, ops, asked>>

-----------------------------------------------------------------------------
\* The stream.

Created(p) ==
  /\ tabs[p].phase = "running" /\ tabs[p].bound = NoThread
  /\ \E t \in Thread \ used :
       /\ live' = live \cup {t} /\ used' = used \cup {t}
       /\ busy' = busy \cup {t}
       /\ stored' = t
       /\ Render(p, [tabs[p] EXCEPT !.thread = t, !.bound = t], ops)
  /\ UNCHANGED <<answers, clicks>>

RunAnswers(t) ==
  /\ t \in busy /\ answers[t] < MaxAnswers
  /\ busy' = busy \ {t}
  /\ answers' = [answers EXCEPT ![t] = @ + 1]
  /\ UNCHANGED <<live, used, stored, tabs, ops, asked, clicks>>

RunFails(t) ==
  /\ t \in busy
  /\ busy' = busy \ {t}
  /\ UNCHANGED <<live, used, answers, stored, tabs, ops, asked, clicks>>

\* isMissingThreadError: the error must name the thread of the session.  The
\* first definition is a faulty one that takes the stored thread for that.
MissingThreadStored(page, error) == error = "missing" /\ page.bound = stored
MissingThread(page, error) == error = "missing" /\ page.thread = page.bound

\* A missing thread is left, but once only: the same error is not acted on
\* again.
Recoverable(page) == page.recovered # page.thread

Fails(p, error) ==
  LET page == tabs[p]
  IN IF MissingThread(page, error) /\ Recoverable(page)
     THEN /\ Render(p, [Bind(page, NoThread) EXCEPT
                          !.recovered = page.thread,
                          !.met = @ \cup {page.thread}], ops)
          /\ stored' = NoThread
     ELSE /\ Render(p, [page EXCEPT !.phase = "failed", !.error = error], ops)
          /\ UNCHANGED stored

Hydrate(p) ==
  LET t == tabs[p].bound
  IN /\ tabs[p].phase = "hydrating"
     /\ \/ /\ t \in live
           /\ Render(p, [tabs[p] EXCEPT
                           !.phase = IF t \in busy THEN "running" ELSE "idle",
                           !.last = LastAnswer(t)], ops)
           /\ UNCHANGED stored
        \/ t \notin live /\ Fails(p, "missing")
        \/ Fails(p, "other")
     /\ UNCHANGED <<server, clicks>>

\* The run the stream follows has ended: in an answer, or not.
RunSeen(p) ==
  LET t == tabs[p].bound
  IN /\ tabs[p].phase = "running" /\ t # NoThread /\ t \notin busy
     /\ \/ /\ t \in live /\ LastAnswer(t) # tabs[p].last
           /\ Render(p, [tabs[p] EXCEPT !.phase = "idle",
                                        !.last = LastAnswer(t)], ops)
           /\ UNCHANGED stored
        \/ t \in live /\ LastAnswer(t) = tabs[p].last /\ Fails(p, "other")
        \/ t \notin live /\ Fails(p, "missing")
     /\ UNCHANGED <<server, clicks>>

\* A storage event, or the next look at localStorage.  The first definition is
\* a faulty one that stores the thread of the tab again.
SyncBack(p) ==
  /\ tabs[p].thread # stored
  /\ stored' = tabs[p].thread
  /\ UNCHANGED <<server, tabs, ops, asked, clicks>>
Sync(p) ==
  /\ tabs[p].thread # stored
  /\ Render(p, Bind(tabs[p], stored), ops)
  /\ UNCHANGED <<server, stored, clicks>>

-----------------------------------------------------------------------------
\* Searches and deletions.

StopForClear(i) ==
  LET p == ops[i].tab
      on == [ops EXCEPT ![i].stage = "sent"]
  IN /\ ops[i].stage = "stopping"
     /\ IF tabs[p].phase = "running" THEN Stopped(p, on)
        ELSE ops' = on /\ UNCHANGED <<server, stored, tabs, asked>>
     /\ UNCHANGED clicks

Serve(i) ==
  LET op == ops[i]
  IN /\ op.stage = "sent"
     /\ ops' = [ops EXCEPT ![i].stage = "answered", ![i].answer = live]
     /\ IF op.kind = "search" THEN UNCHANGED <<live, busy>>
        ELSE live' = live \ {op.thread} /\ busy' = busy \ {op.thread}
     /\ UNCHANGED <<used, answers, stored, tabs, asked, clicks>>

\* A deletion goes on with a search.
EndsThere(i) == RemoveAt(ops, i)
GoesOn(i) == Append(RemoveAt(ops, i), Search(ops[i].tab))
Gone(page, i) == [page EXCEPT !.gone = @ \cup ({ops[i].thread} \ {NoThread})]

\* The end of handleClearChat: no thread, whichever is selected by now, and
\* the sidebar as it was at the click.
Cleared(i) ==
  LET p == ops[i].tab
  IN /\ ops[i].kind = "clear" /\ ops[i].stage = "answered"
     /\ Render(p, Gone([Bind(tabs[p], NoThread) EXCEPT !.history = ops[i].seen],
                       i), GoesOn(i))
     /\ stored' = NoThread
     /\ UNCHANGED <<server, clicks>>

Deleted(i) ==
  /\ ops[i].kind = "delete" /\ ops[i].stage = "answered"
  /\ ops' = GoesOn(i)
  /\ tabs' = [tabs EXCEPT ![ops[i].tab] = Gone(@, i)]
  /\ UNCHANGED <<server, stored, asked, clicks>>

\* An applied search also takes up the stored thread.
Searched(i) ==
  LET op == ops[i]
      p  == op.tab
      page == [tabs[p] EXCEPT
                 !.history = op.answer,
                 !.overtaken = @ \/ op.late]
      rest == [j \in DOMAIN ops |->
                 IF j < i /\ ops[j].tab = p /\ ops[j].kind = "search"
                 THEN [ops[j] EXCEPT !.late = TRUE] ELSE ops[j]]
  IN /\ op.kind = "search" /\ op.stage = "answered"
     /\ Render(p, IF op.answer = tabs[p].history THEN page
                  ELSE Bind(page, stored),
               RemoveAt(rest, i))
     /\ UNCHANGED <<server, stored, clicks>>

OpLost(i) ==
  /\ ops' = RemoveAt(ops, i)
  /\ tabs' = [tabs EXCEPT ![ops[i].tab].lost = TRUE]
  /\ UNCHANGED <<server, stored, asked, clicks>>

-----------------------------------------------------------------------------
\* Suggestions.

\* post_suggestions: some, or none, which is also its answer to an error.
Suggested == BOOLEAN

TakeAny(i) == TRUE
Take(i) == asked[i].active

SuggestionsArrive(i) ==
  LET p == asked[i].tab
  IN /\ \E some \in Suggested :
          tabs' = IF Take(i)
                  THEN [tabs EXCEPT
                          ![p].shown = IF some THEN asked[i].of ELSE @,
                          ![p].loading = FALSE]
                  ELSE tabs
     /\ asked' = RemoveAt(asked, i)
     /\ UNCHANGED <<server, stored, ops, clicks>>

-----------------------------------------------------------------------------

SessionNext ==
  \/ \E p \in Tab :
       \/ SelectThread(p) \/ StartNewChat(p) \/ SendUserMessage(p)
       \/ StopStream(p) \/ ClearChat(p) \/ DeleteThread(p)
       \/ Created(p) \/ Hydrate(p) \/ RunSeen(p) \/ Sync(p)
  \/ SelectedElsewhere \/ DeletedElsewhere
  \/ \E t \in Thread : RunAnswers(t) \/ RunFails(t)
  \/ \E i \in DOMAIN ops :
       StopForClear(i) \/ Serve(i) \/ Cleared(i) \/ Deleted(i) \/ Searched(i)
       \/ OpLost(i)
  \/ \E i \in DOMAIN asked : SuggestionsArrive(i)

\* The browser delivers storage events, and every fetch of suggestions ends.
SessionFairness ==
  \A p \in Tab :
    /\ WF_sessionVars(Sync(p))
    /\ WF_sessionVars(\E i \in DOMAIN asked :
                        asked[i].tab = p /\ SuggestionsArrive(i))

SessionSpec == SessionInit /\ [][SessionNext]_sessionVars /\ SessionFairness

-----------------------------------------------------------------------------

\* Pages are well-formed and at most one request for suggestions of a tab is
\* the active one (activeRequestRef in useSuggestions.ts).
SessionTypeOK ==
  /\ live \subseteq used /\ busy \subseteq live
  /\ tabs \in [Tab -> Page]
  /\ \A i, j \in DOMAIN asked :
       asked[i].active /\ asked[j].active /\ asked[i].tab = asked[j].tab
         => i = j

\* The suggestions on display under a thread follow from the last answer on
\* display, however late they arrive and whatever the user selected, asked
\* or stopped meanwhile (useSuggestions.ts).
SuggestionsOfLastAnswer ==
  \A p \in Tab :
    tabs[p].thread # NoThread /\ tabs[p].phase \in {"idle", "failed"}
      /\ tabs[p].shown # NoAnswer => tabs[p].shown = tabs[p].last

\* The indicator that hides the suggestions while they are loading ends.
SuggestionsSettle == \A p \in Tab : tabs[p].loading ~> ~tabs[p].loading

\* A tab stays on a thread that the server has not only if it has left that
\* thread before (useChatController.ts, lastRecoveredMissingThreadKeyRef).
MissingThreadLeft ==
  \A p \in Tab : tabs[p].phase = "failed" /\ tabs[p].error = "missing"
                   => tabs[p].bound \in tabs[p].met

\* A thread that a tab deleted is not in its sidebar once everything under
\* way has ended, unless a search was lost or searches were applied in the
\* wrong order (docs/CHAT_MEMORY_AND_SESSIONS.md: "After the delete succeeds,
\* the sidebar is refreshed").
DeletedLeavesSidebar ==
  \A p \in Tab :
    (\A i \in DOMAIN ops : ops[i].tab # p)
      /\ ~tabs[p].overtaken /\ ~tabs[p].lost
      => tabs[p].gone \cap tabs[p].history = {}

\* The tabs that are waiting for the server to create their thread.
Creating == {p \in Tab : tabs[p].phase = "running" /\ tabs[p].bound = NoThread}

\* Late callbacks cannot change the thread of the tabs for ever: without a
\* click a step selects none, or uses up a tab that was waiting for its thread.
LateStepsSettle ==
  [][clicks' = clicks => /\ Creating' \subseteq Creating
                         /\ stored' \in {stored, NoThread} \/ Creating' # Creating]_sessionVars

\* In the end every tab is on the same thread, the stored one.
TabsAgree == <>[](\A p \in Tab : tabs[p].thread = stored)
=============================================================================
