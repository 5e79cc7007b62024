----------------------------- MODULE McpSettings -----------------------------
(***************************************************************************)
(* The MCP half of the settings page (src/frontend/src/app/settings/       *)
(* page.tsx) in several browser tabs, against the routes of config_route.  *)
(*                                                                         *)
(* A page has the list of servers it was told of, the draft in its form,   *)
(* and requests under way.  Any number of requests may be under way at     *)
(* once: only a second save, a second test, a save during a toggle and a   *)
(* second toggle of one server are kept out by the disabled buttons.       *)
(* Requests reach the server and answers reach the page in any order, or   *)
(* not at all.  The state an answer changes is the state when it arrives,  *)
(* except that a deletion filters the list of the moment of its click.     *)
(***************************************************************************)
EXTENDS McpServerStore, FiniteSets

CONSTANTS
  Page,
  NoKey, NoResult, NoServer,
  MaxOps, MaxInFlight \* bounds: clicks and edits, and requests under way

ASSUME SettingsConstants ==
  /\ IsFiniteSet(Page)
  /\ NoServer \notin [enabled : BOOLEAN, type : AuthType,
                     secret : Secret \cup {NoSecret}]

VARIABLES
  pages,    \* what each page shows
  requests, \* the requests under way, in the order they were made
  ops       \* counts clicks and edits, for MaxOps

settingsVars == <<file, pages, requests, ops>>

EmptyAuth == [type |-> NoAuth, secrets |-> [t \in WithSecret |-> NoSecret]]
EmptyDraft == [key |-> NoKey, enabled |-> TRUE, auth |-> EmptyAuth]
Draft == [key : Key \cup {NoKey}, enabled : BOOLEAN, auth : Auth]
Clone(s) == [key |-> s.key, enabled |-> s.enabled,
             auth |-> [EmptyAuth EXCEPT !.type = s.type]]

Kind == {"load", "save", "toggle", "delete", "test"}
Changing == {"save", "toggle", "delete"}

\* `alone` and, on a page, `doubt` and `touched` record what happened, for
\* the properties: no other request of the page overlapped this one and no
\* other page changed the store meanwhile; the list may be out of date; the
\* draft was replaced or edited since the test began.
Request(p, kind, draft) ==
  [page |-> p, kind |-> kind, draft |-> draft, list |-> pages[p].servers,
   stage |-> "sent", answer |-> NoResult, alone |-> TRUE]

EmptyPage ==
  [servers |-> <<>>, selected |-> NoKey, draft |-> EmptyDraft,
   saving |-> FALSE, testing |-> FALSE, result |-> NoResult, pending |-> {},
   doubt |-> TRUE, touched |-> FALSE]

\* Each page loads the servers when it is mounted.
SettingsInit ==
  /\ StoreInit
  /\ pages = [p \in Page |-> EmptyPage]
  /\ LET order == SetToSeq(Page)
     IN requests = [i \in DOMAIN order |->
                      [page |-> order[i], kind |-> "load", draft |-> EmptyDraft,
                       list |-> <<>>, stage |-> "sent", answer |-> NoResult,
                       alone |-> TRUE]]
  /\ ops = 0

UnderWay(p) == {i \in DOMAIN requests : requests[i].page = p
                                        /\ requests[i].kind # "test"}

-----------------------------------------------------------------------------
\* Clicks and edits.

Operate == ops < MaxOps /\ ops' = ops + 1

Make(request) ==
  /\ Len(requests) < MaxInFlight
  /\ LET others == UnderWay(request.page)
         all    == Append(requests,
                     [request EXCEPT !.alone = others = {}])
     IN requests' = IF request.kind = "test" THEN all
                    ELSE [i \in DOMAIN all |->
                            IF i \in others
                            THEN [all[i] EXCEPT !.alone = FALSE] ELSE all[i]]
  /\ UNCHANGED file

Show(p, change) ==
  /\ pages' = [pages EXCEPT ![p] = change]
  /\ UNCHANGED <<file, requests>>

\* The draft is set by something other than the test it may be waiting for.
WithDraft(page, draft) ==
  [page EXCEPT !.draft = draft, !.touched = @ \/ page.testing]

Load(p) ==
  /\ Operate
  /\ Make(Request(p, "load", EmptyDraft))
  /\ UNCHANGED pages

Select(p) ==
  /\ Operate
  /\ \E i \in DOMAIN pages[p].servers :
       LET s == pages[p].servers[i]
       IN Show(p, [WithDraft(pages[p], Clone(s)) EXCEPT
                     !.selected = s.key, !.result = NoResult])

StartNew(p) ==
  /\ Operate
  /\ Show(p, [WithDraft(pages[p], EmptyDraft) EXCEPT
                !.selected = NoKey, !.result = NoResult])

EditedKeepingResult(p, draft) == WithDraft(pages[p], draft)
Edited(p, draft) == [WithDraft(pages[p], draft) EXCEPT !.result = NoResult]

Edit(p) ==
  /\ Operate
  /\ LET d == pages[p].draft
     IN \/ \E k \in Key \ {d.key} : Show(p, Edited(p, [d EXCEPT !.key = k]))
        \/ Show(p, Edited(p, [d EXCEPT !.enabled = ~@]))
        \/ \E t \in AuthType \ {d.auth.type} :
             Show(p, Edited(p, [d EXCEPT !.auth.type = t]))
        \/ /\ d.auth.type # NoAuth
           /\ \E s \in Secret : s # d.auth.secrets[d.auth.type] /\
                Show(p, Edited(p, [d EXCEPT !.auth.secrets[d.auth.type] = s]))

Save(p) ==
  /\ Operate
  /\ ~pages[p].saving /\ pages[p].pending = {} /\ pages[p].draft.key # NoKey
  /\ Make(Request(p, "save", pages[p].draft))
  /\ pages' = [pages EXCEPT ![p].saving = TRUE]

Toggle(p) ==
  /\ Operate
  /\ \E i \in DOMAIN pages[p].servers :
       LET s == pages[p].servers[i]
       IN /\ s.key \notin pages[p].pending
          /\ Make(Request(p, "toggle", [Clone(s) EXCEPT !.enabled = ~@]))
          /\ pages' = [pages EXCEPT ![p].pending = @ \cup {s.key}]

\* What is deleted is the key in the form, which may have been edited.
DeleteDraft(p) ==
  /\ Operate
  /\ Holds(pages[p].servers, pages[p].selected)
  /\ Make(Request(p, "delete", pages[p].draft))
  /\ UNCHANGED pages

Test(p) ==
  /\ Operate
  /\ ~pages[p].saving /\ ~pages[p].testing /\ pages[p].draft.key # NoKey
  /\ Make(Request(p, "test", pages[p].draft))
  /\ pages' = [pages EXCEPT ![p].testing = TRUE, ![p].result = NoResult,
                            ![p].touched = FALSE]

-----------------------------------------------------------------------------
\* The server.

Answered(r, answer) ==
  [requests EXCEPT ![r].stage = "answered", ![r].answer = answer]

\* A change is news to the other pages, and to their requests under way.
Known(r, done) ==
  LET p == requests[r].page
  IN /\ requests' = [i \in DOMAIN done |->
                       IF done[i].page # p
                       THEN [done[i] EXCEPT !.alone = FALSE] ELSE done[i]]
     /\ pages' = [q \in Page |-> IF q # p
                                 THEN [pages[q] EXCEPT !.doubt = TRUE]
                                 ELSE pages[q]]

HandleLoad(r) ==
  /\ requests[r].kind = "load"
  /\ requests' = Answered(r, Listing)
  /\ UNCHANGED <<file, pages>>

HandleSave(r) ==
  LET d == requests[r].draft
  IN /\ requests[r].kind = "save"
     /\ Put(d.key, d.enabled, d.auth)
     /\ Known(r, Answered(r, Response(At(Materialized', d.key))))

HandleToggle(r) ==
  LET d == requests[r].draft
  IN /\ requests[r].kind = "toggle"
     /\ \/ /\ Patch(d.key, d.enabled)
           /\ Known(r, Answered(r, Response(At(Materialized', d.key))))
        \/ /\ ~Holds(Materialized, d.key)
           /\ requests' = [requests EXCEPT ![r].stage = "failed"]
           /\ UNCHANGED <<file, pages>>

\* A key that is not well-formed is refused.
HandleDelete(r) ==
  /\ requests[r].kind = "delete"
  /\ \/ /\ requests[r].draft.key # NoKey
        /\ Delete(requests[r].draft.key)
        /\ Known(r, Answered(r, NoResult))
     \/ /\ requests[r].draft.key = NoKey
        /\ requests' = [requests EXCEPT ![r].stage = "failed"]
        /\ UNCHANGED <<file, pages>>

\* _server_config_for_test: the server of the form, with the secret that the
\* stored one has if the form has none.
ConfigForTest(d) == [of |-> d, secret |-> WrittenSecret(d.key, d.auth)]

\* The test awaits the MCP server, for MCP_CONNECTION_TEST_TIMEOUT_SECONDS.
HandleTest(r) ==
  /\ requests[r].kind = "test"
  /\ requests' = [requests EXCEPT ![r].stage = "probing",
                                  ![r].answer = ConfigForTest(requests[r].draft)]
  /\ UNCHANGED <<file, pages>>

Handle(r) ==
  /\ requests[r].stage = "sent"
  /\ \/ HandleLoad(r) \/ HandleSave(r) \/ HandleToggle(r)
     \/ HandleDelete(r) \/ HandleTest(r)
  /\ UNCHANGED ops

\* Whether the test succeeds is left out: it changes only what is shown.
ServerProbed(r) ==
  /\ requests[r].stage = "probing"
  /\ requests' = [requests EXCEPT ![r].stage = "answered"]
  /\ UNCHANGED <<file, pages, ops>>

NeverTimesOut(r) == FALSE /\ UNCHANGED settingsVars
ProbeTimesOut(r) ==
  /\ requests[r].stage = "probing"
  /\ requests' = [requests EXCEPT ![r].stage = "answered"]
  /\ UNCHANGED <<file, pages, ops>>

-----------------------------------------------------------------------------
\* What a page makes of an answer.

Replaced(servers, s) ==
  [i \in DOMAIN servers |-> IF servers[i].key = s.key THEN s ELSE servers[i]]

First(page, servers) ==
  LET first == IF servers = <<>> THEN EmptyDraft ELSE Clone(servers[1])
  IN [WithDraft(page, first) EXCEPT
        !.servers = servers, !.selected = first.key]

\* The result of a test stays on display.
Loaded(page, req) ==
  [First(page, req.answer) EXCEPT
     !.touched = @ \/ page.result # NoResult, !.doubt = ~req.alone]

Saved(page, req) ==
  LET s == req.answer
  IN [WithDraft(page, Clone(s)) EXCEPT
        !.servers = IF Holds(@, s.key) THEN Replaced(@, s) ELSE Append(@, s),
        !.selected = s.key, !.result = NoResult, !.doubt = @ \/ ~req.alone]

Toggled(page, req) ==
  LET s == req.answer
      d == IF page.draft.key = s.key THEN Clone(s) ELSE page.draft
  IN [WithDraft(page, d) EXCEPT
        !.servers = Replaced(@, s), !.result = NoResult,
        !.doubt = @ \/ ~req.alone]

Deleted(page, req) ==
  [First(page, Without(req.list, req.draft.key)) EXCEPT
     !.result = NoResult, !.doubt = @ \/ ~req.alone]

Tested(page, req) == [page EXCEPT !.result = req.answer]

Understood(page, req) ==
  IF req.stage = "failed" THEN page
  ELSE CASE req.kind = "load"   -> Loaded(page, req)
         [] req.kind = "save"   -> Saved(page, req)
         [] req.kind = "toggle" -> Toggled(page, req)
         [] req.kind = "delete" -> Deleted(page, req)
         [] req.kind = "test"   -> Tested(page, req)

\* The end of every handler, after an answer as after an error.
Finish(r, page) ==
  LET req == requests[r]
  IN /\ pages' = [pages EXCEPT ![req.page] =
          [page EXCEPT
             !.saving  = @ /\ req.kind # "save",
             !.testing = @ /\ req.kind # "test",
             !.pending = IF req.kind = "toggle" THEN @ \ {req.draft.key}
                         ELSE @]]
     /\ requests' = RemoveAt(requests, r)
     /\ UNCHANGED <<file, ops>>

Receive(r) ==
  /\ requests[r].stage \in {"answered", "failed"}
  /\ Finish(r, Understood(pages[requests[r].page], requests[r]))

\* The request or its answer is lost, or the file cannot be written: fetch
\* rejects or the response is not ok.
Lose(r) ==
  LET page == pages[requests[r].page]
      unseen == requests[r].kind \in Changing /\ requests[r].stage = "answered"
  IN Finish(r, [page EXCEPT !.doubt = @ \/ unseen])

-----------------------------------------------------------------------------

ServerStep(r) ==
  Handle(r) \/ ServerProbed(r) \/ ProbeTimesOut(r) \/ Receive(r) \/ Lose(r)

SettingsNext ==
  \/ \E p \in Page : \/ Load(p) \/ Select(p) \/ StartNew(p) \/ Edit(p)
                     \/ Save(p) \/ Toggle(p) \/ DeleteDraft(p) \/ Test(p)
  \/ \E r \in DOMAIN requests : ServerStep(r)

\* The server handles what reaches it and the browser delivers what arrived;
\* the MCP server that is tested owes nothing.
Fair(p, kind) ==
  WF_settingsVars(\E r \in DOMAIN requests :
    /\ requests[r].page = p /\ requests[r].kind = kind
    /\ Handle(r) \/ ProbeTimesOut(r) \/ Receive(r))

SettingsSpec ==
  /\ SettingsInit /\ [][SettingsNext]_settingsVars
  /\ \A p \in Page : Fair(p, "save") /\ Fair(p, "test")

-----------------------------------------------------------------------------

\* The file holds each server once, and pages and requests are well-formed
\* (page.tsx, mcp_config_store.py).
SettingsTypeOK ==
  /\ StoreTypeOK
  /\ \A p \in Page :
       /\ pages[p].servers \in Seq(Shown)
       /\ pages[p].draft \in Draft
       /\ pages[p].selected \in Key \cup {NoKey}
       /\ {pages[p].saving, pages[p].testing, pages[p].doubt,
           pages[p].touched} \subseteq BOOLEAN
       /\ pages[p].pending \subseteq Key
  /\ \A r \in DOMAIN requests :
       /\ requests[r].kind \in Kind /\ requests[r].draft \in Draft
       /\ requests[r].stage \in {"sent", "probing", "answered", "failed"}

\* A page whose requests never overlapped, lost no answer and met no change
\* of another page since its last load shows the stored servers, in order,
\* with their enablement and whether they have a secret: the list it patches
\* itself after each answer (handleSave, handleToggle, handleDelete) is the
\* one that a reload would show.
PageShowsStore ==
  \A p \in Page :
    UnderWay(p) = {} /\ ~pages[p].doubt => pages[p].servers = Listing

\* The test result on display is of the server in the form, unless the form
\* changed while the test was running or a reload replaced it; and the server
\* was tried with the secret that saving the form would store now, unless the
\* store changed behind the page.
ResultOfTestedServer ==
  \A p \in Page :
    pages[p].result # NoResult /\ ~pages[p].touched =>
      /\ pages[p].result.of = pages[p].draft
      /\ UnderWay(p) = {} /\ ~pages[p].doubt =>
           pages[p].result = ConfigForTest(pages[p].draft)

\* Whatever the pages do, the store is a register of servers: one server
\* changes at a time, a secret that a request does not repeat is kept, and a
\* run is offered the enabled servers with their own authentication.
Registry == INSTANCE ServerRegistry WITH
  registry <- [k \in Key |->
                 IF Holds(Materialized, k)
                 THEN LET s == At(Materialized, k)
                      IN [enabled |-> s.enabled, type |-> s.type,
                          secret |-> s.secret]
                 ELSE NoServer],
  offered <- [k \in Key |-> IF k \in DOMAIN Resolved THEN Resolved[k]
                            ELSE NoServer],
  Seed <- [k \in Key |->
             IF Holds(Base, k)
             THEN [enabled |-> At(Base, k).enabled, type |-> At(Base, k).type,
                   secret |-> At(Base, k).secret]
             ELSE NoServer]
ImplementsRegistry == Registry!RegistrySpec

\* A save and a test end, even when the tested MCP server never answers: the
\* buttons they disable become usable again.
ButtonsComeBack ==
  \A p \in Page : /\ pages[p].saving ~> ~pages[p].saving
                  /\ pages[p].testing ~> ~pages[p].testing
=============================================================================
