----------------------------- MODULE WebConsole -----------------------------
(***************************************************************************)
(* The console in the browser (App.tsx), over the refreshes of module      *)
(* RefreshLease that it starts, watches and cancels.  It keeps one state   *)
(* of the engine, one draft of the strategy and some lists, and each of    *)
(* them is replaced by the answer to some request: the answers come when   *)
(* they come, in any order, and each was read when it was asked for.       *)
(*                                                                         *)
(* The parts of the page that share no state are taken one at a time:      *)
(* part names the one that moves.  The balances of single wallets, notices *)
(* and the passwords and keys of the administration are left out.          *)
(***************************************************************************)
EXTENDS RefreshLease, Naturals

CONSTANTS
    Own,        \* the refresh requests that come from this page
    Edits,      \* what the user may change in the strategy
    Queries,    \* what may be asked of a list: a date range, or page and search
    Nothing,    \* no list, no query, no status
    MaxAsks,    \* how often a list is asked for
    MaxRows     \* how often the rows behind a list change

ASSUME ConsoleAssumption ==
    /\ Own \subseteq Requests /\ Queries # {} /\ MaxAsks \in Nat /\ MaxRows \in Nat
    /\ Nothing \notin [query : Queries, rows : 0 .. MaxRows]

VARIABLES
    part,       \* the part of the page that moves
    submitting, \* activeSubmissionRef: the one action under way
    loads,      \* requests for /api/state under way, with what they read
    doc,        \* the document of the active strategy version, in the database
    draft,      \* strategyDraft
    dirty,      \* strategyDraftDirtyRef
    sent,       \* the draft a save has sent
    seen,       \* the refresh status the page shows
    asker,      \* the refresh request whose answer the page awaits
    posted,     \* that answer
    polled,     \* the answer to the status poll
    ready,      \* there is an engineState
    query,      \* what the user has selected of the list
    rows,       \* the version of the rows in the database
    asked,      \* transactionLogLoadRequestRef, marketSnapshotHistoryRequestRef
    asks,       \* requests for the list under way, with what they read
    shown,      \* the list on the page
    meta,       \* outsideHolderQueryMetaRef: signature and change token
    tardy,      \* history: edits made while a save was under way
    reverted,   \* history: edits that the answer to a load took from the draft
    failed,     \* history: the last request for the list that failed
    crossed,    \* history: two requests for the list were under way at once
    strayed     \* history: the last request asked for a query no longer selected

draftVars == <<doc, draft, dirty, sent, tardy, reverted>>
statusVars == <<seen, asker, posted, polled>>
askVars == <<asked, asks, crossed, strayed>>
listVars == <<query, rows, askVars, shown, meta, failed>>
pageVars == <<part, submitting, loads, ready, draftVars, statusVars, listVars>>
allVars == <<vars, pageVars>>

Guarded == {"logs", "history"}            \* lists with a request number
Lists == Guarded \cup {"accounts", "holders", "profit"}
Parts == Lists \cup {"draft", "refresh"}
Loaders == {"poll", "reload", "ended", "admin"}    \* who asks for /api/state

Reported == [id |-> row.id, status |-> row.status]
Running(s) == s # Nothing /\ s.status = "running"
By(l) == {x \in loads : x.by = l}

ConsoleInit ==
    /\ Init
    /\ part \in Parts
    /\ part # "refresh" => kind = "market"
    /\ submitting = "none" /\ loads = {} /\ ready = (part = "refresh")
    /\ doc = {} /\ draft = {} /\ dirty = FALSE /\ sent = {}
    /\ seen = Nothing /\ asker = NoRequest /\ posted = Nothing /\ polled = Nothing
    /\ query \in Queries /\ rows = 0 /\ asked = 0 /\ asks = {}
    /\ shown = Nothing /\ meta = Nothing
    /\ tardy = {} /\ reverted = {} /\ failed = 0 /\ crossed = FALSE /\ strayed = FALSE

-----------------------------------------------------------------------------
(* A list.                                                                  *)

\* A page of a list with the rows it was read from.
Page(q) == [query |-> q, rows |-> rows]

\* What the holders' change token tells: it digests the rows of a search and not
\* the page of them, and the page sends it with the query it knows it from.
ChangeToken(q) == Page(q)

\* The holders are not sent if their rows still have the token that came.
Unchanged(q) == meta = ChangeToken(q)

\* The answer to request n, and whether a load of the state went before it.
Served(n, q, after) ==
    [n |-> n, page |-> Page(q), unchanged |-> Unchanged(q), after |-> after]

\* A request.  The profit is asked for once at a time, the lists however many
\* requests are under way.  One that follows a load is for the query that was
\* selected when the load began: the function that asks is of the page as it was.
Ask(q, after) ==
    IF part = "profit" /\ asks # {} THEN UNCHANGED askVars
    ELSE /\ asked < MaxAsks
         /\ asked' = asked + 1
         /\ asks' = asks \cup {Served(asked + 1, q, after)}
         /\ crossed' = (crossed \/ asks # {})
         /\ strayed' = (after /\ q # query)

\* The user selects something else; the dashboard's poll starts afresh.  For the
\* profit the query is the token of the state shown, and another one clears it.
Select(q) ==
    /\ part \in Lists /\ q # query
    /\ query' = q
    /\ loads' = {[x EXCEPT !.live = FALSE] : x \in loads}
    /\ Ask(q, FALSE)
    /\ shown' = IF part = "profit" THEN Nothing ELSE shown
    /\ UNCHANGED <<vars, part, submitting, ready, draftVars, statusVars,
                   rows, meta, failed>>

\* The same query again: the tab is opened, or something the list depends on
\* has changed, such as the updatedAt of the holders' sync.
Reload ==
    /\ part \in Lists
    /\ Ask(query, FALSE)
    /\ UNCHANGED <<vars, part, submitting, loads, ready, draftVars, statusVars,
                   query, rows, shown, meta, failed>>

RowsChange ==
    /\ part \in Lists /\ rows < MaxRows
    /\ rows' = rows + 1
    /\ UNCHANGED <<vars, part, submitting, loads, ready, draftVars, statusVars,
                   query, askVars, shown, meta, failed>>

LateNever(a) == part \in Guarded /\ ~ready
\* A guarded list drops the answer unless it is to its last request, and has
\* nowhere to put it before the first engineState.
Late(a) == part \in Guarded /\ (a.n # asked \/ ~ready)

\* The profit must be of the token shown.
OtherToken(a) == part = "profit" /\ a.page.query # query

Arrive(a) ==
    /\ asks' = asks \ {a}
    /\ shown' = IF Late(a) \/ OtherToken(a) \/ a.unchanged THEN shown ELSE a.page
    /\ meta' = IF part = "holders" THEN a.page ELSE meta
    /\ UNCHANGED <<vars, part, submitting, loads, ready, draftVars, statusVars,
                   query, rows, asked, failed, crossed, strayed>>

\* The accounts and the holders become empty; the others stay, under an error.
AskFails(a) ==
    /\ asks' = asks \ {a}
    /\ shown' = IF part \in {"accounts", "holders"} THEN Nothing ELSE shown
    /\ meta' = Nothing
    /\ failed' = IF a.n > failed THEN a.n ELSE failed
    /\ UNCHANGED <<vars, part, submitting, loads, ready, draftVars, statusVars,
                   query, rows, asked, crossed, strayed>>

-----------------------------------------------------------------------------
(* loadState.                                                               *)

Load(l) ==
    [by |-> l, doc |-> doc, seen |-> Reported, query |-> query, live |-> TRUE]

\* What a list is asked for after, when the state has come: the logs after the
\* dashboard's poll, the history after the poll that found a market refresh
\* over, the accounts, and then the holders, after an import or a deletion.
After == [logs |-> "poll", history |-> "ended",
          accounts |-> "admin", holders |-> "admin"]
\* A load and the list after it are one piece of work.
Chained == \E a \in asks : a.after

\* The dashboard polls every ten seconds, one poll at a time, but not while it
\* shows a refresh running.
PollState ==
    /\ ready /\ By("poll") = {} /\ ~Running(seen)
    /\ part = "logs" => ~Chained
    /\ part = "refresh" => kind = "market"
    /\ loads' = loads \cup {Load("poll")}
    /\ UNCHANGED <<vars, part, submitting, ready, draftVars, statusVars, listVars>>

\* A refresh is found over, or an account has been imported or deleted.
BeginChain ==
    /\ part \in {"history", "accounts", "holders"} /\ ready
    /\ By(After[part]) = {} /\ ~Chained
    /\ loads' = loads \cup {Load(After[part])}
    /\ UNCHANGED <<vars, part, submitting, ready, draftVars, statusVars, listVars>>

SyncDraftAlways(to) ==
    /\ draft' = to
    /\ reverted' = reverted \cup (draft \ to)
\* The draft follows the server, but not while the user is editing it.
SyncDraft(to) ==
    /\ draft' = IF dirty THEN draft ELSE to
    /\ reverted' = IF dirty THEN reverted ELSE reverted \cup (draft \ to)

\* Only the dashboard's poll looks, before it asks for the logs, whether its
\* function has been replaced meanwhile.
GoesOn(x) ==
    /\ part \in DOMAIN After /\ x.by = After[part]
    /\ part = "logs" => x.live
    /\ asked < MaxAsks

\* The engineState is replaced, whatever it was: the logs are carried over, the
\* history is not.
StateArrives(x) ==
    /\ loads' = loads \ {x}
    /\ SyncDraft(x.doc)
    /\ seen' = IF kind = "market" THEN (IF x.seen.id = NoRequest THEN Nothing ELSE x.seen)
               ELSE seen
    /\ ready' = (ready \/ x.by = "reload")
    /\ shown' = IF part = "history" THEN Nothing ELSE shown
    /\ submitting' = IF x.by = "reload" THEN "none" ELSE submitting
    /\ IF GoesOn(x) THEN Ask(x.query, TRUE) ELSE UNCHANGED askVars
    /\ UNCHANGED <<vars, part, doc, dirty, sent, tardy, asker, posted, polled,
                   query, rows, meta, failed>>

StateFails(x) ==
    /\ loads' = loads \ {x}
    /\ submitting' = IF x.by = "reload" THEN "none" ELSE submitting
    /\ UNCHANGED <<vars, part, ready, draftVars, statusVars, listVars>>

-----------------------------------------------------------------------------
(* The strategy's draft and the actions that end in a reload.               *)

\* updateStrategyDraft.  The page shows no form while it reloads.
Edit(e) ==
    /\ part = "draft" /\ ready /\ submitting # "reload" /\ e \notin draft
    /\ draft' = draft \cup {e}
    /\ dirty' = TRUE
    /\ tardy' = IF submitting = "save" THEN tardy \cup {e} ELSE tardy
    /\ UNCHANGED <<vars, part, submitting, loads, ready, doc, sent, reverted,
                   statusVars, listVars>>

\* runLockedAction: one action at a time.
Submit(name) ==
    /\ part = "draft" /\ ready /\ submitting = "none"
    /\ submitting' = name
    /\ sent' = IF name = "save" THEN draft ELSE sent
    /\ UNCHANGED <<vars, part, loads, ready, doc, draft, dirty, tardy, reverted,
                   statusVars, listVars>>

\* The server saves the document it was sent as the active version.
ServerSaves ==
    /\ submitting = "save" /\ doc # sent
    /\ doc' = sent
    /\ UNCHANGED <<vars, part, submitting, loads, ready, draft, dirty, sent, tardy,
                   reverted, statusVars, listVars>>

Reloads == submitting' = "reload" /\ loads' = loads \cup {Load("reload")}

\* handleSaveConfig: the draft counts as saved from the answer on.
SaveAnswered ==
    /\ submitting = "save" /\ doc = sent
    /\ dirty' = FALSE
    /\ Reloads
    /\ UNCHANGED <<vars, part, ready, doc, draft, sent, tardy, reverted,
                   statusVars, listVars>>

\* The other actions leave the draft to the user, but for the pool's address,
\* which an update of the draft's own pair copies into it: not an edit, left out.
Answered(name) ==
    /\ submitting = name
    /\ Reloads
    /\ UNCHANGED <<vars, part, ready, draftVars, statusVars, listVars>>
PairAnswered == Answered("pair")        \* activate, add, update; RPC endpoints
AccountAnswered == Answered("account")  \* import, delete, switch on or off
Kept == {"pair", "account"}

\* Deleting the draft's own pair clears the pair in the draft, as an edit.
DeleteAnswered ==
    /\ submitting = "delete"
    /\ \/ \E e \in Edits : draft' = draft \cup {e} /\ dirty' = TRUE
       \/ UNCHANGED <<draft, dirty>>
    /\ Reloads
    /\ UNCHANGED <<vars, part, ready, doc, sent, tardy, reverted, statusVars, listVars>>

LogoutAnswered ==
    /\ submitting = "logout"
    /\ submitting' = "none"
    /\ dirty' = FALSE /\ draft' = {} /\ ready' = FALSE
    /\ UNCHANGED <<vars, part, loads, doc, sent, tardy, reverted, statusVars, listVars>>

\* The page is opened, or the user has logged in.
Open ==
    /\ submitting = "none" /\ ~ready
    /\ Reloads
    /\ UNCHANGED <<vars, part, ready, draftVars, statusVars, listVars>>

SubmitFails ==
    /\ submitting \in Kept \cup {"save", "delete", "logout"}
    /\ submitting' = "none"
    /\ UNCHANGED <<vars, part, loads, ready, draftVars, statusVars, listVars>>

-----------------------------------------------------------------------------
(* A refresh, seen from the page.                                           *)

\* handleRefresh and handleRefreshTransactionLogs.
Press(w) ==
    /\ part = "refresh" /\ w \in Own /\ submitting = "none" /\ ~Running(seen)
    /\ TryStart(w)
    /\ submitting' = "refresh" /\ asker' = w
    /\ UNCHANGED <<part, loads, ready, draftVars, seen, posted, polled, listVars>>

\* The server answers with the row it read back.
Answer(w) ==
    /\ part = "refresh"
    /\ ReadBack(w)
    /\ posted' = IF w = asker THEN [id |-> row'.id, status |-> row'.status] ELSE posted
    /\ UNCHANGED <<part, submitting, loads, ready, draftVars, seen, asker, polled, listVars>>

\* The answer, or its failure, reaches the page.
Posted ==
    /\ asker # NoRequest /\ (posted # Nothing \/ req[asker] = "over")
    /\ seen' = IF posted # Nothing THEN posted ELSE seen
    /\ asker' = NoRequest /\ posted' = Nothing /\ submitting' = "none"
    /\ UNCHANGED <<vars, part, loads, ready, draftVars, polled, listVars>>

\* The status poll, while the page shows a refresh running; that of a log
\* refresh is also read once when the dashboard opens.  A stale row of a log
\* refresh is reset by Poll and Reset first.
PollStatus ==
    /\ part = "refresh" /\ polled = Nothing /\ By("ended") = {} /\ peek = NoRequest
    /\ Running(seen) \/ (kind = "log" /\ seen = Nothing /\ row.id # NoRequest)
    /\ ~(kind = "log" /\ row.status = "running" /\ row.stale)
    /\ polled' = Reported
    /\ UNCHANGED <<vars, part, submitting, loads, ready, draftVars, seen, asker,
                   posted, listVars>>

\* What makes the page load the state: a market refresh that is not running any
\* more, or a log refresh that has completed since the last answer.
Ended(s) ==
    IF kind = "market" THEN s.status # "running"
    ELSE s.status = "completed" /\ seen \notin {Nothing, s}

PollArrives ==
    /\ polled # Nothing
    /\ seen' = polled /\ polled' = Nothing
    /\ loads' = IF Ended(polled) THEN loads \cup {Load("ended")} ELSE loads
    /\ UNCHANGED <<vars, part, submitting, ready, draftVars, asker, posted, listVars>>

PollFails ==
    /\ polled # Nothing
    /\ polled' = Nothing
    /\ UNCHANGED <<vars, part, submitting, loads, ready, draftVars, seen, asker,
                   posted, listVars>>

\* The page is closed while it shows a market refresh running: it cancels it.
Hide ==
    /\ part = "refresh" /\ Running(seen)
    /\ Cancel(seen.id)
    /\ seen' = Nothing /\ asker' = NoRequest /\ posted' = Nothing /\ polled' = Nothing
    /\ submitting' = "none" /\ loads' = {}
    /\ UNCHANGED <<part, ready, draftVars, listVars>>

\* What else happens to the lease: other pages of the user press and close, too.
Elsewhere ==
    /\ part = "refresh"
    /\ \/ \E w \in Requests :
            \/ (w \notin Own /\ TryStart(w)) \/ Check(w) \/ WorkSucceeds(w) \/ WorkThrows(w)
            \/ Complete(w) \/ Fail(w) \/ Dies(w) \/ Cancel(w)
       \/ Expire \/ Poll \/ Reset
    /\ UNCHANGED pageVars

ListStep ==
    \/ \E q \in Queries : Select(q)
    \/ Reload \/ RowsChange
    \/ \E a \in asks : Arrive(a) \/ AskFails(a)
StateStep ==
    \/ Open \/ PollState \/ BeginChain
    \/ \E x \in loads : StateArrives(x) \/ StateFails(x)
DraftStep ==
    \/ \E e \in Edits : Edit(e)
    \/ \E name \in Kept \cup {"save", "delete", "logout"} : Submit(name)
    \/ ServerSaves \/ SaveAnswered \/ PairAnswered \/ AccountAnswered \/ DeleteAnswered \/ LogoutAnswered \/ SubmitFails
StatusStep ==
    \/ \E w \in Requests : Press(w) \/ Answer(w)
    \/ Posted \/ PollStatus \/ PollArrives \/ PollFails \/ Hide

ConsoleNext == ListStep \/ StateStep \/ DraftStep \/ StatusStep \/ Elsewhere

ConsoleSpec == ConsoleInit /\ [][ConsoleNext]_allVars

\* Time passes, the page polls while it is visible, requests end, and not every
\* poll fails.
LeaseFairness ==
    WF_allVars(Expire /\ Elsewhere) /\ WF_allVars(Poll /\ Elsewhere)
    /\ WF_allVars(Reset /\ Elsewhere)
Loaded == \E x \in loads : StateArrives(x) \/ StateFails(x)
FairConsole ==
    ConsoleSpec /\ LeaseFairness
    /\ WF_allVars(PollStatus) /\ SF_allVars(PollArrives) /\ WF_allVars(Loaded)

-----------------------------------------------------------------------------
(* Properties.                                                              *)

LastAnswered == failed # asked /\ \A a \in asks : a.n # asked

\* Once the last request for a list has been answered, the list is of the query
\* selected, and the holders are those whose change token the page will send.
\* For the logs and the profit this holds however late older answers come.  The
\* history, the accounts and the holders are also asked for after a load, by a
\* function that may be older than the selection: it holds unless the last
\* request was such a one; and for the accounts and the holders, whose answers
\* are not compared with what was asked last, while no two requests crossed.
ListIsAsked ==
    (/\ part \in Guarded \cup {"profit"} \/ ~crossed
     /\ part \in {"logs", "profit"} \/ ~strayed
     /\ LastAnswered)
        => shown = Nothing \/ (shown.query = query /\ meta \in {Nothing, shown})

\* What the dashboard shows as the change over the selected range is of the
\* range selected, once the last request for the history has been answered.  The
\* code breaks this: another range may be selected while the page loads the state
\* after a market refresh.
RangeIsSelected ==
    part = "history" /\ LastAnswered => shown = Nothing \/ shown.query = query

\* An edit is lost only by a logout, when it is made during a save, or when an
\* older state had taken it from the draft: else it leaves the draft only when
\* the server has it, and never leaves the server.
EditsKept ==
    [][LET free == tardy \cup reverted IN
       /\ ready' => draft \ draft' \subseteq doc' \cup free
       /\ doc \ doc' \subseteq free]_allVars

\* A refresh that the page shows running, and that is over, or is a log
\* refresh whose worker has died, does not stay so on the page.
PageIsTold ==
    \A w \in Requests :
        (/\ seen = [id |-> w, status |-> "running"]
         /\ ~Holds(w) \/ (kind = "log" /\ req[w] = "over"))
        ~> seen # [id |-> w, status |-> "running"]
=============================================================================
