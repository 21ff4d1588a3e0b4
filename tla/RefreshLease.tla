---------------------------- MODULE RefreshLease ----------------------------
(***************************************************************************)
(* The leases on the two background refreshes: of the market data          *)
(* (services/marketRefreshStateService.ts, api/marketSnapshotHandler.ts)   *)
(* and of the transaction log (services/transactionLogRefreshStateService  *)
(* .ts, api/stateHandler.ts).  Each is one row per user and token, which   *)
(* names the request that holds it.  Requests of one row are modelled;     *)
(* rows do not interact.                                                   *)
(*                                                                         *)
(* Time is what it is compared with: a running row becomes stale when its  *)
(* updated_at is as old as the limit.  Nothing renews it during the work.  *)
(***************************************************************************)
CONSTANTS
    Requests,   \* refresh requests, each with the request id it draws
    NoRequest   \* no request id

ASSUME RequestAssumption == NoRequest \notin Requests

VARIABLES
    kind,       \* which of the two refreshes this is
    row,        \* the state row
    req,        \* where each request is
    peek,       \* the holder a status poll found stale and is about to reset
    finished,   \* history: requests whose work succeeded
    expired,    \* history: requests whose lease became stale
    cancelled   \* history: requests that the browser cancelled

vars == <<kind, row, req, peek, finished, expired, cancelled>>

Kinds == {"market", "log"}
Status == {"none", "running", "completed", "failed"}
Row == [status : Status, id : Requests \cup {NoRequest}, stale : BOOLEAN]
Pcs == {"new", "acquire", "check", "work", "complete", "fail", "over"}

Holds(w) == row.status = "running" /\ row.id = w
Working(w) == req[w] \in {"check", "work", "complete"}

Init ==
    /\ kind \in Kinds
    /\ row = [status |-> "none", id |-> NoRequest, stale |-> FALSE]
    /\ req = [w \in Requests |-> "new"]
    /\ peek = NoRequest
    /\ finished = {}
    /\ expired = {}
    /\ cancelled = {}

Goes(w, pc) == req' = [req EXCEPT ![w] = pc]

-----------------------------------------------------------------------------
(* The row.                                                                 *)

TakeAlways(w) == row' = [status |-> "running", id |-> w, stale |-> FALSE]
\* The UPSERT of tryStart: it leaves a running row that is not stale alone.
Take(w) ==
    row' = IF row.status = "running" /\ ~row.stale THEN row
           ELSE [status |-> "running", id |-> w, stale |-> FALSE]

EndAny(w, status) == row' = [row EXCEPT !.status = status, !.stale = FALSE]
\* complete, fail and cancel: UPDATE ... WHERE request_id = w, whatever the
\* status is.
End(w, status) ==
    row' = IF row.id = w THEN [row EXCEPT !.status = status, !.stale = FALSE]
           ELSE row

Expire ==
    /\ row.status = "running" /\ ~row.stale
    /\ row' = [row EXCEPT !.stale = TRUE]
    /\ expired' = expired \cup {row.id}
    /\ UNCHANGED <<kind, req, peek, finished, cancelled>>

-----------------------------------------------------------------------------
(* A refresh request.                                                       *)

TryStart(w) ==
    /\ req[w] = "new"
    /\ Take(w)
    /\ Goes(w, "acquire")
    /\ UNCHANGED <<kind, peek, finished, expired, cancelled>>

\* tryStart reads the row back and has acquired the lease if its id is there.
\* Reading a stale row of the transaction log marks it failed.
ReadBack(w) ==
    /\ req[w] = "acquire"
    /\ IF kind = "log" /\ row.status = "running" /\ row.stale
       THEN End(row.id, "failed") /\ Goes(w, "over")
       ELSE /\ Goes(w, IF ~Holds(w) THEN "over"
                       ELSE IF kind = "market" THEN "check" ELSE "work")
            /\ UNCHANGED row
    /\ UNCHANGED <<kind, peek, finished, expired, cancelled>>

\* ensureActive, before the market data is fetched.
Check(w) ==
    /\ req[w] = "check"
    /\ Goes(w, IF Holds(w) THEN "work" ELSE "fail")
    /\ UNCHANGED <<kind, row, peek, finished, expired, cancelled>>

WorkSucceeds(w) ==
    /\ req[w] = "work"
    /\ Goes(w, "complete")
    /\ finished' = finished \cup {w}
    /\ UNCHANGED <<kind, row, peek, expired, cancelled>>

WorkThrows(w) ==
    /\ req[w] = "work"
    /\ Goes(w, "fail")
    /\ UNCHANGED <<kind, row, peek, finished, expired, cancelled>>

Complete(w) ==
    /\ req[w] = "complete"
    /\ End(w, "completed")
    /\ Goes(w, "over")
    /\ UNCHANGED <<kind, peek, finished, expired, cancelled>>

Fail(w) ==
    /\ req[w] = "fail"
    /\ End(w, "failed")
    /\ Goes(w, "over")
    /\ UNCHANGED <<kind, peek, finished, expired, cancelled>>

\* The worker dies; the row stays as it is.
Dies(w) ==
    /\ req[w] \notin {"new", "over"}
    /\ Goes(w, "over")
    /\ UNCHANGED <<kind, row, peek, finished, expired, cancelled>>

-----------------------------------------------------------------------------
(* Other requests.                                                          *)

\* The page that saw a market refresh running is closed: it sends a cancel
\* with that request's id, which may arrive at any time after.
Cancel(w) ==
    /\ kind = "market"
    /\ req[w] \notin {"new", "acquire"}
    /\ w \notin cancelled
    /\ End(w, "failed")
    /\ cancelled' = cancelled \cup {w}
    /\ UNCHANGED <<kind, req, peek, finished, expired>>

\* Reading the status of a transaction log refresh: a stale row is reset by an
\* UPDATE that expects it as it was read.
Poll ==
    /\ kind = "log"
    /\ peek = NoRequest
    /\ row.status = "running" /\ row.stale
    /\ peek' = row.id
    /\ UNCHANGED <<kind, row, req, finished, expired, cancelled>>

ResetAny ==
    /\ peek # NoRequest
    /\ row' = [row EXCEPT !.status = "failed", !.stale = FALSE]
    /\ peek' = NoRequest
    /\ UNCHANGED <<kind, req, finished, expired, cancelled>>
PollOnly ==
    /\ peek # NoRequest
    /\ peek' = NoRequest
    /\ UNCHANGED <<kind, row, req, finished, expired, cancelled>>
Reset ==
    /\ peek # NoRequest
    /\ row' = IF Holds(peek) THEN [row EXCEPT !.status = "failed", !.stale = FALSE]
              ELSE row
    /\ peek' = NoRequest
    /\ UNCHANGED <<kind, req, finished, expired, cancelled>>

Proceeds(w) ==
    \/ TryStart(w) \/ ReadBack(w) \/ Check(w) \/ WorkSucceeds(w) \/ WorkThrows(w)
    \/ Complete(w) \/ Fail(w)

Next ==
    \/ \E w \in Requests : Proceeds(w) \/ Dies(w) \/ Cancel(w)
    \/ Expire \/ Poll \/ Reset

Spec == Init /\ [][Next]_vars

-----------------------------------------------------------------------------
(* Properties.                                                              *)

TypeOK ==
    /\ kind \in Kinds
    /\ row \in Row
    /\ req \in [Requests -> Pcs]
    /\ peek \in Requests \cup {NoRequest}
    /\ finished \subseteq Requests
    /\ expired \subseteq Requests
    /\ cancelled \subseteq Requests

\* A request that works still holds the lease, unless it let the lease expire
\* or was cancelled: two refreshes of one token overlap only then.
Exclusive == \A w \in Requests : Working(w) => Holds(w) \/ w \in expired \cup cancelled

\* The row reports completed only for a request whose own work succeeded, not
\* for the one that took the lease over from it.
OutcomeIsOwn == row.status = "completed" => row.id \in finished

\* What the row reports of a request changes afterwards only if the request
\* was cancelled or overran its lease.
OutcomeStable ==
    [][row.status \in {"completed", "failed"} /\ row'.id = row.id
          => \/ row'.status = row.status
             \/ row.id \in expired \cup cancelled']_vars
=============================================================================
