---------------------------- MODULE RunLifecycle ----------------------------
(***************************************************************************)
(* What a Strategy Engine Durable Object promises its callers: the status  *)
(* and the run it reports, and who may change them.  StrategyEngineDO      *)
(* implements this for one object; StrategyQueue uses one for each token.  *)
(*                                                                         *)
(* working: alarm() is under way.  It looked at the status when it began   *)
(* and decides how the run ends whatever was requested since.              *)
(* answering: a webhook awaits D1 and may pause the run after that await,  *)
(* whatever its status is by then.                                         *)
(***************************************************************************)
CONSTANTS
    Objects,   \* one object for each token traded
    Runs,      \* runs that /start may name
    NoRun      \* the null runId

VARIABLE objs

Statuses == {"idle", "running", "paused", "completed", "aborted"}
Object ==
    [status : Statuses, run : Runs \cup {NoRun}, working : BOOLEAN,
     answering : BOOLEAN]
New == [status |-> "idle", run |-> NoRun, working |-> FALSE, answering |-> FALSE]

Init == objs = [o \in Objects |-> New]

To(o, x) == objs' = [objs EXCEPT ![o] = x]
SetStatus(o, s) == To(o, [objs[o] EXCEPT !.status = s])

-----------------------------------------------------------------------------
(* Requests.                                                                *)

Start(o, r) == To(o, [objs[o] EXCEPT !.status = "running", !.run = r])
Abort(o) == SetStatus(o, "aborted")
Pause(o) == objs[o].status = "running" /\ SetStatus(o, "paused")
Resume(o) == objs[o].status = "paused" /\ SetStatus(o, "running")
Clear(o) == To(o, [objs[o] EXCEPT !.status = "idle", !.run = NoRun])

\* /webhook: it configures the object without a run, and a running object
\* may go on to look at the transaction.
Webhook(o) ==
    \E a \in BOOLEAN :
        /\ a => objs[o].answering \/ objs[o].status = "running"
        /\ objs[o].answering => a
        /\ To(o, [objs[o] EXCEPT !.run = NoRun, !.answering = a])

-----------------------------------------------------------------------------
(* What the object does by itself.                                          *)

\* A webhook goes on after its await: it may pause the run, and others may
\* still await.
Answer(o) ==
    /\ objs[o].answering
    /\ \E s \in {objs[o].status, "paused"}, a \in BOOLEAN :
          To(o, [objs[o] EXCEPT !.status = s, !.answering = a])

\* alarm() begins its work on a running run.
Work(o) ==
    /\ objs[o].status = "running"
    /\ To(o, [objs[o] EXCEPT !.working = TRUE])

\* alarm() ends: the run goes on, or is completed, aborted for want of
\* accounts, or paused after a third failure.
Rest(o) ==
    /\ objs[o].working \/ objs[o].status = "running"
    /\ \E s \in {objs[o].status, "completed", "aborted", "paused"} :
          To(o, [objs[o] EXCEPT !.status = s, !.working = FALSE])

\* A crash loses what was under way; status and run survive it.
Crash(o) == To(o, [objs[o] EXCEPT !.working = FALSE, !.answering = FALSE])

Next ==
    \E o \in Objects :
        \/ \E r \in Runs : Start(o, r)
        \/ Abort(o) \/ Pause(o) \/ Resume(o) \/ Clear(o) \/ Webhook(o)
        \/ Answer(o) \/ Work(o) \/ Rest(o) \/ Crash(o)

Spec == Init /\ [][Next]_objs
=============================================================================
