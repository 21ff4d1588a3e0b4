--------------------------- MODULE StrategyQueue ---------------------------
(***************************************************************************)
(* The serial strategy queue: version rows in D1 (services/strategyStore   *)
(* .ts), the service that promotes, completes and aborts them (services/   *)
(* strategyAutomationService.ts) and the routes that call it (api/strategy *)
(* Handler.ts, the forwarding part of api/webhookHandler.ts), over the     *)
(* objects of RunLifecycle.                                                *)
(*                                                                         *)
(* A request is a process.  Every read of the running row, every UPDATE    *)
(* and every call of an object is a step of its own, as the code awaits    *)
(* each.  A request that throws, and a worker that dies, leaves what it    *)
(* has done.  Runs are numbered in the order of their INSERT.              *)
(***************************************************************************)
EXTENDS RunLifecycle, Integers, Sequences, FiniteSets, FiniteSetsExt

CONSTANTS
    Docs,        \* strategy documents a user deploys
    ObjectOf,    \* the object of each document's token
    Clients,     \* requests that may be under way at once
    Ops,         \* operations the environment performs
    MaxDeploys,  \* bound: deploys and deaths together
    Offered,     \* bound: the documents that the n-th deploy may bring
    MaxOps,      \* bound: other operations than deploys and polls
    MaxDeaths    \* bound: requests that die under way

Operations == {"poll", "deploy", "resume", "abort", "pause", "cancel", "webhook"}

ASSUME QueueAssumption ==
    /\ NoRun = 0 /\ Runs = 1 .. MaxDeploys
    /\ MaxDeploys \in Nat /\ MaxOps \in Nat /\ MaxDeaths \in Nat
    /\ ObjectOf \in [Docs -> Objects]
    /\ Ops \subseteq Operations
    /\ Offered \in [Runs -> SUBSET Docs]

VARIABLES
    rows,      \* the strategies table: status, version and, in seconds, the
               \* updated_at of the ended ones; a row's index is its run
    versions,  \* strategy_versions: the document of each; the last is current
    req,       \* the requests under way
    ran,       \* history: runs that their object reported completed
    used       \* how much of each bound is used

queueVars == <<objs, rows, versions, req, ran, used>>

\* The other statuses of a row: "pending", "running", "deleted".
Final == {"completed", "aborted", "failed"}

-----------------------------------------------------------------------------
(* Queries.                                                                 *)

WithStatus(s) == {r \in DOMAIN rows : rows[r].status = s}

ActiveUnlessPaused ==
    {r \in WithStatus("running") :
        objs[ObjectOf[versions[rows[r].version]]].status # "paused"}
\* The rows getActiveStrategy selects.
Active == WithStatus("running")

ObjectFor(r) == ObjectOf[versions[rows[r].version]]

Ended == UNION {WithStatus(s) : s \in Final}
LastSecond == Max({0} \cup {rows[r].ended : r \in Ended})

\* deriveQueuePaused: the last row to end is aborted; rows that ended in the
\* same second count in the order of their creation.
QueuePaused ==
    /\ Active = {}
    /\ WithStatus("pending") # {}
    /\ Ended # {}
    /\ rows[Min({r \in Ended : rows[r].ended = LastSecond})].status = "aborted"

\* getNextPendingStrategy
NextPending == Min(WithStatus("pending"))

\* findStrategyRecordByStrategyVersionId, if the run it finds is not over.
LiveRunOf(version) ==
    LET ofVersion == {r \in DOMAIN rows :
                         rows[r].version = version /\ rows[r].status # "deleted"}
    IN  IF ofVersion = {} THEN FALSE
        ELSE rows[Max(ofVersion)].status \in {"pending", "running"}

-----------------------------------------------------------------------------
(* Requests.  act is the active row a request read last; returns is its     *)
(* call stack: what a call of getCurrentMetrics or startNextStrategy        *)
(* returns to.                                                              *)

Done == [pc |-> "done", act |-> NoRun, force |-> FALSE, returns |-> <<>>,
         doc |-> NoRun, prev |-> NoRun]

At(c, pc) == req[c].pc = pc
Go(c, pc) == req' = [req EXCEPT ![c].pc = pc]
Over(c) == req' = [req EXCEPT ![c] = Done]
Fail(c) == Over(c)

\* Return from the innermost call.
Return(c) ==
    IF req[c].returns = <<>> THEN Over(c)
    ELSE req' = [req EXCEPT ![c].pc = Head(req[c].returns), ![c].returns = Tail(@)]

Call(c, pc, back) ==
    req' = [req EXCEPT ![c].pc = pc, ![c].returns = <<back>> \o @]

\* getActiveStrategy throws when two rows are running.
ReadActive(c, none, some) ==
    \/ Cardinality(Active) > 1 /\ Fail(c)
    \/ Active = {} /\ none
    \/ \E r \in Active :
          /\ Active = {r}
          /\ req' = [req EXCEPT ![c].pc = some, ![c].act = r]

\* UPDATE strategies SET status ... WHERE version_id = ...
Mark(r, status) ==
    \E t \in LastSecond .. LastSecond + 1 :
        /\ t > 0
        /\ rows' = IF rows[r].status = "deleted" THEN rows
                   ELSE [rows EXCEPT ![r].status = status,
                                     ![r].ended = IF status \in Final THEN t ELSE 0]

Rest1 == UNCHANGED <<versions, ran, used>>
OnlyReads == UNCHANGED <<objs, rows>> /\ Rest1

-----------------------------------------------------------------------------
(* getCurrentMetrics and completeCurrentStrategy.                           *)

ReadMetrics(c) ==
    /\ At(c, "metrics")
    /\ ReadActive(c, Return(c), "fetch")
    /\ OnlyReads

FetchUnbound(c) ==
    LET o == objs[ObjectFor(req[c].act)]
    IN  /\ At(c, "fetch")
        /\ \/ o.status = "completed" /\ Go(c, "complete")
           \/ o.status = "aborted" /\ Go(c, "mark_aborted")
           \/ o.status \notin {"completed", "aborted"} /\ Return(c)
        /\ OnlyReads
FetchCompletedOnly(c) ==
    LET o == objs[ObjectFor(req[c].act)]
    IN  /\ At(c, "fetch")
        /\ IF o.run = req[c].act /\ o.status = "completed"
           THEN Go(c, "complete") ELSE Return(c)
        /\ OnlyReads
\* A response of another run is ignored.
Fetch(c) ==
    LET o == objs[ObjectFor(req[c].act)]
        mine == o.run = req[c].act
    IN  /\ At(c, "fetch")
        /\ \/ mine /\ o.status = "completed" /\ Go(c, "complete")
           \/ mine /\ o.status = "aborted" /\ Go(c, "mark_aborted")
           \/ (~mine \/ o.status \notin {"completed", "aborted"}) /\ Return(c)
        /\ OnlyReads

\* completeCurrentStrategy reads the running row again.
ReadCompleted(c) ==
    /\ At(c, "complete")
    /\ ReadActive(c, Return(c), "mark_completed")
    /\ OnlyReads

CompleteOnly(c) ==
    /\ At(c, "mark_completed")
    /\ Mark(req[c].act, "completed")
    /\ Return(c)
    /\ UNCHANGED objs /\ Rest1
\* ... marks it, and starts the next one.
Complete(c) ==
    /\ At(c, "mark_completed")
    /\ Mark(req[c].act, "completed")
    /\ req' = [req EXCEPT ![c].pc = "start", ![c].force = FALSE]
    /\ UNCHANGED objs /\ Rest1

MarkAborted(c) ==
    /\ At(c, "mark_aborted")
    /\ Mark(req[c].act, "aborted")
    /\ Return(c)
    /\ UNCHANGED objs /\ Rest1

-----------------------------------------------------------------------------
(* startNextStrategy.                                                       *)

\* reconcileActiveStrategy, up to its call of getCurrentMetrics.
ReadRunning(c) ==
    /\ At(c, "start")
    /\ \/ Cardinality(Active) > 1 /\ Fail(c)
       \/ Active = {} /\ Go(c, "list")
       \/ /\ Cardinality(Active) = 1
          /\ Call(c, "metrics", IF req[c].force THEN "settle_forced" ELSE "settle")
    /\ OnlyReads

\* Its second read, after getCurrentMetrics: a run still active is returned.
Settle(c) ==
    /\ At(c, "settle") \/ At(c, "settle_forced")
    /\ \/ Cardinality(Active) > 1 /\ Fail(c)
       \/ Cardinality(Active) = 1 /\ Return(c)
       \/ /\ Active = {}
          /\ req' = [req EXCEPT ![c].pc = "list",
                                ![c].force = At(c, "settle_forced")]
    /\ OnlyReads

ListUnlessAborted(c) == At(c, "list") /\ Go(c, "pick") /\ OnlyReads
List(c) ==
    /\ At(c, "list")
    /\ IF QueuePaused /\ ~req[c].force THEN Return(c) ELSE Go(c, "pick")
    /\ OnlyReads

Pick(c) ==
    /\ At(c, "pick")
    /\ \/ WithStatus("pending") = {} /\ Return(c)
       \/ /\ WithStatus("pending") # {}
          /\ req' = [req EXCEPT ![c].pc = "check", ![c].act = NextPending]
    /\ OnlyReads

\* updateStrategyStatus(Running) reads its row and the running row ...
Check(c) ==
    LET r == req[c].act
    IN  /\ At(c, "check")
        /\ \/ (rows[r].status = "deleted" \/ Active \notin {{}, {r}}) /\ Fail(c)
           \/ rows[r].status # "deleted" /\ Active = {r} /\ Go(c, "launch")
           \/ rows[r].status # "deleted" /\ Active = {} /\ Go(c, "promote")
        /\ OnlyReads

\* ... and updates, whatever happened since.
Promote(c) ==
    LET r == req[c].act
    IN  /\ At(c, "promote")
        /\ Mark(r, "running")
        /\ IF rows[r].status = "deleted" THEN Fail(c) ELSE Go(c, "launch")
        /\ UNCHANGED objs /\ Rest1

\* /start, or its failure.
Launch(c) ==
    LET r == req[c].act
    IN  /\ At(c, "launch")
        /\ \/ Start(ObjectFor(r), r) /\ Return(c)
           \/ UNCHANGED objs /\ Go(c, "mark_failed")
        /\ UNCHANGED rows /\ Rest1

MarkFailed(c) ==
    /\ At(c, "mark_failed")
    /\ Mark(req[c].act, "failed")
    /\ Fail(c)
    /\ UNCHANGED objs /\ Rest1

-----------------------------------------------------------------------------
(* Deploy: POST /api/strategy/active.                                       *)

Saves(d) == versions = <<>> \/ versions[Len(versions)] # d

\* dbSaveActiveStrategyVersionDocument makes a version unless the current one
\* has the same content; enqueueStrategyVersion looks for a run of it.
Save(c) ==
    LET d == req[c].doc
    IN  /\ At(c, "save")
        /\ versions' = IF Saves(d) THEN Append(versions, d) ELSE versions
        /\ IF ~Saves(d) /\ LiveRunOf(Len(versions))
           THEN Call(c, "start", "clear") ELSE Go(c, "insert")
        /\ UNCHANGED <<objs, rows, ran, used>>

Insert(c) ==
    /\ At(c, "insert")
    /\ rows' = Append(rows, [status |-> "pending", version |-> Len(versions),
                             ended |-> 0])
    /\ Call(c, "start", "clear")
    /\ UNCHANGED objs /\ Rest1

\* In the background, after the start: the object of the previous token.
ClearPrevious(c) ==
    LET prev == req[c].prev
    IN  /\ At(c, "clear")
        /\ IF prev # NoRun /\ ObjectOf[prev] # ObjectOf[req[c].doc]
           THEN Clear(ObjectOf[prev]) ELSE UNCHANGED objs
        /\ Return(c)
        /\ UNCHANGED rows /\ Rest1

-----------------------------------------------------------------------------
(* Abort, pause, resume, cancel and a forwarded webhook.                    *)

ReadForAbort(c) ==
    At(c, "abort") /\ ReadActive(c, Over(c), "abort_send") /\ OnlyReads
SendAbort(c) ==
    /\ At(c, "abort_send")
    /\ Abort(ObjectFor(req[c].act))
    /\ Go(c, "mark_aborted")
    /\ UNCHANGED rows /\ Rest1

ReadForPause(c) ==
    At(c, "pause") /\ ReadActive(c, Over(c), "pause_send") /\ OnlyReads
SendPause(c) ==
    LET o == ObjectFor(req[c].act)
    IN  /\ At(c, "pause_send")
        /\ Pause(o) \/ (objs[o].status # "running" /\ UNCHANGED objs)
        /\ Over(c)
        /\ UNCHANGED rows /\ Rest1

\* resumeCurrentStrategy; failing that, the queue is started by force.
ReadForResume(c) ==
    /\ At(c, "resume")
    /\ ReadActive(c, Call(c, "metrics", "start_forced"), "resume_fetch")
    /\ OnlyReads
FetchForResume(c) ==
    LET r == req[c].act
        o == objs[ObjectFor(r)]
    IN  /\ At(c, "resume_fetch")
        /\ IF o.run = r /\ o.status = "paused"
           THEN Go(c, "resume_send")
           ELSE Call(c, "metrics", "start_forced")
        /\ OnlyReads
SendResume(c) ==
    LET o == ObjectFor(req[c].act)
    IN  /\ At(c, "resume_send")
        /\ Resume(o) \/ (objs[o].status # "paused" /\ UNCHANGED objs)
        /\ Over(c)
        /\ UNCHANGED rows /\ Rest1
StartForced(c) ==
    /\ At(c, "start_forced")
    /\ req' = [req EXCEPT ![c].pc = "start", ![c].force = TRUE]
    /\ OnlyReads

\* removePendingStrategy has found its row pending.
Delete(c) ==
    /\ At(c, "delete")
    /\ rows' = [rows EXCEPT ![req[c].act].status = "deleted", ![req[c].act].ended = 0]
    /\ Over(c)
    /\ UNCHANGED objs /\ Rest1

ReadForForward(c) ==
    At(c, "forward") /\ ReadActive(c, Over(c), "forward_send") /\ OnlyReads
Forward(c) ==
    /\ At(c, "forward_send")
    /\ Webhook(ObjectFor(req[c].act))
    /\ Over(c)
    /\ UNCHANGED rows /\ Rest1

-----------------------------------------------------------------------------
(* The environment.                                                         *)

Idle(c) == At(c, "done")
Begin(c, x) == req' = [req EXCEPT ![c] = x]
Use(o) ==
    /\ o \in Ops
    /\ used.ops < MaxOps
    /\ used' = [used EXCEPT !.ops = @ + 1]

\* The queue page polls for as long as it is open (getQueueSnapshot).
BeginPoll(c) ==
    /\ Idle(c) /\ "poll" \in Ops
    /\ Begin(c, [Done EXCEPT !.pc = "metrics"])
    /\ OnlyReads

BeginDeploy(c) ==
    /\ Idle(c) /\ "deploy" \in Ops
    /\ used.deploys + used.deaths < MaxDeploys
    /\ used' = [used EXCEPT !.deploys = @ + 1]
    /\ \E d \in Docs :
          /\ d \in Offered[used.deploys + 1]
          /\ Begin(c, [Done EXCEPT !.pc = "save", !.doc = d,
                                   !.prev = IF versions = <<>> THEN NoRun
                                            ELSE versions[Len(versions)]])
    /\ UNCHANGED <<objs, rows, versions, ran>>

BeginOp(c) ==
    /\ Idle(c)
    /\ \E o \in {"resume", "abort", "pause"} :
          Use(o) /\ Begin(c, [Done EXCEPT !.pc = o])
    /\ UNCHANGED <<objs, rows, versions, ran>>

\* removePendingStrategy reads the row, and refuses one that is not pending.
BeginCancel(c) ==
    /\ Idle(c) /\ Use("cancel")
    /\ \E r \in WithStatus("pending") :
          Begin(c, [Done EXCEPT !.pc = "delete", !.act = r])
    /\ UNCHANGED <<objs, rows, versions, ran>>

\* A webhook is forwarded to the active object, after getActiveStrategyStub.
BeginWebhook(c) ==
    /\ Idle(c) /\ Use("webhook")
    /\ Begin(c, [Done EXCEPT !.pc = "metrics", !.returns = <<"forward">>])
    /\ UNCHANGED <<objs, rows, versions, ran>>

Dies(c) ==
    /\ ~Idle(c)
    /\ used.deaths < MaxDeaths /\ used.deploys + used.deaths < MaxDeploys
    /\ used' = [used EXCEPT !.deaths = @ + 1]
    /\ Over(c)
    /\ UNCHANGED <<objs, rows, versions, ran>>

\* What an object does by itself.
ObjectStep(o) ==
    /\ Answer(o) \/ Work(o) \/ Rest(o) \/ Crash(o)
    /\ ran' = IF objs'[o].status = "completed" THEN ran \cup {objs[o].run} ELSE ran
    /\ UNCHANGED <<rows, versions, req, used>>

Continues(c) ==
    \/ ReadMetrics(c) \/ Fetch(c) \/ ReadCompleted(c) \/ Complete(c) \/ MarkAborted(c)
    \/ ReadRunning(c) \/ Settle(c) \/ List(c) \/ Pick(c) \/ Check(c) \/ Promote(c)
    \/ Launch(c) \/ MarkFailed(c)
    \/ Save(c) \/ Insert(c) \/ ClearPrevious(c)
    \/ ReadForAbort(c) \/ SendAbort(c) \/ ReadForPause(c) \/ SendPause(c)
    \/ ReadForResume(c) \/ FetchForResume(c) \/ SendResume(c) \/ StartForced(c)
    \/ Delete(c) \/ ReadForForward(c) \/ Forward(c)

QueueInit ==
    /\ Init
    /\ rows = <<>>
    /\ versions = <<>>
    /\ req = [c \in Clients |-> Done]
    /\ ran = {}
    /\ used = [deploys |-> 0, ops |-> 0, deaths |-> 0]

QueueNext ==
    \/ \E c \in Clients :
          \/ BeginPoll(c) \/ BeginDeploy(c) \/ BeginOp(c) \/ BeginCancel(c)
          \/ BeginWebhook(c) \/ Continues(c) \/ Dies(c)
    \/ \E o \in Objects : ObjectStep(o)

QueueSpec == QueueInit /\ [][QueueNext]_queueVars

\* A request goes on, the page polls, and a running object settles (Settles
\* of StrategyEngineDO).
FairQueueSpec ==
    /\ QueueSpec
    /\ \A c \in Clients : WF_queueVars(Continues(c)) /\ WF_queueVars(BeginPoll(c))
    /\ \A o \in Objects :
          WF_queueVars(objs[o].status = "running" /\ ObjectStep(o)
                       /\ objs'[o].status # "running")

-----------------------------------------------------------------------------
(* Properties.                                                              *)

\* At most one strategy is running.
SerialQueue == Cardinality(Active) <= 1

\* A version recorded as completed is one that its object completed, not one
\* that follows a run the object still reports.
CompletedWasRun == WithStatus("completed") \subseteq ran

\* After an abort nothing starts until the user resumes the queue, unless
\* the aborted run was not the last to end.
AbortStopsQueue ==
    [][\A r \in DOMAIN rows, c \in Clients :
          /\ rows[r].status = "pending" /\ rows'[r].status = "running"
          /\ At(c, "promote") /\ req[c].act = r /\ ~req[c].force
          => \A a \in WithStatus("aborted") :
                \E e \in Ended \ {a} : rows[e].ended >= rows[a].ended]_queueVars

\* The queue is stuck on a run only its user can end: its object was paused,
\* or reports another run (it was cleared, reconfigured by a webhook, or
\* never started because the request died).
Stuck ==
    /\ \A c \in Clients : Idle(c)
    /\ \E r \in Active :
          objs[ObjectFor(r)].run # r \/ objs[ObjectFor(r)].status = "paused"

\* No run is active, and one of the last to end, by the second, was aborted.
StoppedByAbort ==
    Active = {} /\ \E a \in WithStatus("aborted") : rows[a].ended = LastSecond

\* While the queue page polls, a pending strategy is started or removed, unless
\* the queue is stopped by an abort or stuck, or the request that was to start
\* it died or could not start the one before: only a completion starts the
\* next run, so none of these is made up for.
QueueAdvances ==
    \A r \in Runs :
        r \in WithStatus("pending") ~>
            \/ r \notin WithStatus("pending")
            \/ StoppedByAbort
            \/ Stuck
            \/ used.deaths > 0
            \/ WithStatus("failed") # {}

\* A queue that is at rest with strategies waiting, though no request died and
\* none failed to start, says that it is paused.  The code breaks this when a run
\* is aborted in the second in which the one before it was recorded completed.
WaitingIsPaused ==
    (/\ \A c \in Clients : Idle(c)
     /\ Active = {} /\ WithStatus("pending") # {}
     /\ used.deaths = 0 /\ WithStatus("failed") = {}) => QueuePaused

\* An ending that the object reports is recorded, also when the request that
\* asked for it died before it recorded it.
EndingIsRecorded ==
    \A r \in Runs :
        (/\ r \in Active
         /\ objs[ObjectFor(r)].run = r
         /\ objs[ObjectFor(r)].status \in {"completed", "aborted"})
        ~> \/ r \notin Active
           \/ objs[ObjectFor(r)].run # r
           \/ objs[ObjectFor(r)].status \notin {"completed", "aborted"}
=============================================================================
