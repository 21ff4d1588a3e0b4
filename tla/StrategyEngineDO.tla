-------------------------- MODULE StrategyEngineDO --------------------------
(***************************************************************************)
(* The Strategy Engine Durable Object                                      *)
(* (src/backend/strategy/strategyEngineDO.ts): the requests of its fetch   *)
(* handler and its alarm handler, on one object.                           *)
(*                                                                         *)
(* Requests run on one thread.  A step that awaits only the object's own   *)
(* storage is atomic, the platform delivering nothing meanwhile; an await  *)
(* of D1, of a swap or of another fetch lets other requests in, so a       *)
(* method with such an await is split there into two actions.  The alarm   *)
(* handler runs at most once at a time and keeps its local variables in    *)
(* handler.  A crash (eviction, redeploy) loses memory and in-flight work; *)
(* the stored state and the alarm survive.                                 *)
(***************************************************************************)
EXTENDS RunState

CONSTANTS
    MaxDeliveries,    \* bound: deliveries of one transaction's webhook
    MaxCrashes,       \* bound: crashes of the object
    MaxUserOps,       \* bound: uses of each user operation
    UserOps,          \* user operations the environment performs
    FaultTxs,         \* bound: the others are reported once, without crash, abort, clear
    MaxAlarmRetries   \* redeliveries of a throwing alarm before it is dropped

ASSUME LimitsAssumption ==
    /\ MaxDeliveries \in Nat
    /\ MaxCrashes \in Nat
    /\ MaxUserOps \in Nat
    /\ MaxAlarmRetries \in Nat
    /\ UserOps \subseteq {"pause", "resume", "abort", "clear"}
    /\ FaultTxs \subseteq Txs

VARIABLES
    st,        \* persistedState, in memory
    disk,      \* the copy storage.put wrote last
    alarm,     \* the storage alarm
    handler,   \* the alarm handler's position and locals
    inflight,  \* webhook requests awaiting D1, by transaction
    chain,     \* volume traded on chain since the run started, by side
    lost,      \* the part of it that no metric will ever count, by side
    used       \* how much of each bound has been used

vars == <<st, disk, alarm, handler, inflight, chain, lost, used>>

-----------------------------------------------------------------------------
(* The alarm.  "head": set at the first task's time, so that task is due    *)
(* when it fires.  "early": set at another time.  "dropped": the platform   *)
(* gave up on a throwing handler.  held: being handled, and redelivered     *)
(* after a crash unless set or deleted meanwhile.                           *)

Alarms == [at : {"none", "early", "head", "dropped"}, held : BOOLEAN, tries : Nat]
Armed(a) == [at |-> a, held |-> FALSE, tries |-> 0]
Delivered == [alarm EXCEPT !.at = "none", !.held = TRUE]
Rings == handler.pc = "idle" /\ alarm.at \in {"early", "head"}

\* syncAlarmFromState
AlarmFor(s) ==
    IF s.status # "running" \/ s.pending = <<>> THEN Armed("none") ELSE Armed("head")

\* persistState({ scheduleAlarm: false }), the alarm then set or deleted
SaveWith(s, a) == st' = s /\ disk' = s /\ alarm' = a
\* persistState()
Save(s) == SaveWith(s, AlarmFor(s))

-----------------------------------------------------------------------------
(* The alarm handler's locals: reviewed is the plan flag of the config it   *)
(* captured; rem what is left to plan; task, left and ok the execution.     *)
(* detached: /clear replaced persistedState while it ran, so its captured   *)
(* state object stays as it was (oldVolume, oldEmpty).                      *)

Pcs == {"idle", "replan", "plan_before", "allocate", "trade", "plan_after"}
Handlers ==
    [pc : Pcs, reviewed : BOOLEAN, rem : [Sides -> Nat],
     task : Task \cup {NoTask}, left : Nat, ok : Nat,
     detached : BOOLEAN, oldVolume : Nat, oldEmpty : BOOLEAN]
Resting ==
    [pc |-> "idle", reviewed |-> FALSE, rem |-> [d \in Sides |-> 0],
     task |-> NoTask, left |-> 0, ok |-> 0,
     detached |-> FALSE, oldVolume |-> 0, oldEmpty |-> TRUE]

CapturedVolume(s) == IF handler.detached THEN handler.oldVolume ELSE Volume(s)
CapturedEmpty(s) == IF handler.detached THEN handler.oldEmpty ELSE s.pending = <<>>

Executing == handler.pc \in {"allocate", "trade"}

Init ==
    /\ st = Idle
    /\ disk = Idle
    /\ alarm = Armed("none")
    /\ handler = Resting
    /\ inflight = [x \in Txs |-> 0]
    /\ chain = [d \in Sides |-> 0]
    /\ lost = [d \in Sides |-> 0]
    /\ used = [runs |-> {}, crashes |-> 0, sent |-> [x \in Txs |-> 0],
               ops |-> [o \in UserOps |-> 0]]

-----------------------------------------------------------------------------
(* Requests from the queue service and the user.                            *)

\* The bound on transactions that meet faults.
ReportedIn(S) == \A x \in Txs \ S : used.sent[x] = 0
NoFault == used.crashes = 0 /\ \A o \in UserOps \cap {"abort", "clear"} : used.ops[o] = 0

UseOp(o) ==
    /\ o \in UserOps
    /\ used.ops[o] < MaxUserOps
    /\ o \in {"abort", "clear"} => ReportedIn(FaultTxs)
    /\ used' = [used EXCEPT !.ops[o] = @ + 1]

\* /start, sent once for each run the queue promotes, when no run is under way.
Start(r) ==
    /\ r \notin used.runs
    /\ st.status \notin {"running", "paused"}
    /\ SaveWith(Started(st, r), Armed("early"))
    /\ chain' = [d \in Sides |-> 0]
    /\ lost' = [d \in Sides |-> 0]
    /\ used' = [used EXCEPT !.runs = @ \cup {r}]
    /\ UNCHANGED <<handler, inflight>>

Abort ==
    /\ used.runs # {}
    /\ UseOp("abort")
    /\ SaveWith([st EXCEPT !.status = "aborted", !.pending = <<>>], Armed("none"))
    /\ UNCHANGED <<handler, inflight, chain, lost>>

PauseUnchecked ==
    /\ st.cfg.set
    /\ UseOp("pause")
    /\ SaveWith([st EXCEPT !.status = "paused"], Armed("none"))
    /\ UNCHANGED <<handler, inflight, chain, lost>>
Pause ==
    /\ st.cfg.set
    /\ st.status = "running"
    /\ UseOp("pause")
    /\ SaveWith([st EXCEPT !.status = "paused"], Armed("none"))
    /\ UNCHANGED <<handler, inflight, chain, lost>>

ResumeUnscheduled ==
    /\ st.cfg.set
    /\ st.status = "paused"
    /\ UseOp("resume")
    /\ \E pos \in 1 .. Len(st.pending) + 1 : SaveWith(Resumed(st, pos), alarm)
    /\ UNCHANGED <<handler, inflight, chain, lost>>
Resume ==
    /\ st.cfg.set
    /\ st.status = "paused"
    /\ UseOp("resume")
    /\ \E pos \in 1 .. Len(st.pending) + 1 : Save(Resumed(st, pos))
    /\ UNCHANGED <<handler, inflight, chain, lost>>

\* /clear replaces the state object; a handler under way keeps the old one.
Clear ==
    /\ UseOp("clear")
    /\ SaveWith([Idle EXCEPT !.plans = st.plans], Armed("none"))
    /\ handler' = IF handler.pc = "idle" \/ handler.detached
                  THEN handler
                  ELSE [handler EXCEPT !.detached = TRUE,
                                       !.oldVolume = Volume(st),
                                       !.oldEmpty = st.pending = <<>>]
    /\ UNCHANGED <<inflight, chain, lost>>

-----------------------------------------------------------------------------
(* /webhook: configure, then handleWebhookEvent up to its await of D1, and  *)
(* the rest of it after that await.                                         *)

WebhookArrives(x) ==
    LET s == Configured(st, WebhookConfig)
        seen == Remember(s, x)
    IN  /\ used.sent[x] < MaxDeliveries
        /\ x \notin FaultTxs => NoFault /\ used.sent[x] = 0
        /\ used' = [used EXCEPT !.sent[x] = @ + 1]
        /\ \/ /\ s.status # "running"
              /\ SaveWith(s, alarm)
              /\ UNCHANGED inflight
           \/ /\ s.status = "running"
              /\ x \in Range(s.dedup)
              /\ Save(s)
              /\ UNCHANGED inflight
           \/ /\ s.status = "running"
              /\ x \notin Range(s.dedup)
              /\ EventKind[x] = "below_threshold"
              /\ Save(seen)
              /\ UNCHANGED inflight
           \/ /\ s.status = "running"
              /\ x \notin Range(s.dedup)
              /\ EventKind[x] # "below_threshold"
              /\ st' = seen
              /\ disk' = s
              /\ alarm' = AlarmFor(s)
              /\ inflight' = [inflight EXCEPT ![x] = @ + 1]
        /\ UNCHANGED <<handler, chain, lost>>

WebhookApplies(x) ==
    LET s == Observed(st, x)
    IN  /\ inflight[x] > 0
        /\ inflight' = [inflight EXCEPT ![x] = @ - 1]
        /\ \/ /\ EventKind[x] = "pause_strategy"
              /\ SaveWith([s EXCEPT !.status = "paused", !.pending = <<>>],
                          Armed("none"))
           \/ /\ Responds(x)
              /\ SaveWith([Supersede(s) EXCEPT !.replan = x], Armed("early"))
           \/ /\ EventKind[x] = "observe"
              /\ Save(s)
        /\ UNCHANGED <<handler, chain, lost, used>>

-----------------------------------------------------------------------------
(* alarm().                                                                 *)

Ends == handler' = Resting

\* markCompleted, then return.
Complete(s) == SaveWith(Completed(s), Armed("none")) /\ Ends

\* ensureBasePlanIfNeeded has something to plan.
NeedsBasePlan(s) ==
    /\ s.cfg.set
    /\ s.status = "running"
    /\ ~s.cfg.reviewed
    /\ \A k \in DOMAIN s.pending : s.pending[k].source # "base"

\* popNextDueTask, and the end of the handler when nothing is due; a is the
\* alarm as the handler finds it, mustBeDue that it rang for the first task.
PopDue(s, h, a, mustBeDue) ==
    \/ /\ s.pending = <<>> \/ ~mustBeDue
       /\ Save(s)
       /\ Ends
    \/ /\ s.pending # <<>>
       /\ st' = [s EXCEPT !.pending = Tail(@)]
       /\ handler' = [h EXCEPT !.pc = "allocate", !.task = Head(s.pending)]
       /\ alarm' = a
       /\ UNCHANGED disk

\* The part of alarm() between the replan and the execution.
Proceed(s, h, a, mustBeDue) ==
    LET reached == CapturedVolume(s) >= ManagedTarget(s)
        empty == CapturedEmpty(s)
    IN  \/ (reached \/ (empty /\ h.reviewed)) /\ Complete(s)
        \/ /\ ~reached /\ empty /\ ~h.reviewed /\ NeedsBasePlan(s)
           /\ st' = s
           /\ handler' = [h EXCEPT !.pc = "plan_before"]
           /\ alarm' = a
           /\ UNCHANGED disk
        \/ /\ ~reached
           /\ ~empty \/ (~h.reviewed /\ ~NeedsBasePlan(s))
           /\ PopDue(s, h, a, mustBeDue)

AlarmIgnored ==
    /\ Rings
    /\ st.status # "running"
    /\ alarm' = Armed("none")
    /\ UNCHANGED <<st, disk, handler, inflight, chain, lost, used>>

AlarmRuns ==
    /\ Rings
    /\ st.status = "running"
    /\ st.replan = NoTx
    /\ Proceed(st, [Resting EXCEPT !.reviewed = st.cfg.reviewed], Delivered,
               alarm.at = "head")
    /\ UNCHANGED <<inflight, chain, lost, used>>

\* replanAfterExternalEvent, up to its await of the planning inputs.
AlarmReplans ==
    LET rem == Remaining(st)
    IN  /\ Rings
        /\ st.status = "running"
        /\ st.replan # NoTx
        /\ \/ /\ rem["buy"] + rem["sell"] = 0
              /\ Complete([st EXCEPT !.replan = NoTx])
           \/ /\ rem["buy"] + rem["sell"] > 0
              /\ handler' = [Resting EXCEPT !.pc = "replan", !.rem = rem,
                                            !.reviewed = st.cfg.reviewed]
              /\ alarm' = Delivered
              /\ UNCHANGED <<st, disk>>
        /\ UNCHANGED <<inflight, chain, lost, used>>

\* The rest of the replan, which replaces the queue, and on with alarm().
ReplanReady ==
    LET plan == st.plans + 1
        planned == EnqueueAll([st EXCEPT !.pending = <<>>, !.plans = plan],
                              ReplanTasks(handler.rem, plan))
        s == IF handler.detached THEN planned ELSE [planned EXCEPT !.replan = NoTx]
    IN  /\ handler.pc = "replan"
        /\ st.cfg.set
        /\ plan <= MaxPlans
        /\ Proceed(s, handler, alarm, FALSE)
        /\ UNCHANGED <<inflight, chain, lost, used>>

\* ensureBasePlanIfNeeded's plan is there.
BasePlanReady ==
    LET plan == st.plans + 1
        s == EnqueueAll([st EXCEPT !.plans = plan], BaseTasks(plan))
    IN  /\ handler.pc \in {"plan_before", "plan_after"}
        /\ st.cfg.set
        /\ plan <= MaxPlans
        /\ \/ /\ handler.pc = "plan_before"
              /\ PopDue(s, handler, alarm, FALSE)
           \/ /\ handler.pc = "plan_after"
              /\ Save(s)
              /\ Ends
        /\ UNCHANGED <<inflight, chain, lost, used>>

\* Planning throws: D1 fails, the plan is not executable, no feasible order
\* counts, or the object was cleared.  The platform redelivers the alarm.
PlanFails ==
    /\ handler.pc \in {"replan", "plan_before", "plan_after"}
    /\ alarm' = IF ~alarm.held THEN alarm
                ELSE IF alarm.tries < MaxAlarmRetries
                THEN [at |-> "early", held |-> FALSE, tries |-> alarm.tries + 1]
                ELSE Armed("dropped")
    /\ Ends
    /\ UNCHANGED <<st, disk, inflight, chain, lost, used>>

-----------------------------------------------------------------------------
(* executeDueTask and what alarm() makes of its result.                     *)

\* Accounts to trade with: between one unit and the whole task is allocated.
AccountsReady ==
    /\ handler.pc = "allocate"
    /\ \E n \in 1 .. handler.task.amt :
          handler' = [handler EXCEPT !.pc = "trade", !.left = n]
    /\ UNCHANGED <<st, disk, alarm, inflight, chain, lost, used>>

\* No active account: the run is aborted.
NoAccounts ==
    /\ handler.pc = "allocate"
    /\ SaveWith([st EXCEPT !.status = "aborted", !.pending = <<>>], Armed("none"))
    /\ Ends
    /\ UNCHANGED <<inflight, chain, lost, used>>

\* executeSwap: ordered from Jupiter, signed, executed and confirmed.
Swaps(d) == st.cfg.set /\ chain' = [chain EXCEPT ![d] = @ + 1]

\* resolveSwapInput: there is no configuration, or a sale's price is unknown.
NotSized(d) == (~st.cfg.set \/ d = "sell") /\ UNCHANGED <<chain, lost>>

\* fetchJupiterSwapOrder: no route, or none whose fees others pay.
NotOrdered == st.cfg.set /\ UNCHANGED <<chain, lost>>

\* executeJupiterSwapOrder throws, though the swap was executed.
NotConfirmed(d) == Swaps(d) /\ lost' = [lost EXCEPT ![d] = @ + 1]

SliceFills ==
    /\ handler.pc = "trade"
    /\ handler.left > 0
    /\ Swaps(handler.task.side)
    /\ handler' = [handler EXCEPT !.left = @ - 1, !.ok = @ + 1]
    /\ UNCHANGED <<st, disk, alarm, inflight, lost, used>>

SliceFailsButCounts ==
    /\ handler.pc = "trade"
    /\ handler.left > 0
    /\ handler' = [handler EXCEPT !.left = @ - 1, !.ok = @ + 1]
    /\ UNCHANGED <<st, disk, alarm, inflight, chain, lost, used>>

\* A slice that failed, or one that traded but whose confirmation or trade
\* log failed: both are to be retried.
SliceFails ==
    /\ handler.pc = "trade"
    /\ handler.left > 0
    /\ \/ NotSized(handler.task.side)
       \/ NotOrdered
       \/ NotConfirmed(handler.task.side)
    /\ handler' = [handler EXCEPT !.left = @ - 1]
    /\ UNCHANGED <<st, disk, alarm, inflight, used>>

\* Fills of the task in hand that will not be counted.
LosesFills(n) == lost' = [lost EXCEPT ![handler.task.side] = @ + n]

\* handleTaskFailure for t.  The third failure pauses and saves; otherwise
\* save says whether the caller saves.
FailAndEnd(s, t, save) ==
    \E pos \in 1 .. Len(s.pending) + 1 :
        LET f == Fail(s, t, pos)
        IN  /\ IF save \/ Exhausted(Attempts(s, t))
               THEN Save(f)
               ELSE /\ st' = f
                    /\ alarm' = [alarm EXCEPT !.held = FALSE]
                    /\ UNCHANGED disk
            /\ Ends

\* getActiveAccounts: one account that is switched off between its two reads, or
\* whose key cannot be read, makes it throw.
KeyUnreadable == handler.pc = "allocate"

\* An error escapes executeDueTask (accounts cannot be read, a failed slice's
\* log cannot be written): the whole task is retried, its fills uncounted.
ExecutionThrows ==
    /\ \/ KeyUnreadable
       \/ handler.pc = "trade" /\ handler.left > 0 /\ st.cfg.run # NoRun
    /\ FailAndEnd(st, handler.task, TRUE)
    /\ LosesFills(handler.ok)
    /\ UNCHANGED <<inflight, chain, used>>

\* The end of alarm() after an execution that left the state s.
Conclude(s) ==
    LET reached == CapturedVolume(s) >= ManagedTarget(s)
        empty == CapturedEmpty(s)
    IN  \/ (reached \/ (empty /\ handler.reviewed)) /\ Complete(s)
        \/ /\ ~reached /\ empty /\ ~handler.reviewed /\ NeedsBasePlan(s)
           /\ st' = s
           /\ handler' = [handler EXCEPT !.pc = "plan_after"]
           /\ UNCHANGED <<disk, alarm>>
        \/ /\ ~reached
           /\ ~empty \/ (~handler.reviewed /\ ~NeedsBasePlan(s))
           /\ Save(s)
           /\ Ends

\* retryVolumeUsd: what no slice filled.
RetryAll(t) == IF handler.ok = t.amt THEN 0 ELSE t.amt
RetryVolume(t) == t.amt - handler.ok

ExecutionEnds ==
    LET t == handler.task
        retry == RetryVolume(t)
        credited == Credit(st, t.side, handler.ok)
    IN  /\ handler.pc = "trade"
        /\ handler.left = 0
        /\ LosesFills(handler.ok - (Volume(credited) - Volume(st)))
        /\ \/ /\ handler.ok > 0 /\ ~st.cfg.set
              /\ FailAndEnd(st, t, TRUE)
           \/ /\ handler.ok = 0 \/ st.cfg.set
              /\ retry = 0
              /\ Conclude(MarkDone(credited, t.id))
           \/ /\ handler.ok = 0 \/ st.cfg.set
              /\ retry > 0
              /\ LET rest == [t EXCEPT !.amt = retry]
                 IN  IF st.status = "paused" \/ Exhausted(Attempts(st, t))
                     THEN FailAndEnd(credited, rest, FALSE)
                     ELSE \E pos \in 1 .. Len(st.pending) + 1 :
                             Conclude(Fail(credited, rest, pos))
        /\ UNCHANGED <<inflight, chain, used>>

-----------------------------------------------------------------------------
\* Fills only memory knows: counted but not saved, or not yet counted.
Unsaved(d) ==
    Monus(st.exec[d], disk.exec[d])
        + (IF Executing /\ handler.task.side = d THEN handler.ok ELSE 0)

\* Memory and in-flight work are lost; an alarm being handled comes back.
Crash ==
    /\ used.crashes < MaxCrashes /\ ReportedIn(FaultTxs)
    /\ used' = [used EXCEPT !.crashes = @ + 1]
    /\ st' = disk
    /\ handler' = Resting
    /\ inflight' = [x \in Txs |-> 0]
    /\ alarm' = IF alarm.held THEN [alarm EXCEPT !.at = "early", !.held = FALSE]
                ELSE alarm
    /\ lost' = [d \in Sides |-> lost[d] + Unsaved(d)]
    /\ UNCHANGED <<disk, chain>>

AlarmHandler ==
    \/ AlarmIgnored \/ AlarmRuns \/ AlarmReplans
    \/ ReplanReady \/ BasePlanReady \/ PlanFails
    \/ AccountsReady \/ NoAccounts \/ SliceFills \/ SliceFails
    \/ ExecutionThrows \/ ExecutionEnds

Next ==
    \/ \E r \in Runs : Start(r)
    \/ Abort \/ Pause \/ Resume \/ Clear
    \/ \E x \in Txs : WebhookArrives(x) \/ WebhookApplies(x)
    \/ AlarmHandler
    \/ Crash

Spec == Init /\ [][Next]_vars

\* An alarm that is set fires, and an awaited call returns.
FairSpec == Spec /\ WF_vars(AlarmHandler)

-----------------------------------------------------------------------------
(* Properties.                                                              *)

TypeOK ==
    /\ st \in State
    /\ disk \in State
    /\ alarm \in Alarms
    /\ handler \in Handlers
    /\ inflight \in [Txs -> Nat]
    /\ chain \in [Sides -> Nat]
    /\ lost \in [Sides -> Nat]
    /\ used \in [runs : SUBSET Runs, crashes : Nat, sent : [Txs -> Nat],
                 ops : [UserOps -> Nat]]

\* A running run with queued tasks is woken again: at rest it has an alarm,
\* unless the platform dropped it, and so has the stored copy after any crash
\* (a delivered alarm that nothing replaced comes back).
WakesUp ==
    /\ handler.pc = "idle" /\ st.status = "running" /\ st.pending # <<>>
          => alarm.at # "none"
    /\ disk.status = "running" /\ disk.pending # <<>>
          => alarm.at # "none" \/ alarm.held

InHand == IF Executing THEN <<handler.task>> ELSE <<>>
Held == IF st.paused = NoTask THEN <<>> ELSE <<st.paused>>
AllTasks == st.pending \o InHand \o Held

\* No task is twice among the queue, the execution and the paused task, and
\* none of them is already done, whatever retries, pauses, replans and
\* crashes came between: else its volume would be traded again.
NoTaskTwice ==
    /\ \A j, k \in DOMAIN AllTasks : AllTasks[j].id = AllTasks[k].id => j = k
    /\ \A k \in DOMAIN AllTasks : st.snap[AllTasks[k].id].status # "done"

\* What the metrics count, in memory and in storage, was traded on chain.
CreditedWasTraded ==
    \A d \in Sides : st.exec[d] <= chain[d] /\ disk.exec[d] <= chain[d]

\* A run without external events trades its plan and no more: whatever exceeds
\* it was traded again because a fill was lost to a crash, to an unconfirmed
\* swap or to a failed write of its trade log.
TradesItsPlan ==
    Txs = {} => \A d \in Sides : chain[d] <= BaseVolume(d) + lost[d]

\* A redelivered transaction adds its response at most once, also when the
\* second delivery overtakes the first one's await or follows a crash.
EventCountsOnce == \A x \in Txs : st.obs[x] <= 1 /\ disk.obs[x] <= 1

\* A task an event superseded is not the one being executed.
SupersededNotExecuted ==
    Executing => st.snap[handler.task.id].status # "superseded"

\* Crediting an execution never takes the volume past the target in force.
NoOvercredit ==
    [][Volume(st') > Volume(st) => Volume(st') <= ManagedTarget(st')]_vars

\* A completed run has reached its target, or every task of its plan was done.
CompletedIsDone ==
    st.status = "completed" =>
        \/ Volume(st) >= ManagedTarget(st)
        \/ \A i \in TaskIds : st.snap[i].status \in {"none", "done"}

\* A running run settles: it completes, is aborted for want of accounts, or
\* pauses after three failures of a task.
Settles ==
    st.status = "running" ~> st.status \in {"completed", "aborted", "paused"}

\* A run that is running and at rest has an alarm to go on with.
RunningHasAlarm ==
    st.status = "running" /\ handler.pc = "idle" => alarm.at \in {"early", "head"}

\* What the queue service sees of the object, and what is under way in it.
Report ==
    [status |-> st.status,
     run |-> st.cfg.run,
     working |-> handler.pc # "idle",
     answering |-> \E x \in Txs : inflight[x] > 0]

\* The object keeps the promise the queue service relies on: its status and
\* run change only as RunLifecycle says, so no crash changes them, only a
\* start or a resume sets a run running, and only the alarm handler ends one.
Lifecycle ==
    INSTANCE RunLifecycle WITH
        Objects <- {"object"},
        objs <- [o \in {"object"} |-> Report]
KeepsLifecycle == Lifecycle!Spec

\* A completed run still reports the run it completed, by which the queue
\* service recognises it.
CompletionNamesRun ==
    st.status = "completed" => st.cfg.run \in Runs
=============================================================================
