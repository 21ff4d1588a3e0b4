------------------------------ MODULE RunState ------------------------------
(***************************************************************************)
(* The object a StrategyEngineDurableObject keeps in memory as             *)
(* persistedState and writes whole under one storage key                   *)
(* (src/backend/strategy/strategyEngineDO.ts), and the synchronous changes *)
(* its methods make to it.  Every operator takes a state s and returns the *)
(* changed state; StrategyEngineDO says when they run and what is saved.   *)
(*                                                                         *)
(* Volumes are whole units; a task of amt units is traded in amt account   *)
(* slices of one unit.  scheduledAt is abstracted to the position of a     *)
(* task in the queue, which the code keeps sorted by it.                   *)
(***************************************************************************)
EXTENDS Naturals, Sequences, SequencesExt

CONSTANTS
    Runs,          \* run identifiers the D1 queue hands to /start
    NoRun,         \* the null runId
    Txs,           \* transaction hashes of external trades
    NoTx,          \* no replan is pending
    BasePlan,      \* reviewed plan: a sequence of [side, amt] in time order
    TargetVolume,  \* targetTotalVolumeUsd of the strategy document
    EventKind,     \* what the document's triggers make of each transaction
    EventVolume,   \* size of the response to each transaction
    MaxDeduped,    \* MAX_DEDUPED_TX_HASHES
    MaxPlans       \* bound: plans computed after the reviewed one

Sides == {"buy", "sell"}
Statuses == {"idle", "running", "paused", "completed", "aborted"}
EventKinds ==
    {"below_threshold", "observe", "reduce_target", "counter_trade",
     "buy_the_dip", "pause_strategy"}

ASSUME RunsAssumption == NoRun \notin Runs
ASSUME TxsAssumption == NoTx \notin Txs
ASSUME PlanAssumption ==
    /\ BasePlan \in Seq([side : Sides, amt : Nat \ {0}])
    /\ TargetVolume \in Nat
ASSUME EventsAssumption ==
    /\ EventKind \in [Txs -> EventKinds]
    /\ EventVolume \in [Txs -> Nat \ {0}]
ASSUME BoundsAssumption == MaxDeduped \in Nat \ {0} /\ MaxPlans \in Nat

-----------------------------------------------------------------------------
(* Task ids.  A reviewed task has the same id in every run; a task planned  *)
(* later carries its start time or its transaction, so each plan of a run   *)
(* has ids of its own.                                                      *)

MaxTasks == IF Len(BasePlan) < 2 THEN 2 ELSE Len(BasePlan)
TaskIds == (0 .. MaxPlans) \X (1 .. MaxTasks)
Sources == {"base", "tactic"}
Task == [id : TaskIds, side : Sides, amt : Nat \ {0}, source : Sources]
NoTask == [id |-> <<0, 0>>, side |-> "buy", amt |-> 0, source |-> "base"]

SnapStatuses == {"none", "pending", "done", "failed", "superseded"}
Snapshot == [status : SnapStatuses, attempts : Nat]
NoSnapshot == [status |-> "none", attempts |-> 0]

Config == [set : BOOLEAN, run : Runs \cup {NoRun}, reviewed : BOOLEAN]
NoConfig == [set |-> FALSE, run |-> NoRun, reviewed |-> FALSE]

State ==
    [cfg     : Config,                    \* config, null when ~set
     status  : Statuses,
     exec    : [Sides -> Nat],            \* metrics: volume, by side
     pending : Seq(Task),                 \* pendingTasks, in order of time
     snap    : [TaskIds -> Snapshot],     \* taskSnapshots
     paused  : Task \cup {NoTask},        \* pausedTask
     obs     : [Txs -> Nat],              \* external observedOrders, by hash
     resp    : [Sides -> Nat],            \* sum of their response volumes
     red     : Nat,                       \* sum of their target reductions
     replan  : Txs \cup {NoTx},           \* pendingReplanTxHash
     dedup   : Seq(Txs),                  \* dedupedTxHashes
     plans   : 0 .. MaxPlans]             \* plans computed so far

Idle ==
    [cfg |-> NoConfig, status |-> "idle", exec |-> [d \in Sides |-> 0],
     pending |-> <<>>, snap |-> [i \in TaskIds |-> NoSnapshot],
     paused |-> NoTask, obs |-> [x \in Txs |-> 0],
     resp |-> [d \in Sides |-> 0], red |-> 0, replan |-> NoTx,
     dedup |-> <<>>, plans |-> 0]

-----------------------------------------------------------------------------
(* Volumes.                                                                 *)

Monus(a, b) == IF a > b THEN a - b ELSE 0

BaseVolume(d) ==
    FoldLeft(LAMBDA sum, t : IF t.side = d THEN sum + t.amt ELSE sum, 0, BasePlan)

Volume(s) == s.exec["buy"] + s.exec["sell"]

ManagedTarget(s) ==
    IF s.cfg.set
    THEN Monus(TargetVolume, s.red) + s.resp["buy"] + s.resp["sell"]
    ELSE 0

\* calculateRemainingPlanVolumes: what the base plan and the responses ask for
\* on one side, less what the metrics say has been traded there.
Remaining(s) ==
    [d \in Sides |->
        Monus(BaseVolume(d) + s.resp[d],
              s.exec[d] + (IF d = "buy" THEN s.red ELSE 0))]

\* applyExecutedTask: an executed volume counts up to the managed target.
CreditUncapped(s, d, vol) == [s EXCEPT !.exec[d] = @ + vol]
Credit(s, d, vol) ==
    LET room == Monus(ManagedTarget(s), Volume(s))
    IN  [s EXCEPT !.exec[d] = @ + (IF vol < room THEN vol ELSE room)]

-----------------------------------------------------------------------------
(* The queue and the snapshots.                                             *)

IdsOf(q) == {q[k].id : k \in DOMAIN q}

\* enqueueTask's snapshot: made on the first enqueue of an id, kept after.
WithSnapshots(snap, ids) ==
    [i \in TaskIds |->
        IF i \in ids /\ snap[i].status = "none"
        THEN [status |-> "pending", attempts |-> 0]
        ELSE snap[i]]

\* enqueueTask: the queue is re-sorted, so the task lands where its time falls.
Enqueue(s, t, pos) ==
    [s EXCEPT !.pending = InsertAt(@, pos, t),
              !.snap = WithSnapshots(@, {t.id})]

EnqueueAll(s, q) ==
    [s EXCEPT !.pending = @ \o q,
              !.snap = WithSnapshots(@, IdsOf(q))]

SupersedeEveryPending(s) ==
    [s EXCEPT !.snap = [i \in TaskIds |->
                           IF @[i].status = "pending"
                           THEN [@[i] EXCEPT !.status = "superseded"]
                           ELSE @[i]],
              !.pending = <<>>]
\* supersedePendingTaskSnapshots, and the queue emptied after it.
Supersede(s) ==
    [s EXCEPT !.snap = [i \in TaskIds |->
                           IF i \in IdsOf(s.pending)
                           THEN [@[i] EXCEPT !.status = "superseded"]
                           ELSE @[i]],
              !.pending = <<>>]

\* markTaskDone
MarkDone(s, i) ==
    [s EXCEPT !.snap[i] = IF @.status = "none" THEN @
                          ELSE [status |-> "done", attempts |-> @.attempts + 1]]

Completed(s) == [Supersede(s) EXCEPT !.status = "completed"]

BaseTask(k, plan) ==
    [id |-> <<plan, k>>, side |-> BasePlan[k].side, amt |-> BasePlan[k].amt,
     source |-> "base"]
BaseTasks(plan) == [k \in DOMAIN BasePlan |-> BaseTask(k, plan)]

\* The replan's specs: what remains to sell, then what remains to buy.
ReplanTask(k, d, vol, plan) ==
    IF vol > 0
    THEN <<[id |-> <<plan, k>>, side |-> d, amt |-> vol, source |-> "tactic"]>>
    ELSE <<>>
ReplanTasks(rem, plan) ==
    ReplanTask(1, "sell", rem["sell"], plan) \o ReplanTask(2, "buy", rem["buy"], plan)

-----------------------------------------------------------------------------
(* A failed attempt.                                                        *)

Attempts(s, t) == s.snap[t.id].attempts + 1

\* resolveStrategyTaskFailureTransition: retry twice, then pause.
Exhausted(attempts) == attempts >= 3

FailUncounted(s, t, pos) == Enqueue(s, t, pos)
FailDropped(s, t, pos) ==
    [s EXCEPT !.snap[t.id] = [status |-> "failed", attempts |-> Attempts(s, t)]]
\* handleTaskFailure: t is what is left to trade of the failed task.
Fail(s, t, pos) ==
    LET retried == Enqueue(s, t, pos)
        held == [s EXCEPT !.paused = t, !.status = "paused"]
        next == IF Exhausted(Attempts(s, t)) THEN held ELSE retried
        known == next.snap[t.id].status # "none"
    IN  IF known
        THEN [next EXCEPT !.snap[t.id] =
                 [status |-> "failed", attempts |-> Attempts(s, t)]]
        ELSE next

-----------------------------------------------------------------------------
(* What the requests make of the state.                                     *)

\* start(): everything of the previous run is reset.
Started(s, r) ==
    EnqueueAll([Idle EXCEPT !.cfg = [set |-> TRUE, run |-> r, reviewed |-> TRUE],
                            !.status = "running",
                            !.plans = s.plans],
               BaseTasks(0))

\* configure() as the webhook calls it: its body has neither a runId nor a
\* reviewedPlan, so both are overwritten.
WebhookConfig == [set |-> TRUE, run |-> NoRun, reviewed |-> FALSE]
Configured(s, c) ==
    LET changed == ~s.cfg.set \/ s.cfg.run # c.run
        kept == [s EXCEPT !.cfg = c]
    IN  IF changed /\ s.status # "running"
        THEN [kept EXCEPT !.pending = <<>>, !.obs = Idle.obs, !.resp = Idle.resp,
                          !.red = 0, !.replan = NoTx, !.dedup = <<>>]
        ELSE kept

RememberNothing(s, x) == s
\* The hash is remembered; the oldest of MaxDeduped is forgotten.
Remember(s, x) ==
    LET all == Append(s.dedup, x)
    IN  [s EXCEPT !.dedup =
            SubSeq(all, 1 + Monus(Len(all), MaxDeduped), Len(all))]

Responds(x) == EventKind[x] \in {"reduce_target", "counter_trade", "buy_the_dip"}

\* The volume an event adds on a side.
Response(x, d) ==
    IF <<EventKind[x], d>> \in {<<"counter_trade", "sell">>, <<"buy_the_dip", "buy">>}
    THEN EventVolume[x]
    ELSE 0

\* The order an event adds to observedOrders, with its response.
Observed(s, x) ==
    [s EXCEPT !.obs[x] = @ + 1,
              !.red = IF EventKind[x] = "reduce_target" THEN @ + EventVolume[x] ELSE @,
              !.resp = [d \in Sides |-> @[d] + Response(x, d)]]

ResumedUnchecked(s, pos) ==
    Enqueue([s EXCEPT !.status = "running", !.paused = NoTask], s.paused, pos)
ResumedTwice(s, pos) ==
    IF s.paused = NoTask THEN [s EXCEPT !.status = "running"]
    ELSE Enqueue([s EXCEPT !.status = "running"], s.paused, pos)
\* resume(): the paused task goes back to the queue with its attempt count.
Resumed(s, pos) ==
    LET woken == [s EXCEPT !.status = "running", !.paused = NoTask]
        back == Enqueue(woken, s.paused, pos)
    IN  IF s.paused = NoTask THEN woken
        ELSE [back EXCEPT !.snap[s.paused.id].status = "pending"]
=============================================================================
