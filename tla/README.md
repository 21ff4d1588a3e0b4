# tradeengine in TLA+

A formal model of the parts of tradeengine whose correctness depends on the
order of steps: handlers that await, alarms, crashes, retries and repeated
deliveries. `src/` below is the repository's own source directory.

## The system

A strategy is a document (a target volume, triggers, limits) deployed for one
token. Its versions wait in a queue in D1; the queue service promotes one at a
time and starts it on the token's Strategy Engine Durable Object, which trades
the plan slice by slice from an alarm, answers the external trades that the
webhooks report, and in the end reports completion when it is polled.

| Component | State it keeps | Operations | Interacts with |
|---|---|---|---|
| Strategy engine object, `src/backend/strategy/strategyEngineDO.ts` | one stored object: config, status, metrics, pendingTasks, taskSnapshots, pausedTask, observedOrders, pendingReplanTxHash, dedupedTxHashes; one storage alarm | start, abort, pause, resume, clear, webhook, alarm | called by the queue service and the webhook handler; reads accounts and prices from D1; swaps through Jupiter |
| Serial strategy queue, `services/strategyStore.ts`, `services/strategyAutomationService.ts`, `api/strategyHandler.ts` | version rows with a status; that the queue is stopped is derived from them | deploy, start next, complete, abort, pause, resume, remove, poll | promotes, then calls /start; a poll that sees completion starts the next |
| Webhook and signal pipeline, `api/webhookHandler.ts`, `services/signalStore.ts` | signal rows: claimed, processed, failed; one log row for each transaction | store, claim, enrich, log, mark, fail | applies holder deltas and transaction logs; forwards trades to the engine object |
| Refresh leases, `services/transactionLogRefreshStateService.ts`, `services/marketRefreshStateService.ts` | one row per token: request id, status, time | try to start, check, complete, fail, cancel, poll | taken by the page's refreshes, which run a holder sync or a reconciliation under it |
| Token holder synchronisation, `services/tokenHolderSyncService.ts`, `tokenHolders.ts` | the table of holders, staged rows, a row of the run, applied deltas | start or resume, fetch and stage a shard, finalise, full sync, delta | fed by signals and by RPC |
| Planner, `strategy/planner.ts`, `strategy/plannerMath.ts` | none | totals, counts, split over accounts, sequence | called by the engine object and the deploy handler |
| Decision engine, `strategy/engine.ts`, `strategy/algorithms/` | none | evaluate triggers | called by the engine object |
| Manual trades, `services/strategyAutomationService.ts`, `services/solanaTradeService.ts` | trade logs | choose a wallet, quote, send, record | swaps through Jupiter and the RPC endpoints |
| Accounts and pairs, `userStore.ts`, `tokenStore.ts`, `workerCore.ts`, `api/settingsHandler.ts`, `api/adminWalletHandler.ts` | account rows with snapshots, a cache of balances, tracked pairs, the active pair, RPC endpoints | import, switch, delete, read and refresh balances; track, activate, delete pairs | read by trades, the planner and the engine |
| Legacy Rust back end, `rust-backend/` | runs and tasks in SQLite; an event bus and two channels | trade, consume, report an event; three actors | none: not deployed |
| Web front end, `src/src/App.tsx` | the lists, the draft of the settings and the refresh a page shows | load, select, edit, save, refresh, poll, close | asks the worker; its polls find a refresh over, complete a run and start the next |
| Metrics, worker plumbing | rows | reports and I/O | all of the above |

### What is hard

* **Awaits.** A Durable Object runs on one thread, and nothing else is delivered
  while a method awaits the object's own storage; any other await (D1, a swap, a
  fetch) lets other requests run. `alarm()` awaits such calls while it replans, plans and trades, the webhook
  in one place; state read before is used after.
* **One alarm, many writers.** Every request and `alarm()` set or delete the
  same alarm. A queue with no alarm is a run that silently stops.
* **Crashes.** Memory is ahead of the stored copy between `popNextDueTask` and
  the next `persistState`; a swap made in between is on chain and nowhere else.
* **Repeated deliveries.** Webhooks are delivered again, alarms are redelivered
  when the handler throws.
* **Partial success.** A task is traded from several accounts; some slices fail,
  and the log of a successful swap may fail too.
* **The binding between two stores.** The queue in D1 and the object each hold
  the status of the run; they agree only through `runId`.

### What makes each component correct

* Engine object: a run trades its plan and no more, except for what crashes
  made it forget; what it counts was traded; a repeated event counts once; it is always
  woken while there is work; it settles; completed means done.
* Queue: at most one running row; what is recorded of a run is what happened to
  it; a pending row is started while the queue is not stopped; after an
  abort nothing starts by itself.
* Signals: one delivery at a time processes a row; what is processed is logged; the log keeps the best details.
* Leases: one refresh at a time unless it overran or was cancelled; the row says
  of a request what happened to that request; a dead refresh ends.
* Holder sync: a delta is applied once; a run that completes leaves what the
  chain holds; a refresh goes on where the last one stopped.
* Page: what it shows is of what is selected, whatever order answers come in; an edit is not lost
  before it is saved; it does not show a refresh running that is over.
* Wallets: a trade swaps once; a wallet is judged by a balance from after its last trade; a refresh stores
  a balance read after it began; a deleted pair is not left active.
* Legacy back end: an order is traded once for each life of the process; no order of a replaced plan is traded.
* Planner: counts exist when they are possible; volume is conserved; the sequence
  never spends what is not there yet, never gets stuck; what is
  shown as executable is accepted by the deploy route.

## The plan

Built in this order: `RunState` and `StrategyEngineDO`; `RunLifecycle`, the
abstract specification of an object, and the refinement; `StrategyQueue` over it;
`RefreshLease`; `SignalPipeline`; `HolderSync`; `OrderPlan`; `LegacyPlanner` and
`LegacyBackend`; `TokenRegistry` and `ManagedWallets`; `WebConsole` over `RefreshLease`.

Proved: every safety property that a passing run checks, under the hypotheses named with each theorem:
of the engine its types, wake-ups and metrics, what is traded, counted and completed, and
the refinement of `RunLifecycle`; the safety of the queue for one request at a time; of the lease, and of
the page's draft and lists; of the signals; of wallets and pairs; of the holders; of the legacy back end; of the planner.

What is left is liveness, which is beyond the prover, and the parts listed under *Not modelled*.

## Modules

| Module | What it is |
|---|---|
| `RunState` | the engine's stored object as a record, and each synchronous method of the class as an operator from state to state |
| `StrategyEngineDO` | the object: memory, stored copy, alarm, alarm handler, requests in flight; one action per request, per step of a handler between two awaits, and a crash |
| `RunLifecycle` | what its callers may rely on: a status and a run for each object, and who changes them |
| `StrategyQueue` | extends `RunLifecycle`: the rows in D1 and the requests that read and write them and call the objects |
| `RefreshLease` | the lease of one token, of either kind, and the requests that refresh under it |
| `HolderSync` | syncs of one token's holders, the stage, the table, the deltas of a transfer |
| `SignalPipeline` | the rows and the log of one transaction reported several times |
| `OrderPlan` | the planner as a state machine over its random choices, and the deploy route's check of its plan |
| `TokenRegistry` | tracked pairs, the active pair, RPC endpoints, and the requests that change them |
| `ManagedWallets` | extends `TokenRegistry`: accounts, balances behind the worker's cache, trades by hand and their log, on a chain that is external |
| `LegacyPlanner` | how the Rust back end turns a target into orders: operators |
| `LegacyBackend` | extends it: the Rust back end's runs and tasks in SQLite, its requests and its three actors |
| `WebConsole` | extends `RefreshLease`: one page of the front end, a part of it at a time, beside another that uses the same lease |
| `MC…` | plans, events, tokens, balances for TLC; the `.cfg` files are their instances |
| `StrategyEngineDO_proofs` | theorems about the engine: the plan's volume; the operators; types, wake-ups and metrics; the refinement; the tasks of a run, from its start to its end |
| `StrategyQueue_proofs`, `RefreshLease_proofs`, `SignalPipeline_proofs`, `ManagedWallets_proofs`, `HolderSync_proofs`, `LegacyBackend_proofs`, `OrderPlan_proofs` | theorems about these, with their lemmas; `RefreshLease_proofs` holds those of `WebConsole` |

### The engine object: state

| Variable | Code |
|---|---|
| `st` | `persistedState` in memory |
| `disk` | the copy under the storage key, written whole by `persistState` |
| `alarm` | the storage alarm: none, at the first task's time (`head`), at another time (`early`), given up by the platform (`dropped`); `held` while its handler runs, when a crash redelivers it; `tries` counts redeliveries |
| `handler` | where `alarm()` is suspended, with its locals: the config's plan flag, the volumes to replan, the popped task, slices left and filled |
| `inflight` | webhooks suspended at their await of D1 |
| `chain`, `lost` | history variables: volume swapped since the run started, and the part of it that no metric will count (a fill before a crash, a swap whose confirmation or log failed, a fill cut off by the target or by an error) |
| `used` | how much of each bound is used |

Inside `st`: `exec` is the metrics' volume by side; `obs`, `resp` and `red` are
what `observedOrders` comes to (how often a transaction is in it, the response
volume by side, the reduction of the target); `snap` has the status and attempt count of each task
snapshot. The order of `pending` is the order of
`scheduledAt`, which the code re-sorts on every enqueue; a retried task may
land anywhere in it. Volumes are whole units and an account's slice is one
unit; a swap fills its slice or does not.

### The engine object: actions

`Start`, `Abort`, `Pause`, `Resume` and `Clear` are the methods of those names, each one
step because they await nothing but storage. `WebhookArrives` is
`configure` and `handleWebhookEvent` up to the await of D1, `WebhookApplies` the rest.
`alarm()` is `AlarmIgnored`, `AlarmRuns` or `AlarmReplans` up to its first await;
`ReplanReady` and `BasePlanReady` go on when the planning inputs are there, `PlanFails` when planning
throws and the platform redelivers; `AccountsReady`, `NoAccounts`,
`SliceFills`, `SliceFails` and `ExecutionThrows` are the execution, and
`ExecutionEnds` counts, retries and completes or saves. A slice is sized (`resolveSwapInput`), ordered and
executed, and may fail at each: `NotSized`, `NotOrdered`, or `NotConfirmed`, when it has traded all the same. `Crash` loses memory and everything suspended.
`/clear` replaces the state object while a suspended `alarm()`
keeps a reference to the old one: `detached`, `oldVolume` and `oldEmpty` are that reference.

Left to the environment: which accounts exist, whether a swap succeeds, what a
trigger says of a transaction (`EventKind`), whether a plan can be made. `/start` is sent
once for each run and only when none is under way, as
the queue service does; a deployed version always carries a reviewed plan (`api/strategyHandler.ts`).

### RunLifecycle and the refinement

`StrategyEngineDO` implements `RunLifecycle` for one object:
`Lifecycle == INSTANCE RunLifecycle WITH objs <- …` maps the status and
`runId` in memory, `working` to a handler under way, `answering` to
webhooks in flight. `KeepsLifecycle` is `Lifecycle!Spec`, a property of
`engine_faults`. The abstraction is as loose as the code and no looser: `Rest` lets an
alarm that began on a running run end it as completed, aborted or paused even when
it was aborted in the meantime, and `Answer` lets a webhook that awaited D1
pause a run whatever has become of it. So what `StrategyQueue` shows, it
shows of an object that does so. What it rules out is what the queue depends on: an ending
without an alarm that ran, a run id other than the one started, a pause or
resume from the wrong status, a status that a crash changes.

### StrategyQueue

`rows` is the table of runs in order of insertion, `versions` the documents of
`strategy_versions`, `req` the requests under way: where each is, the row it read last,
and what the call it is in returns to (`getCurrentMetrics` and
`startNextStrategy` are called from several places). Each SELECT that a decision
depends on, each UPDATE and each call of an object is a step. The actions
follow `getCurrentMetrics` (`ReadMetrics`, `Fetch`), `completeCurrentStrategy`
(`ReadCompleted`, `Complete`), `startNextStrategy` (`ReadRunning`, `Settle`, `List`, `Pick`,
`Check`, `Promote`, `Launch`, `MarkFailed`), the deploy route (`Save`, `Insert`,
`ClearPrevious`), and the abort, pause, resume, remove and webhook routes. `Dies` ends a
request anywhere. A failed `/start` is taken to have had no effect. A deploy looks for the same
content in the current version only, as the code does. The queue page's poll
(`getQueueSnapshot`) is modelled by its call of `getCurrentMetrics`.

### RefreshLease

`row` is the lease's row in the table of its kind (market snapshot or transaction log), `req` where
each refresh is. Time is `Expire`: a running row may pass its 15 minutes at any moment, and is
`stale` from then on. `TryStart` and `ReadBack` are the upsert with its
condition and the SELECT that tells whether it was won; `Check` is what a market refresh does between
its steps; `Complete` and `Fail` are fenced by the request id but not by the
status; `Cancel` is the page's beacon. `Poll` and `Reset` are the read of a log refresh, which resets a stale one in a second
statement that is fenced by the id it read.

### WebConsole

`App.tsx` keeps one page's state. `part` says which part of it a behaviour is about: a list (the logs, the history, the profit,
the accounts, the holders), the draft of the settings, or the refresh; the parts share nothing but the
loads of the state, which are in each.

* Lists. `query` is what is selected (page, sort, token), `asks` the requests under way, numbered in order, `shown` what is on the page,
  `meta` the change token it will send. `Arrive` is an answer: the logs, the history and the profit drop one that is
  not of the last request (`Guarded`), the accounts and the holders take any; the holders' may be "unchanged".
  `Late` is an answer that is dropped: a newer one was asked for, or there is no state yet to put it in. Four lists are also asked for after a load
  of the state (`After`): the logs after the dashboard's poll, the history after a market refresh (`BeginChain`), the accounts and holders after an import or a
  deletion. The function that awaits the load was made for the selection of its time, and asks for that (`StateArrives`); only the logs'
  looks first whether it was replaced (`GoesOn`). `strayed` is the history of this: the last request was for another query than the one selected.
* Draft. `draft` is the set of edits on the page, `dirty` the mark of an edit, `doc` the server's copy. `loads`
  are the loads of the state, each with what it read. `StateArrives` ends one and replaces an unedited draft (`SyncDraft`);
  `Submit` sends a save, a deletion, a logout or another action of the page under its one lock; `ServerSaves` is the server's statement, and the
  `…Answered` what the page does with the answer. `tardy` and `reverted` are histories: edits made during a save, and edits an older state took.
* Refresh. `Press` and `Posted` start one, `PollStatus`, `PollArrives` and `PollFails` ask for its state every few seconds,
  `Hide` is the beacon of a page that closes on a running market refresh. `Elsewhere` is another page on the same token.

Each action that touches the lease calls the action of `RefreshLease` for it; the others leave the lease alone.

### HolderSync

`chain` is what the wallets hold, `final` the table, `stage` the staged rows, `row` the state of
the run. A sync executes `dbStartOrResumeTokenHolderSync`, one loop of shards, and the
finalisation, one statement a step, each from its own copy of the row (`loc`), which is
what it writes back. A full sync lists the token's accounts
under both token programs, one of which may have none, and then reads their balances. A call of the RPC returns what the chain holds, fails, or is rate limited. Between any two
statements the sync may die. One transfer happens at any moment, and its delta is delivered twice.
`overlapped` and `moved` record which runs were touched by another sync, lost their stage, or had a
transfer in their midst: for those the table may be wrong until the next sync.

### SignalPipeline

One transaction, one user, one token. Each reporter has a key of its own, `(source, external_id)`, and
finds the oldest row of the same transaction first; the log has one row. Details are
what the merge tells apart: whether the action is known, where they come from, and
whether the transaction is confirmed. What a payload names (`Payloads`) decides what survives its
compaction, and so what the parser can derive; wallets of the payload overrule the action that the chain suggests when
a pool is known. The details are looked for at Alchemy, then at Helius, then among the signatures. What the chain
has of the transaction is chosen once for a behaviour. Handlers: `ActivitySignal` (Alchemy), `RustNodeWebhook`, `Reconcile`
(a refresh). `Throws` is an error inside the handler's `try`, `Dies` a worker that
ends or an error outside it. The order of `created_at` is that of insertion. The node's forward to the engine comes
before `Find` and is in `StrategyEngineDO`; a refresh skips a transaction
the chain rejected, which moved nothing, while a webhook logs it.

### OrderPlan

The planner is synchronous; its steps are where it draws random numbers: the order of the
counts it tries, the amounts per account, the shuffles, the sequence. `Specify` computes totals and
counts, `Allocate` and `GiveUp` try pairs of counts, `Place` and `EndSequence` sequence the orders of a
two-sided plan, `Slice` and `EndSlices` spread the slices of a one-sided one. `Accepted` is the deploy
route's check of the result. Volumes are whole units, far above the code's epsilon of
1e-6, and `account` holds the figures the planner works with; a balance is `short` in those that the planner rounded up. The planner
tolerates the difference, the route does not: of a short figure it takes anything but the whole (`Enough`). Times are only an order; what is already planned for an account is folded
into its balance; the order among random candidates is left open, so that what holds, holds for every seed.

### TokenRegistry and ManagedWallets

`req` is the table of requests: the operation, the step and the locals of each. `tokens` says of
each pair whether it has a row and whether the row is active, `settings` what the
user selected, `accounts` the rows of wallets with their balance snapshots, `cache` the worker's
balances with the time until which they count, `logs` the rows of `trade_logs`. Each SQL
statement is a step, each call of the chain another, since both can be slow or fail.

A trade is `executeManagedTradeTask`: the named wallet is checked (`CheckAccount`; a controlled execution wants one
that is for a pair, `Suits`) or candidates are listed in least recently used order and judged by
their balances (`Candidates`, `Ordered`; `ListCandidates`, `Judge`, `ReadUsdc`, `ReadTokens`); then the key (`CheckKey` by id,
`LoadKey` by address), the log row, the quote and the transaction built and signed from it (`Quote`, which numbers it, `tx`), the sends of that (`AttemptFails`, `AttemptSucceeds`) over
the endpoints there were at its start, and the last update (`Record`, `MarkFailed`). A send that fails may have reached
the node all the same; `Land` is the chain executing what a node accepted, at any later time. `ReadUntimed` and
`WriteTimes` are the refresh that fills in the chain's times. When a wallet was last used is the latest
`updated_at` of its log rows whatever their status, so such a refresh restarts its cooldown.

Time is `Tick`. The cache holds for 30 seconds and a wallet cools down for 45; `CacheTTL` 1 and `Cooldown` 2 keep their
order and the step between them.

### LegacyPlanner and LegacyBackend

The Rust back end is an experiment that the deployment does not use (`rust-backend/README.md:3`). One mutex
guards SQLite; `job` is who holds it. Jobs are cut where they commit and where they trade, because the process may die
there. A trade request creates a run, plans it and inserts the rows of a version (`CreateRun`, the jobs
of planning); `ConsumeRequest` executes a batch of the latest run; an external trade goes over the event bus to
the strategy engine, from there as a directive to the planner, which adopts a new version, and to the execution
gateway. `bus`, `directives` and `executions` are the channels; an actor whose channel is full waits with
what it has in hand (`engine`, `planner`), while the bus drops the oldest event. `Crash` empties everything but
the database. The accounts' balances (`Pool`) are constant, as nothing but an import changes them in the code: the planner reserves
nothing, so that plans promise the same balance twice.

## Runs

| Run | Instance | Shows |
|---|---|---|
| `engine_faults` | one task; a buy-the-dip transaction delivered twice, one crash, one user operation of any kind; or with a reduce_target transaction beside it, reported once, and a pause or resume | `TypeOK`, `WakesUp`, `NoTaskTwice`, `CreditedWasTraded`, `EventCountsOnce`, `SupersededNotExecuted`, `NoOvercredit`, and the refinement `KeepsLifecycle` |
| `engine_crash` | a buy of one slice and a sell of two, two crashes, fairness | `TradesItsPlan`, `CompletedIsDone`, `Settles` |
| `engine_resume`, `engine_binding` | one transaction | violations, see below |
| `queue` | three documents of two tokens, three deploys or two and a death, two other operations, one request at a time, fairness | `SerialQueue`, `CompletedWasRun`, `AbortStopsQueue`, `QueueAdvances`, `EndingIsRecorded` |
| `queue_races` | polls and deploys, two requests at once | a violation, see below |
| `lease` | one page, with one part of it in each behaviour, and another page: two requests of either kind, two queries asked for three times, one change of the rows, two edits; fairness | `Exclusive`, `OutcomeIsOwn`, `OutcomeStable`; `ListIsAsked`, `EditsKept`, `PageIsTold` |
| `holders` | two shards of one wallet each, two syncs, one transfer and two deliveries of it | `DeltaMovesOnce`, `CompletesToChain`, `ProgressKept` |
| `signals` | two deliveries of Alchemy, one of the node and a refresh, one fault; five cases of what the payload and the chain say | `ProcessedOnce`, `ProcessedIsLogged`, `ClaimHeld`, `LogKeepsDetail` |
| `plan` | requests of the three objectives over three accounts, each with one of seven balances, one of them a little less than the planner's figures | `CountsAreFeasible`, `VolumeIsConserved`, `NeverStuck`, `NeverOverdrawn`, `ExecutableIsAccepted` |
| `wallets` | thirteen mixes of up to three requests on two wallets and two pairs, one or two at a time, in some with a death | `SwapLandsOnce`, `BalanceFollowsTrades`, `RefreshIsCurrent`, `DeletedIsCleared` |
| `legacy` | two trades, settings and two external trades over two runs, one crash | `TradedOnce`, `SupersededNotTraded` |

Deadlock is checked for the queue, whose page always polls. Elsewhere it is not: a settled
run, a finished plan, a table whose requests are all over have nothing left to do.

**Bounds.** Engine: `MaxDeliveries` 2 lets the second delivery overtake the first at its await or
follow a crash. `MaxCrashes` 2 reaches a crash during the recovery from a crash. `MaxPlans` 3
allows a replan, its redelivery after a crash and one more. A task of two slices is the least that
fills in part. `MaxAlarmRetries` 1 stands for the platform's larger number. `MaxDeduped` 2 is no less than
the transactions of a run whose repeats matter, as the code's 256 is taken to be. Queue: two deploys
put one run before another, three leave one waiting behind two that end in one second; `MaxDeploys` counts deaths too, so that a death goes with two; the first deploy
is of one token, the others of any (`InTurn`); two other operations combine an abort with a resume, or a pause with an abort; one death is enough to separate any statement from the next. Lease: one request of the page and one of
another take over from each other. Page: three requests for a list are two that cross and one after; one change of the rows tells
an answer from before it from one after; two edits are one that is saved and one that is not. Holders: `TotalShards` 2 (512 in the code) is the least
with a shard before and one after a failure; `MaxShards` 2 (4 in the code) changes only when a refresh
stops, which a rate limit does anywhere; two syncs are a run and its resumption, or an overlap. Signals: two
deliveries of one key race for a claim; one fault puts an error or a death into each of
their steps. Plan: orders of 2 to 4 in volumes up to 17 leave counts that fit exactly, with room, and
not at all; balances from nothing to a whole order and a half force accounts to be skipped, filled and
funded by their own sells. With three accounts the greedy choice has one to pass over. Engine's second transaction
(`FaultTxs`): the one outside it is reported once and in behaviours without crash, abort and clear. Signals:
`atOnce` of a case is how many deliveries are under way together. Wallets: `Mixes` says which requests may come,
how many at once and how many deaths; `Named` and `Traded` which wallets and mints requests name;
`MaxAttempts` 2 (3 in the code) is a retry; two endpoints are a change of endpoint; `MaxTime` 2 lets a cooldown end. Legacy:
`BatchSize` 2 (100 in the code) leaves orders for another batch; a bus of 2 and channels of 1 overflow and fill; `MaxVersions` 3 is
two replans, `MaxTime` 1 separates two updates of a run.

**One run per object.** The passing engine runs start one run per object, and four theorems ask for that or for runs that are neither
aborted nor cleared (`StartsAlone`). With a second
run started after an abort, while the first one's task is still being traded, TLC
finds the old task's retry in the new queue and its fills in the new metrics (`NoTaskTwice` and
`CreditedWasTraded` fail). `StrategyQueue` shows that the next run does start while the
last one's alarm may be under way.

**Crash and pause.** `CompletedIsDone` is checked with crashes and without user operations, and
proved for runs that may be paused or may crash, not both (`CompletesWhenDone`). A pause
that saves the queue while a popped task is being
traded, followed by a crash, loses the task; after a resume the run completes without it.

**One request at a time.** The queue's safety is checked with one request at a time because
two at once break it (`queue_races`); its theorems assume the same (`OneClient`). Every other interleaving of the queue is that of a request with
its objects, with its successor after it died, and with the object's own alarm and webhooks.

**Fairness.** `FairSpec` of the engine asks weak fairness of the alarm handler as a whole: an alarm that is
set fires and an awaited call returns or throws. Nothing is asked of users, webhooks,
crashes or of the outcome of a swap; `Settles` holds without fair swaps because three failures pause
the run. The queue's page polls every three seconds while it is open (`src/pages/HistoricalSetupsPage.tsx:220`): `FairQueueSpec` has requests go
on, polls begin, and a running object settle, which is what `Settles` shows of the engine. `FairConsole` has
the clock run (`Expire`), a stale log refresh be reset when it is polled (`Poll`, `Reset`), the page ask for the status every
few seconds while it shows a refresh running (`PollStatus`, `src/App.tsx:945`), and loads end (`Loaded`); of the answers to its polls
it asks strong fairness (`PollArrives`): not all of them fail. Nothing is asked of the refresh itself, which may die. `signals`, `holders`, `plan`,
`wallets` and `legacy` check safety only.

### Where the code and its documents disagree

* `engine_resume` (`RunningHasAlarm`): a `pause_strategy` event empties the queue
  and deletes the alarm (strategyEngineDO.ts:739); a resume then sets the run running with
  nothing queued, and `syncAlarmFromState` deletes the alarm. The run stays
  running for ever, its plan dropped. The lifecycle script says "resume should reactivate a paused run"
  (scripts/check-strategy-do-lifecycle.mjs:516).
* `engine_binding` (`CompletionNamesRun`): the request the webhook handler sends has neither `runId`
  nor `reviewedPlan` (webhookHandler.ts:274), and `configure` overwrites both.
  A run that saw a webhook completes with a null run id, and the
  queue service ignores a response whose run is not the active version
  (strategyAutomationService.ts:581): the completion is never recorded and the next
  version never starts. The scripts check-strategy-do-completion-advance.mjs:456 and
  check-strategy-do-idempotency.mjs:437 expect otherwise.
* `queue_races` (`SerialQueue`): `updateStrategyStatus` looks for a running row and then updates, in two
  statements. Two requests promote two rows, and from then on every read of the running row throws
  "Strict serial queue invariant violated" (strategyStore.ts:306).

Three more come from properties that the modules state and no run has. TLC finds each violated when it is made an
invariant of the run named; the property that the run does have exempts the case.

* `WaitingIsPaused`, in `queue` (`QueueAdvances`, `AbortStopsQueue` exempt it): `deriveQueuePaused` takes the row that ended last by `updatedAt`, in whole seconds, and of equal
  ones the older (strategyStore.ts:186). When one run is recorded completed and the next is aborted in the same second, the queue does not
  count as paused; with no active run no poll starts the third strategy, and the page offers "Resume Queue" only when it is
  paused (HistoricalSetupsPage.tsx:475). The lifecycle script expects `payload.active == null && payload.paused === true` after an abort
  (check-strategy-do-lifecycle.mjs:460) and speaks of "abort pauses the queue" (474).
* `RangeIsSelected`, in `lease` (`ListIsAsked` exempts it): `pollRefreshStatus` tests `cancelled` before it awaits `loadState()` and then asks for the
  history of the range it was set up with (App.tsx:1062-1071). That request takes the newest number, so that the answer for a range
  selected meanwhile is dropped and the old range's is shown as "Selected range change:" (DashboardPage.tsx:260).
* `ExecutablePlan`, in `plan` (`ExecutableIsAccepted` exempts it): the planner rounds what an account can sell to six decimals, possibly up (planner.ts:1266), and
  the route compares the balances as they are (strategyHandler.ts:232, 247). A plan that sells all of an account worth 10.0000006,
  planned as 10.000001, is shown as "Executable Plan" (StrategySchemaForm.tsx:1401) and refused on unchanged balances:
  "no longer has enough base balance" (strategyHandler.ts:248).

### What else the models show

Things that the properties exempt or do not touch:

* Engine: a second event that comes while the replan for the first awaits its inputs is never planned; a run
  aborted while its replan awaits is given tasks; a second run started on the same object while the last one's `alarm()` is under way.
* Queue: a deploy for another token clears the object of the previous token
  (strategyHandler.ts:728), whose strategy may be the one that runs, while the page says that deploying "only affects the
  current strategy draft" (TradingSetupPage.tsx:98); an abort in the same second as another ending does not stop the queue (`WaitingIsPaused`).
* Signals: a row whose worker died stays claimed for ever (`ClaimHeld`); a row shared by its
  transaction signature may turn from processed back to failed; an RPC that does not answer still marks
  the details as coming from payload and RPC; a log row read before another wrote it is written back, and a late poorer
  report can return a confirmed row to pending (`LogKeepsDetail` speaks of the action and the source of the details); the engine is told of an Alchemy trade
  by what the payload alone says; the Alchemy webhook answers 200 and processes afterwards, so that the provider does
  not deliver a failure again.
* Page: an answer of `/api/state` has no market history and `loadState` does not carry the old one over, so that every poll of the
  dashboard empties the loaded history; an "unchanged" answer after a quick change of the holders' page and back leaves
  the other page's rows on show; logs answered before the first state are dropped until the next poll; what is edited during a save is
  replaced by the reload that follows it; a state read before a save and arriving after it takes the saved edits from the draft, and
  the next save takes them from the server; a state that comes late can show, and announce, an old refresh again.
  The README's "without overwriting unsaved strategy settings" (README.md:173) of saving a tracked token is upheld (`EditsKept`).
* Lease: a late cancel or completion overwrites the outcome of a market refresh (`OutcomeStable`).
* Holders: overlapping syncs, or a death between the deletion of the stage and the completed row, can zero
  holders (`CompletesToChain`).
* Page, also: an import or a deletion of an account asks for the accounts and the holders as they were selected when it began (App.tsx:1497-1499, 1534-1536; `strayed`).
* Plan: with a reserve a plan shown as executable may be refused on the same balances, because the sequence looks at balances
  and not at the reserve (`ExecutableIsAccepted`); a one-sided slice over several accounts, and a distribution's buys that
  its sells are to fund, are refused likewise; when nothing between the least and the largest order fits, a
  slice is larger than the largest order.
* Wallets: a send whose answers were all lost leaves a failed row without a signature though the swap may land; deleting
  a pair reads the settings before it clears them, and may clear a selection made meanwhile; activating a pair that was deleted
  leaves it untracked; a trade of a mint without a row is not logged; a pair whose row is inactive still resolves to an id.
* Legacy: plans over-commit balances; executing an older run makes it the latest; orders beyond a batch wait for a request that
  may not come; an event reported twice is answered twice.

## Proofs

`StrategyEngineDO_proofs` first shows that every operator of `RunState` maps states to states,
and what each leaves of the status, the queue and the volumes. `CreditState` says
that crediting counts between nothing and what was filled, `CreditCapped` that it stops at the target.

`TypeCorrect` (`Spec => []TypeOK`) strengthens `TypeOK` by one fact: while the handler
executes, it has a task (`EngineOK`). Without it, the retry of the task in hand
could not be shown to be a task.

`AlwaysWoken` (`Spec => []WakesUp`) is the theorem that no interleaving strands a run
with tasks queued. A run with an empty queue and only a replan pending is outside it: another webhook's
`syncAlarmFromState` may delete the alarm that the replan waits for.
`WakesUp` speaks of the handler at rest, so it is not inductive: a step out of the middle of `alarm()` must
know what the alarm is there. `Wakeable` says it: while the
handler runs, a queue without an alarm is covered by the redelivery of the alarm
being handled or by an execution that has yet to save; no alarm is being handled at rest; and
memory and the stored copy never disagree on the status, which is what makes the
unsaved return of `alarm()` after a pause harmless. The proof has one lemma for
each way of saving and one step for each action.

The theorem assumes that `clear` is not used. A clear while `alarm()` is suspended, followed
by a new start, lets the old handler, which still holds the old state object, decide about the new
run's queue. `engine_faults` checks `WakesUp` with a clear and one run.

`NeverOvercredits` (`Spec => NoOvercredit`) is the theorem about the metrics. The property compares a
state with the next, and a crash replaces the state by the stored copy, so it needs the
invariant `StoredBehind`: the stored copy never counts more than memory does.
`ExecutionEnds` is the one step that counts, and `CreditCapped` bounds it; every other way
for `alarm()` to suspend or end leaves the volumes alone (the `…Leaves` lemmas), and so does
every request but `/start` and `/clear`, which count nothing.

### What a run trades and counts

* `ImplementsLifecycle` (`Spec => KeepsLifecycle`) is the refinement. Its steps fall into three kinds: a step between two
  awaits of `alarm()`, which changes neither run nor events and the status only when the handler ends (`Steady`); a
  request, each of which is an action of `RunLifecycle` or leaves what it shows alone; and a crash, which `RunLifecycle` does not see because the
  stored copy has memory's status and configuration (`StoredReport`). It holds with any number of runs, crashes and clears.
* `TradesEachTaskOnce`, `ExecutesNothingSuperseded` and `CountsOnlyTrades` assume `StartsAlone`: one run, or any
  number that are neither aborted nor cleared. Without it they are false, as *One run per object* above says. The condition gives
  `RunsInv`: no run starts while a handler of another is under way. `TasksInv` says
  where a task may be (`Tidy`: once in the queue or held by the pause, and nowhere once it is done or superseded; `Free` and
  `HandOK`: the task in hand is nowhere else), of memory and of the copy a crash brings back. `CreditInv`
  relates the metrics to what was swapped: what is counted was traded (`Covered`), with room for what is in hand and not yet
  counted (`Earned`, `Unearned`).
* `EventsCountOnce` rests on `EventInv`: what is counted is among the hashes remembered, in memory and in the stored copy
  (`Known`), and a webhook that awaits D1 for a transaction finds it already remembered (`Awaited`). It assumes one run
  that is not cleared (`OneRun`) and room in `dedupedTxHashes` for every transaction (`AllRemembered`). A redelivery
  does count again after a clear that a `pause_strategy` event outlives, when the next run starts while a webhook awaits D1,
  and when the hash was crowded out.
* `TradesPlanOnly` is about a run that no external event touches (`Plain`: it keeps its reviewed plan and nothing is planned
  again). Comparing totals is not inductive: each task in the queue, in hand or held must be known to fit in what is left of the plan.
  A ledger says so: numbers, one for each beginning of the plan, that never decrease, and of which each task
  takes up no more than its own step (`Allowed`); what is counted and the last number come to no more than the plan's volume
  (`Keeps`, for each side `Budgeted`). A retry keeps its step, a fill crosses off its part of it (`BudgetSpends`), and the
  stored copy has a ledger of its own for the crash that brings it back. The other half is `Accounted`: what was traded is counted, lost, or
  filled by the task in hand. The plan's volume is a fold over its tasks; that it is the sum
  of their volumes, in any order, is shown of the smallest set of tasks for which it could fail (`BaseVolumeAddsUp`).
  It assumes `StartsAlone` and no clear.
* `CompletesWhenDone` rests on `Retained`: while a run is running or paused, a task that was queued and is not done is queued, held or in hand
  (`Kept`), in the stored copy as well; and while `alarm()` works, nothing is held (`Attended`), so that an empty
  queue at its end means nothing is left. It assumes no abort and no clear, and no crash where runs are paused: a pause saves the
  queue without the task in hand. An abort leaves tasks undone and lets `alarm()` complete the run all the same.

### The queue

`StrategyQueue_proofs` assumes `OneClient`, one request at a time, as the run does; requests may die anywhere and leave the rows as
they are. `QueueInv` says what a request relies on at each of its positions (`Relies`: that the row it read is still as it
was, that nothing else was running when it looked), that at most one row is active (`OneActive`), and that
what a row or an object says completed did run (`CompletedWasRun`, `ReportsRan`). `AbortsStop`
needs that among the rows that ended there is a last one, which follows from the finite set of rows by well-foundedness of its subsets (`LastToEnd`).

### The lease and the page

`RefreshLease_proofs` proves the lease's safety for any set of requests. `LeaseInv` adds to the three
invariants what makes them inductive: a row with a status names a request (`RowIsHeld`); what
a poll may take over has expired (`StaleExpired`); a request that is about to complete has
finished its work (`CompletesFinished`); the request a row names has begun, and is over once the row
says completed (`HolderBegan`). `LeaseExclusive` rests on `Take`, which replaces the holder of a
running row only if that has expired; `CompletedIsOwn` and `ReportedIsStable` on the request id in
the WHERE of every UPDATE.

`ConsoleUsesLease` carries all three over to the page: each of its steps is a step of `RefreshLease` or leaves the
lease alone. `NoEditIsLost` rests on `Agree`: the edits on the page are the ones that the server lacks, up to those
made during a save and those an older state took (`tardy`, `reverted`), and an edited draft is marked. `ListFollowsQuery` rests on the
numbers of the requests: no two are alike, the last one asked for what is selected, and what is
shown is of the last that was answered (`ListInv`); it leaves out, as the property does, what a function older than the selection asked for last.

### Signals, wallets, holders

`SignalPipeline_proofs`: `SignalInv` says at each statement of a delivery which row it works on (`HasRow`), whether it may still
mark it (`WritesIts`), what is logged by then (`LogFirst`), and who holds a claimed row (`HolderIsAt`, `HeldRow`, `Unmarked`). `RowProcessedOnce`
and `ClaimedIsHeld` follow from the claim's UPDATE deciding among deliveries, `LogNeverWorse` from the merge never lowering the rank of the details.

`ManagedWallets_proofs`: a step writes one request's variables, so the proof asks of each step that it sets its own
request right and lets the others mean what they meant (`Steps`, `Grows`: accounts are only appended, log rows only move on). What a
request means at its step is `Fits`: a balance that was read is of the chain of then (`ReadingFits`, `RefreshFits`), a wallet was cool and its last
trade before its balance (`TradeFits`), and a deletion clears the pair it read (`DeleteFits`). `TradeSwapsOnce` rests on
`SigningInv`: a request has signed nothing before its quote (`Early`) and one transaction after it (`SignsOnce`), to which no further attempt goes back, so that whatever it
sent or recorded carries that signature.

`HolderSync_proofs`: `HolderInv` says when a run is left to itself. A run that no second sync has worked in belongs to one sync at most (`Alone`), which is
ahead of the row (`Ahead`), so that what it puts moves no shard back: `ProgressIsKept`. While nothing was transferred either, the stage holds of it
what the chain holds, shard by shard up to where it has got (`Upto`, `Relies`, and `RowSound` for a run whose sync has ended or died); `CompletedIsChain` follows at
the last shard. Each shard is deleted before it is inserted, which is why a run need not begin with an empty stage. What a wallet's staged
rows add up to is a fold over one row or none (`OneRow`, `SumOfOne`). `TransferMovesOnce` needs none of this: the table
and the delta's row change in one batch.

### The legacy back end

`LegacyBackend_proofs`: all work on the tables runs under one mutex, as one job with a position; the job is a batch of a run, a
planning, or nothing. `LegacyInv` says of a batch that its rows are pending rows of the plan in force, but for the one just marked
(`BatchFits`), and of each swap that its row is marked, or is the one in hand (`SwapsFit`), unless the process crashed since. So no step trades a row twice between two
crashes (`LegacyTradedOnce`), and a plan that is replaced waits for the batch of the old one (`LegacySupersededNotTraded`). A crash drops the job between the
swap and the mark, which is why both speak of one life of the process.

### The planner

`OrderPlan_proofs`: `PlanInv` has a part for each step of the planner. With two sides (`Ledger`), the orders
not in the plan yet can still be sold and paid for account by account (`Funded`), each order in the plan could be executed after
those before it (`InOrder`), and what is in the plan and waiting is the volume of each side. With one side (`Sliced`), what is in the
plan, left over and still to be spread is the volume. `SequenceNeverStuck` follows from `Funded`: a sale that waits can always be executed, and an
account without one can pay for its purchases. `CountsFeasible` is about `tradeCounts`: where some numbers of orders could carry both volumes, the clamped ones do.
`ExecutableAccepted` compares the planner's checks with the route's: `NeverOverdrawn` gives each task its balance, strictly where a figure is short and
not used up (`OneEnough`), and since what the accounts gain in all is what is sold less what is bought (`GainOfPlan`), the quote needed before the first task is there (`EnoughTogether`).
All of these are sums over accounts, orders and tasks; what holds of sums (`SumAdd`, `SumRenamed`,
`SumChange`, …) is shown of the smallest set for which it could fail, and what the greedy choice and the spreading of a slice
return (`AllocateLaw`, `SpreadLaw`) of the least turn.

### Assumptions, and what is only model-checked

The theorems assume what the modules assume of their constants (`ASSUME`), which TLC evaluates on each run: of the engine a plan of tasks with positive
volumes, events with positive volumes, natural bounds;
that no request is the null id (lease), that an empty list is no answer (`ConsoleAssumption`) and a missing log row no row (`LogAssumption`); that
the accounts derived from a phrase, and the first ones, are all different (`WalletAssumption`); that syncs and deliveries are
different and the sender holds something (`HolderAssumption`); that runs are numbered in the order of deployment (`QueueAssumption`);
of the planner a finite set of accounts, a least order that is positive and not above the largest, positive volumes, and even ones where they are
halved (`AccountAssumption`, `SizeAssumption`, `RequestAssumption`); of the legacy back end positive capacities (`ActorAssumption`) and
requests, settings and balances of the right form (`RequestAssumption`, `PoolAssumption`); and the types of the constants.
The hypotheses beyond these are named above: no `clear` in `AlwaysWoken` and `TradesPlanOnly`; `StartsAlone`; `OneRun` and `AllRemembered`; `OneClient`; and
those of `CompletesWhenDone`.

What a fold or a recursive function comes to for every input cannot be shown by the library's induction theorems, which take an operator as
parameter. Where it was needed, a smallest counterexample over a well-founded set did it.

Only model-checked: liveness (`Settles`, `QueueAdvances`, `EndingIsRecorded`,
`PageIsTold`), which is beyond the prover; and what the three runs that expect a violation show.

## Not modelled

`debugSimulate`, a development endpoint of the engine object, and the repair of
stored objects from before task snapshots existed. Prices and exact times, the price curve of a plan, rounding to six
decimals, except where it lets the deploy route find a balance short. The queue's cleanup route, previews and run reports. The parsing of webhook payloads beyond which details it
yields, several users and several transactions of one payload. The aggregates of the lists of holders. Of the page: the pool address that an update of a pair copies into the draft, the balances of one wallet,
the notices, passwords and private keys, and its components. Of the legacy back end: errors of the database after a swap, and of the audit log after a plan is adopted. Of wallets: amounts,
decimals and slippage, watched addresses, capability writes, a pair's AMM pool, the holder table's own copy of a refreshed balance. The limiter
of RPC calls beyond its attempts and endpoints. `strategy/taskQueue.ts` is dead code: its only user is a class
of `strategy/engine.ts` that nothing instantiates; so is `reconcileWebhookTransactionDetailsInWindow` of
`services/signalStore.ts`. So are `dbImportWatchAccount`, `listManagedAccountsWithBalances` and `getManagedBuyCapacitySummary`. Key handling,
metrics, the other settings, the rest of the front end and migrations are I/O, reporting, CRUD or presentation; `PROJECT.json` lists each with its reason.
