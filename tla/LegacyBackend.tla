---------------------------- MODULE LegacyBackend ----------------------------
(***************************************************************************)
(* The Rust back end (rust-backend/src), one user: its runs and tasks in   *)
(* SQLite, the requests on them, and the three actors that turn an         *)
(* external trade into a new plan and its execution (actor_runtime.rs).    *)
(*                                                                         *)
(* The database is behind one mutex.  A job that holds it is cut into      *)
(* steps where it commits and where it trades, because the process may     *)
(* die there; everything else that needs the database waits.               *)
(***************************************************************************)
EXTENDS LegacyPlanner

CONSTANTS
    Nothing,        \* no message, no outcome
    Trades,         \* what /api/trade may ask for: buy, sell, total, hint, delayed
    DefaultSettings,    \* SettingsState::default
    SettingsStates, \* what settings may be saved
    Events,         \* external trades reported
    EventBusCapacity, DirectiveQueueCapacity, ExecutionQueueCapacity,
    BatchSize,      \* DEFAULT_EXECUTION_BATCH_SIZE
    MaxRuns, MaxVersions, MaxRequests, MaxCrashes, MaxTime  \* bounds

\* TradeRequest, SettingsState and ExternalTradeEvent, as far as they are read.
TradeRequest == [buy : Int, sell : Int, total : Int, hint : Int, delayed : BOOLEAN]
SettingsState ==
    [contract : STRING, objective : {"accumulation", "distribution", "shakeout"},
     threshold : Int, min : Int, max : Int, absorb : Int, follow : Int, dump : Int,
     volume : Int, net : Int]
ExternalTradeEvent ==
    [contract : STRING, side : {"Buy", "Sell"}, amount : Int, lossCut : BOOLEAN,
     execute : BOOLEAN]

ASSUME RequestAssumption ==
    /\ Trades \subseteq TradeRequest
    /\ {DefaultSettings} \cup SettingsStates \subseteq SettingsState
    /\ Events \subseteq ExternalTradeEvent

ASSUME ActorAssumption ==
    /\ EventBusCapacity \in Nat \ {0} /\ DirectiveQueueCapacity \in Nat \ {0}
    /\ ExecutionQueueCapacity \in Nat \ {0} /\ BatchSize \in Nat \ {0}

VARIABLES
    settings,   \* table settings
    runs,       \* strategy_execution_runs: status, version, time of update
    tasks,      \* strategy_execution_tasks by id
    attempts,   \* strategy_execution_task_attempts: the task and its outcome
    job,        \* who holds the mutex, and how far it is
    bus,        \* market events the strategy engine has not read
    directives, executions,     \* the channels between the actors
    engine, planner,            \* what an actor has in hand for a full channel
    now,        \* seconds
    swaps,      \* history: trades on chain, with the crashes before each
    requests, crashes           \* so far

vars == <<settings, runs, tasks, attempts, job, bus, directives, executions,
          engine, planner, now, swaps, requests, crashes>>
db == <<settings, runs, tasks, attempts>>
actors == <<bus, directives, executions, engine, planner>>
history == <<now, swaps, requests, crashes>>

-----------------------------------------------------------------------------
(* Runs and tasks *)

\* get_latest_strategy_execution_run: updated last, then created last.
Latest ==
    CHOOSE r \in DOMAIN runs :
        \A s \in DOMAIN runs \ {r} :
            \/ runs[r].updated > runs[s].updated
            \/ (runs[r].updated = runs[s].updated /\ r > s)
HasRun == runs # <<>>

\* update_strategy_execution_run_status
UpdateRun(r, version, status) ==
    runs' = [runs EXCEPT ![r] =
                 [status |-> status, version |-> version, updated |-> now]]

RowsOf(r, version) ==
    {id \in DOMAIN tasks : tasks[id].run = r /\ tasks[id].version = version
                           /\ tasks[id].status # "deleted"}
Pending(r, version) == {id \in RowsOf(r, version) : tasks[id].status = "pending"}

NewRows(r, version, plan) ==
    [n \in DOMAIN plan |-> [run |-> r, version |-> version, intent |-> n,
                            status |-> "pending"]]

\* replace_strategy_execution_tasks, one transaction.
ReplaceStrategyExecutionTasks(r, version, plan) ==
    tasks' = [id \in DOMAIN tasks |->
                 IF id \in RowsOf(r, version)
                 THEN [tasks[id] EXCEPT !.status = "deleted"] ELSE tasks[id]]
             \o NewRows(r, version, plan)

-----------------------------------------------------------------------------
(* Messages *)

\* broadcast::Sender::send: the oldest event is lost when the bus is full.
Publish(s, e) ==
    Append(IF Len(s) = EventBusCapacity THEN Tail(s) ELSE s, e)

\* publish_execution_attempts
PublishFills(s, outcomes) ==
    LET told[n \in 0..Len(outcomes)] ==
            IF n = 0 THEN s
            ELSE Publish(told[n - 1], [type |-> "OrderFilled", run |-> outcomes[n].run,
                                       status |-> outcomes[n].status])
    IN  told[Len(outcomes)]

\* What the planner is asked for a directive: to_planning_input.
PlanningInput(d) ==
    LET buy == Most(d.net, 0)
        sell == Most(0 - d.net, 0)
    IN  [buy |-> buy, sell |-> sell,
         total |-> Most(Most(d.volume, buy + sell), d.min), hint |-> Most(d.max, d.min)]

\* The net position an external trade calls for.
TargetNetPos(s, e) ==
    CASE s.objective = "accumulation" ->
            IF e.side = "Sell" THEN e.amount * s.absorb ELSE 0
      [] s.objective = "distribution" ->
            IF e.side = "Buy" THEN 0 - e.amount * s.follow ELSE 0
      [] s.objective = "shakeout" ->
            IF e.lossCut THEN e.amount
            ELSE IF e.side = "Buy" THEN 0 - e.amount * s.dump ELSE 0

Abs(x) == Most(x, 0 - x)

\* build_directive_for_external_trade
DirectiveForTrade(e) ==
    LET s == settings
        net == TargetNetPos(s, e)
    IN  IF \/ s.contract # "" /\ s.contract # e.contract
           \/ e.amount < s.threshold
           \/ ~ HasRun
           \/ Abs(net) < s.min
        THEN Nothing
        ELSE [run |-> Latest, net |-> net, volume |-> Abs(net), min |-> s.min,
              max |-> s.max, execute |-> e.execute]

\* build_directive_for_settings_update: s as it was when it was saved.
DirectiveForSettings(s) ==
    LET volume == Most(s.volume, Abs(s.net))
    IN  IF ~ HasRun \/ (volume <= 0 /\ s.net = 0) THEN Nothing
        ELSE [run |-> Latest, net |-> s.net, volume |-> volume, min |-> s.min,
              max |-> s.max, execute |-> FALSE]

-----------------------------------------------------------------------------
(* Requests *)

\* Nobody holds the mutex.
NoJob == [type |-> "none"]
Free == job = NoJob
Request == requests < MaxRequests /\ requests' = requests + 1

\* POST /api/settings: saved, then told to the strategy engine.
SaveSettings ==
    /\ Free /\ Request
    /\ \E s \in SettingsStates :
           /\ settings' = s
           /\ bus' = Publish(bus, [type |-> "SettingsUpdated", settings |-> s])
    /\ UNCHANGED <<runs, tasks, attempts, job, directives, executions, engine,
                   planner, now, swaps, crashes>>

\* POST /api/strategy/events: the contract is the settings' when none is given.
ExternalTrade ==
    /\ Free /\ Request
    /\ \E e \in Events :
           LET contract == IF e.contract = "" THEN settings.contract ELSE e.contract
           IN  /\ contract # ""
               /\ bus' = Publish(bus, [type |-> "ExternalTrade",
                                       event |-> [e EXCEPT !.contract = contract]])
    /\ UNCHANGED <<db, job, directives, executions, engine, planner,
                   now, swaps, crashes>>

\* POST /api/trade with both confirmations (orchestrate_trade): the run.
CreateRun ==
    /\ Free /\ Request
    /\ Len(runs) < MaxRuns
    /\ \E t \in Trades :
           /\ GeneratePlan(t) # NoPlan
           /\ runs' = Append(runs, [status |-> "planned", version |-> 1,
                                    updated |-> now])
           /\ job' = [type |-> "plan", by |-> "trade", run |-> Len(runs) + 1,
                      version |-> 1, plan |-> GeneratePlan(t), at |-> "replace",
                      status |-> "executing", again |-> t.delayed,
                      execute |-> FALSE]
    /\ UNCHANGED <<settings, tasks, attempts, actors, now, swaps, crashes>>

\* The rows of a plan, then the run that adopts them; a delayed trade is planned
\* once more.
ReplaceTasks ==
    /\ ~ Free /\ job.type = "plan" /\ job.at = "replace"
    /\ ReplaceStrategyExecutionTasks(job.run, job.version, job.plan)
    /\ job' = [job EXCEPT !.at = "adopt"]
    /\ UNCHANGED <<settings, runs, attempts, actors, history>>

AdoptPlan ==
    /\ ~ Free /\ job.type = "plan" /\ job.at = "adopt"
    /\ UpdateRun(job.run, job.version, job.status)
    /\ job' = IF job.again
              THEN [job EXCEPT !.again = FALSE, !.version = @ + 1,
                               !.at = "replace", !.status = "replanned"]
              ELSE NoJob
    /\ planner' = IF job.execute THEN [run |-> job.run] ELSE planner
    /\ UNCHANGED <<settings, tasks, attempts, bus, directives, executions, engine, history>>

-----------------------------------------------------------------------------
(* Execution: consume_strategy_execution_tasks *)

\* Mutant: rows of any version.
OldestPendingOfRun(r, version, max) ==
    LET P == {id \in DOMAIN tasks : tasks[id].run = r /\ tasks[id].status = "pending"}
    IN  {id \in P : Cardinality({k \in P : k < id}) < max}

\* Rows still to do, oldest first, up to the limit.
OldestPending(r, version, max) ==
    LET P == Pending(r, version)
    IN  {id \in P : Cardinality({k \in P : k < id}) < max}

StartConsuming(r, max, by) ==
    job' = [type |-> "consume", by |-> by, run |-> r, version |-> runs[r].version,
            rows |-> OldestPending(r, runs[r].version, max), outcome |-> Nothing,
            at |-> "trade", done |-> <<>>]

\* POST /api/strategy/execution/consume, and GET with execute: the latest run.
ConsumeRequest ==
    /\ Free /\ Request
    /\ HasRun
    /\ \E max \in {1, BatchSize} : StartConsuming(Latest, max, "http")
    /\ UNCHANGED <<db, actors, now, swaps, crashes>>

Current == CHOOSE id \in job.rows : \A k \in job.rows : id <= k
Consuming(at) == ~ Free /\ job.type = "consume" /\ job.at = at

\* execute: nothing is sent, or a swap that is confirmed, or one whose
\* confirmation fails or does not come in time.
Execute ==
    /\ Consuming("trade") /\ job.rows # {}
    /\ \E sent, seen \in BOOLEAN :
           /\ seen => sent
           /\ swaps' = IF sent
                       THEN Append(swaps, [task |-> Current, crashes |-> crashes])
                       ELSE swaps
           /\ job' = [job EXCEPT !.at = "task",
                          !.outcome = IF seen THEN "executed" ELSE "failed"]
    /\ UNCHANGED <<db, actors, now, requests, crashes>>

\* Mutant: a failed order stays pending.
UpdateTaskIfExecuted ==
    /\ Consuming("task")
    /\ tasks' = IF job.outcome = "executed"
                THEN [tasks EXCEPT ![Current].status = job.outcome] ELSE tasks
    /\ job' = [job EXCEPT !.at = "attempt"]
    /\ UNCHANGED <<settings, runs, attempts, actors, history>>

\* The task's row, and the row of the attempt.
UpdateTask ==
    /\ Consuming("task")
    /\ tasks' = [tasks EXCEPT ![Current].status = job.outcome]
    /\ job' = [job EXCEPT !.at = "attempt"]
    /\ UNCHANGED <<settings, runs, attempts, actors, history>>

\* The row of the attempt, also of one that failed.
InsertAttempt ==
    /\ Consuming("attempt")
    /\ LET a == [task |-> Current, run |-> job.run, status |-> job.outcome]
       IN  /\ attempts' = Append(attempts, a)
           /\ job' = [job EXCEPT !.at = "trade", !.rows = @ \ {Current},
                                 !.outcome = Nothing, !.done = Append(@, a)]
    /\ UNCHANGED <<settings, runs, tasks, actors, history>>

StatusAfter ==
    LET failed == {id \in RowsOf(job.run, job.version) :
                       tasks[id].status = "failed"}
    IN  IF failed # {} THEN "failed"
        ELSE IF Pending(job.run, job.version) = {} THEN "completed"
        ELSE "executing"

\* The end of a batch: the run's status, and for the gateway the fills.
EndBatch ==
    /\ Consuming("trade") /\ job.rows = {}
    /\ UpdateRun(job.run, job.version, StatusAfter)
    /\ bus' = IF job.by = "gateway" THEN PublishFills(bus, job.done) ELSE bus
    /\ job' = NoJob
    /\ UNCHANGED <<settings, tasks, attempts, directives, executions, engine,
                   planner, history>>

\* The key of an account cannot be loaded: the batch ends there and then, the run
\* and the bus hear nothing of what was done.
WalletFails ==
    /\ Consuming("trade") /\ job.rows # {}
    /\ job' = NoJob
    /\ UNCHANGED <<db, actors, history>>

-----------------------------------------------------------------------------
(* Actors *)

\* run_strategy_engine; a fill is only logged.
ReadEvent ==
    /\ engine = Nothing /\ bus # <<>>
    /\ LET e == Head(bus)
       IN  /\ e.type # "OrderFilled" => Free
           /\ engine' = CASE e.type = "ExternalTrade" -> DirectiveForTrade(e.event)
                          [] e.type = "SettingsUpdated" ->
                                 DirectiveForSettings(e.settings)
                          [] e.type = "OrderFilled" -> Nothing
    /\ bus' = Tail(bus)
    /\ UNCHANGED <<db, job, directives, executions, planner, history>>

SendDirective ==
    /\ engine # Nothing /\ Len(directives) < DirectiveQueueCapacity
    /\ directives' = Append(directives, engine) /\ engine' = Nothing
    /\ UNCHANGED <<db, job, bus, executions, planner, history>>

\* run_planner_actor, persist_macro_directive: refused unless its run is the
\* latest and a plan exists.
ReadDirective ==
    /\ planner = Nothing /\ directives # <<>> /\ Free
    /\ LET d == Head(directives)
           plan == GeneratePlan(PlanningInput(d))
       IN  IF d.run # Latest \/ plan = NoPlan
           THEN UNCHANGED job
           ELSE /\ runs[d.run].version < MaxVersions
                /\ job' = [type |-> "plan", by |-> "planner", run |-> d.run,
                           version |-> runs[d.run].version + 1, plan |-> plan,
                           at |-> "replace", status |-> "replanned",
                           again |-> FALSE, execute |-> d.execute]
    /\ directives' = Tail(directives)
    /\ UNCHANGED <<db, bus, executions, engine, planner, history>>

SendExecution ==
    /\ planner # Nothing /\ Len(executions) < ExecutionQueueCapacity
    /\ executions' = Append(executions, planner) /\ planner' = Nothing
    /\ UNCHANGED <<db, job, bus, directives, engine, history>>

\* run_execution_gateway: the run of the request, latest or not.
ReadExecution ==
    /\ executions # <<>> /\ Free
    /\ StartConsuming(Head(executions).run, BatchSize, "gateway")
    /\ executions' = Tail(executions)
    /\ UNCHANGED <<db, bus, directives, engine, planner, history>>

-----------------------------------------------------------------------------

Init ==
    /\ settings = DefaultSettings
    /\ runs = <<>> /\ tasks = <<>> /\ attempts = <<>>
    /\ job = NoJob /\ engine = Nothing /\ planner = Nothing
    /\ bus = <<>> /\ directives = <<>> /\ executions = <<>>
    /\ now = 0 /\ swaps = <<>> /\ requests = 0 /\ crashes = 0

\* The process dies; what is in the database stays.
Crash ==
    /\ crashes < MaxCrashes /\ crashes' = crashes + 1
    /\ job' = NoJob /\ engine' = Nothing /\ planner' = Nothing
    /\ bus' = <<>> /\ directives' = <<>> /\ executions' = <<>>
    /\ UNCHANGED <<db, now, swaps, requests>>

Tick ==
    /\ now < MaxTime /\ now' = now + 1
    /\ UNCHANGED <<db, job, actors, swaps, requests, crashes>>

Actors ==
    \/ ReadEvent \/ SendDirective \/ ReadDirective \/ SendExecution
    \/ ReadExecution
Jobs ==
    \/ ReplaceTasks \/ AdoptPlan \/ Execute \/ UpdateTask \/ InsertAttempt
    \/ EndBatch

Next ==
    \/ SaveSettings \/ ExternalTrade \/ CreateRun \/ ConsumeRequest
    \/ Jobs \/ WalletFails \/ Actors \/ Crash \/ Tick

Spec == Init /\ [][Next]_vars

-----------------------------------------------------------------------------
(* Properties *)

\* A task is traded once, unless the process died between the swap and the
\* update of its row: then once more for each death.
TradedOnce ==
    \A i, j \in DOMAIN swaps :
        i # j /\ swaps[i].task = swaps[j].task => swaps[i].crashes # swaps[j].crashes

\* Once a new plan is adopted no order of an older one is traded, even by a batch
\* that was asked for before.
SupersededNotTraded ==
    [][\A i \in DOMAIN swaps' \ DOMAIN swaps :
           tasks[swaps'[i].task].version = runs[tasks[swaps'[i].task].run].version]_vars
=============================================================================
