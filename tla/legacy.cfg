\* Trades, events and settings over two runs, with a crash.
SPECIFICATION Spec
CONSTANTS
    Nothing = Nothing
    Pool <- TwoAccounts
    MaxMicroTasks = 4
    Trades <- SomeTrades
    DefaultSettings <- Unset
    SettingsStates <- SomeSettings
    Events <- SomeEvents
    EventBusCapacity = 2
    DirectiveQueueCapacity = 1
    ExecutionQueueCapacity = 1
    BatchSize = 2
    MaxRuns = 2
    MaxVersions = 3
    MaxRequests = 4
    MaxCrashes = 1
    MaxTime = 1
INVARIANTS
    TradedOnce
PROPERTIES
    SupersededNotTraded
\* Requests end.
CHECK_DEADLOCK FALSE
