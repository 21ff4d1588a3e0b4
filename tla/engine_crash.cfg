\* Two crashes during a run of two tasks without external events.
SPECIFICATION FairSpec
CONSTANTS
    x1 = x1
    x2 = x2
    Runs = {r1}
    NoRun = NoRun
    NoTx = NoTx
    EventVolume <- OneUnit
    MaxAlarmRetries = 1
    Txs = {}
    BasePlan <- TwoTasks
    TargetVolume = 3
    EventKind <- NoEvents
    MaxDeduped = 2
    MaxPlans = 0
    FaultTxs = {}
    MaxDeliveries = 0
    MaxCrashes = 2
    MaxUserOps = 0
    UserOps = {}
INVARIANTS
    TradesItsPlan
    CompletedIsDone
PROPERTIES
    Settles
\* A settled run has nothing left to do.
CHECK_DEADLOCK FALSE
