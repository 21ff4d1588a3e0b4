\* One webhook during a run that then completes.
SPECIFICATION Spec
CONSTANTS
    x1 = x1
    x2 = x2
    Runs = {r1}
    NoRun = NoRun
    NoTx = NoTx
    EventVolume <- OneUnit
    MaxAlarmRetries = 1
    Txs = {x1}
    BasePlan <- OneTask
    TargetVolume = 1
    EventKind <- NoEvents
    MaxDeduped = 2
    MaxPlans = 1
    FaultTxs = {x1}
    MaxDeliveries = 1
    MaxCrashes = 0
    MaxUserOps = 0
    UserOps = {}
INVARIANTS
    CompletionNamesRun
\* A settled run has nothing left to do.
CHECK_DEADLOCK FALSE
