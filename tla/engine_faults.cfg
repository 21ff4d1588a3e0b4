\* A transaction delivered twice, a crash and every user operation; or two
\* transactions, one of them answered with a smaller target, a pause and a resume.
SPECIFICATION Spec
CONSTANTS
    x1 = x1
    x2 = x2
    Runs = {r1}
    NoRun = NoRun
    NoTx = NoTx
    EventVolume <- OneUnit
    MaxAlarmRetries = 1
    Txs = {x1, x2}
    BasePlan <- OneTask
    TargetVolume = 1
    EventKind <- DipAndReduction
    MaxDeduped = 2
    MaxPlans = 3
    FaultTxs = {x1}
    MaxDeliveries = 2
    MaxCrashes = 1
    MaxUserOps = 1
    UserOps = {"pause", "resume", "abort", "clear"}
INVARIANTS
    TypeOK
    WakesUp
    NoTaskTwice
    CreditedWasTraded
    EventCountsOnce
    SupersededNotExecuted
PROPERTIES
    KeepsLifecycle
    NoOvercredit
\* A settled run has nothing left to do.
CHECK_DEADLOCK FALSE
