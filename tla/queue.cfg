\* One request at a time, any of which may die, over two tokens.
SPECIFICATION FairQueueSpec
CONSTANTS
    d1 = d1
    d2 = d2
    d3 = d3
    o1 = o1
    o2 = o2
    Objects = {o1, o2}
    Docs = {d1, d2, d3}
    ObjectOf <- TwoTokens
    Runs <- ThreeRuns
    NoRun = 0
    Clients = {c1}
    Ops = {"poll", "deploy", "resume", "abort", "pause", "cancel", "webhook"}
    MaxDeploys = 3
    Offered <- InTurn
    MaxOps = 2
    MaxDeaths = 1
INVARIANTS
    SerialQueue
    CompletedWasRun
PROPERTIES
    AbortStopsQueue
    QueueAdvances
    EndingIsRecorded
