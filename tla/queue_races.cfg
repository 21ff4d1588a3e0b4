\* Two requests at once: polls and deploys for one token.
SPECIFICATION QueueSpec
CONSTANTS
    d1 = d1
    d2 = d2
    d3 = d3
    o1 = o1
    o2 = o2
    Objects = {o1, o2}
    Docs = {d1, d2}
    ObjectOf <- TwoTokens
    Runs <- TwoRuns
    NoRun = 0
    Clients = {c1, c2}
    Ops = {"poll", "deploy"}
    MaxDeploys = 2
    Offered <- AnyOfTwo
    MaxOps = 0
    MaxDeaths = 0
INVARIANTS
    SerialQueue
