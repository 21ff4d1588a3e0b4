\* Two syncs of one token and two deliveries of one transfer.
SPECIFICATION Spec
CONSTANTS
    Wallets = {"a", "b"}
    ShardOf <- McShardOf
    TotalShards = 2
    MaxShards = 2
    Syncs = {s1, s2}
    NoRun = NoRun
    Deliveries = {d1, d2}
    From = "a"
    To = "b"
    Supply <- McSupply
    Tables <- McTables
SYMMETRY Symmetry
INVARIANTS
    DeltaMovesOnce
PROPERTIES
    CompletesToChain
    ProgressKept
\* Every request may be over.
CHECK_DEADLOCK FALSE
