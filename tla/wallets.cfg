\* Trades, balances, accounts and pairs of one user.
SPECIFICATION Spec
CONSTANTS
    b1 = b1
    b2 = b2
    usdc = usdc
    w1 = w1
    w2 = w2
    w3 = w3
    MaxRequests = 3
    None = None
    Bases <- TwoBases
    Usdc = usdc
    Quotes <- OneQuote
    Urls = {u1}
    StartTokens <- Tracked
    StartSettings <- ActiveB
    Mixes <- SomeMixes
    Wallets <- ThreeWallets
    Named <- OneWallet
    Traded = {}
    Derived <- Phrase
    StartAccounts <- TwoImported
    StartChain <- Holdings
    Capability <- ForPair
    NoReserve = {}
    CacheTTL = 1
    Cooldown = 2
    MaxAttempts = 2
    MaxTime = 2
INVARIANTS
    SwapLandsOnce
    BalanceFollowsTrades
    RefreshIsCurrent
    DeletedIsCleared
\* When the requests are over nothing is left to do.
CHECK_DEADLOCK FALSE
