--------------------------- MODULE ManagedWallets ---------------------------
(***************************************************************************)
(* The wallets of one user and what they trade by hand: accounts           *)
(* (userStore.ts, api/adminWalletHandler.ts), balances read through the    *)
(* worker's cache (workerCore.ts), and trades                              *)
(* (services/strategyAutomationService.ts, executeManagedTradeTask) with   *)
(* their rows in trade_logs.  The requests run beside those of             *)
(* TokenRegistry, whose active pair and tracked mints they read.           *)
(*                                                                         *)
(* A trade is of one unit.  Time passes in steps of 15 seconds.  The       *)
(* chain is external: a signed transaction that a node accepted may land   *)
(* at any later time, once.  Keys, quotes, decimals and slippage are left  *)
(* out, as is SOL beyond whether a wallet has enough of it.                *)
(***************************************************************************)
EXTENDS TokenRegistry, SequencesExt

CONSTANTS
    Wallets,
    Named, Traded,  \* the wallets that requests name, the mints that trades name
    Derived,        \* the wallets of the recovery phrase, in order
    StartAccounts,  \* imported before: a sequence of wallets
    StartChain,     \* what they hold
    Capability,     \* the pair a wallet is for, None when it is for all
    NoReserve,      \* wallets with too little SOL to buy or sell
    CacheTTL,       \* WALLET_BALANCE_CACHE_TTL_MS
    Cooldown,       \* ACCOUNT_TRADE_COOLDOWN_MS
    MaxAttempts,    \* attempts per endpoint, 3 in the code
    MaxTime         \* bound

Mints == Bases \cup Quotes

ASSUME WalletAssumption ==
    /\ Derived \in Seq(Wallets) /\ IsInjective(Derived)
    /\ StartAccounts \in Seq(Wallets) /\ IsInjective(StartAccounts)
    /\ StartChain \in [Wallets -> [Mints -> Nat]]
    /\ Capability \in [Wallets -> Pairs \cup {None}]
    /\ NoReserve \subseteq Wallets /\ Named \subseteq Wallets /\ Traded \subseteq Bases /\ None \notin Wallets
    /\ CacheTTL \in Nat /\ Cooldown \in Nat \ {0} /\ MaxAttempts \in Nat \ {0}

VARIABLES
    accounts,   \* the rows by id: wallet, whether "on", "off" or "deleted"; snapshot
    cache,      \* the worker's cache of balances
    logs,       \* trade_logs by id
    now,        \* the clock
    chain,      \* what each wallet holds
    sent,       \* signed transactions a node accepted
    landed      \* those that the chain executed

wallets == <<accounts, cache, logs>>
world == <<now, chain, sent, landed>>
vars == <<registry, req, allowed, wallets, world>>

Min2(a, b) == IF a < b THEN a ELSE b
Max2(a, b) == IF a > b THEN a ELSE b

-----------------------------------------------------------------------------
(* Accounts *)

RowsOf(w) == {i \in DOMAIN accounts : accounts[i].wallet = w /\ accounts[i].state # "deleted"}
OnRows(w) == {i \in RowsOf(w) : accounts[i].state = "on"}

Row(w) == [wallet |-> w, state |-> "on", snapshot |-> None]

\* INSERT with UNIQUE (user, type, address).
Import(w) == accounts' = Append(accounts, Row(w))

\* accountCapabilityMatchesMintPair
Compatible(w, pair) == Capability[w] = None \/ Capability[w] = pair

ImportKey(r) ==
    /\ At(r, "key-import")
    /\ IF RowsOf(req[r].wallet) = {}
       THEN Import(req[r].wallet) /\ To(r, "done")
       ELSE To(r, "failed") /\ UNCHANGED accounts
    /\ UNCHANGED <<registry, allowed, cache, logs, world>>

\* Of how many derived wallets it is looked which are imported.
ScanCount(existing, count) == Min2(Cardinality(existing) + count, Len(Derived))

\* Which wallets of a recovery phrase are imported: the first missing ones.
Missing(existing, count) ==
    LET missing == {k \in 1..ScanCount(existing, count) : Derived[k] \notin existing}
    IN  {k \in missing : Cardinality({j \in missing : j <= k}) <= count}

ScanPhrase(r) ==
    /\ At(r, "scan")
    /\ LET existing == {w \in Wallets : RowsOf(w) # {}}
           todo == Missing(existing, req[r].count)
       IN  req' = [req EXCEPT ![r].todo = todo,
                              ![r].step = IF todo = {} THEN "failed" ELSE "import"]
    /\ UNCHANGED <<registry, allowed, wallets, world>>

\* One wallet after the other; one that was imported meanwhile ends it.
ImportNext(r) ==
    /\ At(r, "import")
    /\ \E k \in req[r].todo :
           /\ \A j \in req[r].todo : k <= j
           /\ IF RowsOf(Derived[k]) = {}
              THEN /\ Import(Derived[k])
                   /\ req' = [req EXCEPT ![r].todo = @ \ {k},
                                 ![r].step = IF req[r].todo = {k} THEN "done" ELSE "import"]
              ELSE To(r, "failed") /\ UNCHANGED accounts
    /\ UNCHANGED <<registry, allowed, cache, logs, world>>

\* PATCH and DELETE of a wallet: its row's id is read, then written to.
FindAccount(r) ==
    /\ At(r, "account")
    /\ LET rows == RowsOf(req[r].wallet)
       IN  req' = IF rows = {} THEN [req EXCEPT ![r].step = "failed"]
                  ELSE [req EXCEPT ![r].id = CHOOSE i \in rows : TRUE, ![r].step = "write"]
    /\ UNCHANGED <<registry, allowed, wallets, world>>

WriteAccount(r) ==
    /\ At(r, "write")
    /\ LET i == req[r].id
       IN  accounts' = IF accounts[i].state = "deleted" THEN accounts
                       ELSE [accounts EXCEPT ![i].state = req[r].to]
    /\ To(r, "done")
    /\ UNCHANGED <<registry, allowed, cache, logs, world>>

-----------------------------------------------------------------------------
(* Balances *)

\* Fresh entries of a wallet under the mints its balance covers.
Cached(w, mints) ==
    {c \in cache : c.wallet = w /\ c.mints = mints /\ now < c.at + CacheTTL}

\* loadWalletBalance, while its cache has no entry: SOL and USDC, then the tokens.
StartRead(r, w, mints) ==
    [req[r] EXCEPT !.wallet = w, !.mints = mints, !.step = "usdc"]

ReadUsdc(r) ==
    /\ At(r, "usdc")
    /\ req' = [req EXCEPT ![r].step = "tokens",
                  ![r].got = [amount |-> chain[req[r].wallet][Usdc],
                              asOf |-> Cardinality(landed), readAt |-> now]]
    /\ UNCHANGED <<registry, allowed, wallets, world>>

\* hasSufficientBalance, hasAnyPairTokenBalance: of the wallet a trade looks at.
Suffices(loc) ==
    /\ loc.wallet \notin NoReserve
    /\ LET mint == IF loc.side = "BUY" THEN Usdc ELSE loc.base
       IN  mint \in DOMAIN loc.got.amounts /\ loc.got.amounts[mint] >= 1

\* What a request does with a balance: a trade takes the wallet or looks on.
AfterRead(loc) ==
    IF loc.op # "trade" THEN [loc EXCEPT !.step = "store"]
    ELSE IF Suffices(loc) THEN [loc EXCEPT !.step = "key", !.id = Head(loc.todo)]
    ELSE [loc EXCEPT !.step = "judge", !.todo = Tail(@)]

\* The balance of the tokens that were read, into the cache.
ReadTokens(r) ==
    /\ At(r, "tokens")
    /\ \E read \in SUBSET req[r].mints :
           LET w == req[r].wallet
               c == [wallet |-> w, mints |-> req[r].mints, at |-> now,
                     asOf |-> req[r].got.asOf, readAt |-> req[r].got.readAt,
                     amounts |-> [m \in read \cup {Usdc} |->
                                     IF m = Usdc THEN req[r].got.amount ELSE chain[w][m]]]
           IN  /\ cache' = {d \in cache : ~ (d.wallet = w /\ d.mints = c.mints)} \cup {c}
               /\ req' = [req EXCEPT ![r] = AfterRead([@ EXCEPT !.got = c])]
    /\ UNCHANGED <<registry, allowed, accounts, logs, world>>

ReadFails(r) ==
    /\ At(r, "usdc")
    /\ To(r, "failed")
    /\ UNCHANGED <<registry, allowed, wallets, world>>

\* GET of a wallet's balance: from the cache when it is there.
LookUp(r) ==
    /\ At(r, "look")
    /\ LET w == req[r].wallet
           entries == Cached(w, req[r].mints)
       IN  req' = [req EXCEPT ![r] =
                      IF entries = {} THEN StartRead(r, w, @.mints)
                      ELSE AfterRead([@ EXCEPT !.got = CHOOSE c \in entries : TRUE])]
    /\ UNCHANGED <<registry, allowed, wallets, world>>

\* Mutant: the entry is deleted, and the cache looked into a step later.
InvalidateFirst(r) ==
    /\ At(r, "invalidate")
    /\ cache' = {c \in cache : c.wallet # req[r].wallet}
    /\ To(r, "look")
    /\ UNCHANGED <<registry, allowed, accounts, logs, world>>

\* A refresh, after a swap or from the page: without the cache.
Invalidate(r) ==
    /\ At(r, "invalidate")
    /\ cache' = {c \in cache : c.wallet # req[r].wallet}
    /\ req' = [req EXCEPT ![r] = StartRead(r, @.wallet, @.mints)]
    /\ UNCHANGED <<registry, allowed, accounts, logs, world>>

\* dbUpdateManagedAccountWalletBalanceSnapshot: a mint that was not read counts as 0.
StoreSnapshot(r) ==
    /\ At(r, "store")
    /\ LET got == req[r].got
           snapshot == [mint |-> req[r].mint,
                        amount |-> IF req[r].mint \in DOMAIN got.amounts
                                   THEN got.amounts[req[r].mint] ELSE 0]
       IN  accounts' = [i \in DOMAIN accounts |->
                           IF i \in RowsOf(req[r].wallet)
                           THEN [accounts[i] EXCEPT !.snapshot = snapshot] ELSE accounts[i]]
    /\ To(r, "done")
    /\ UNCHANGED <<registry, allowed, cache, logs, world>>

-----------------------------------------------------------------------------
(* Trades: executeManagedTradeTask *)

\* assertManagedAccountCapabilityMatchesTaskPair: the wallet of a controlled
\* execution must be one that is for a pair.
Suits(loc) ==
    /\ loc.op = "controlled" => Capability[loc.wallet] # None
    /\ Compatible(loc.wallet, <<loc.base, Usdc>>)

\* The wallet that is named must be enabled and for this pair.
CheckAccount(r) ==
    /\ At(r, "named")
    /\ LET rows == OnRows(req[r].wallet)
       IN  req' = IF rows = {} \/ ~ Suits(req[r])
                  THEN [req EXCEPT ![r].step = "failed"]
                  ELSE [req EXCEPT ![r].step = "key", ![r].id = CHOOSE i \in rows : TRUE]
    /\ UNCHANGED <<registry, allowed, wallets, world>>

\* Mutant: failed trades do not count.
UseTimesUnlessFailed(w) ==
    {logs[i].at : i \in {j \in DOMAIN logs : logs[j].wallet = w /\ logs[j].status # "FAILED"}}

\* MAX(updated_at) of a wallet's trade logs, whatever became of the trades.
UseTimes(w) == {logs[i].at : i \in {j \in DOMAIN logs : logs[j].wallet = w}}
LastUse(w) == FoldSet(Max2, 0, UseTimes(w))

\* compareLeastRecentlyUsed
LessRecent(i, j) ==
    LET v == accounts[i].wallet
        w == accounts[j].wallet
    IN  \/ UseTimes(v) = {} /\ UseTimes(w) # {}
        \/ UseTimes(v) # {} /\ UseTimes(w) # {} /\ LastUse(v) < LastUse(w)
        \/ (UseTimes(v) = {}) = (UseTimes(w) = {}) /\ LastUse(v) = LastUse(w) /\ i < j

\* getAvailableAccount: enabled wallets for this pair that have cooled down.
Candidates(base) ==
    {i \in DOMAIN accounts :
        LET w == accounts[i].wallet
        IN  /\ accounts[i].state = "on"
            /\ \A t \in UseTimes(w) : now - t >= Cooldown
            /\ Compatible(w, <<base, Usdc>>)}

\* Those that were used longest ago come first.
Ordered(S) ==
    {seq \in [1..Cardinality(S) -> S] :
        \A i, j \in DOMAIN seq : i < j => LessRecent(seq[i], seq[j])}

ListCandidates(r) ==
    /\ At(r, "pick")
    /\ \E todo \in Ordered(Candidates(req[r].base)) :
           req' = [req EXCEPT ![r].step = "judge", ![r].mints = TrackedMints,
                              ![r].todo = todo]
    /\ UNCHANGED <<registry, allowed, wallets, world>>

\* The next candidate's balance, from the cache or from the chain.
Judge(r) ==
    /\ At(r, "judge")
    /\ req' = [req EXCEPT ![r] =
                  IF @.todo = <<>> THEN [@ EXCEPT !.step = "failed"]
                  ELSE LET w == accounts[Head(@.todo)].wallet
                           entries == Cached(w, @.mints)
                       IN  IF entries = {} THEN StartRead(r, w, @.mints)
                           ELSE AfterRead([@ EXCEPT !.wallet = w,
                                               !.got = CHOOSE c \in entries : TRUE])]
    /\ UNCHANGED <<registry, allowed, wallets, world>>

\* The row is looked at once more by its id, then the key is read by address.
CheckKey(r) ==
    /\ At(r, "key")
    /\ To(r, IF accounts[req[r].id].state = "on" THEN "secret" ELSE "failed")
    /\ UNCHANGED <<registry, allowed, wallets, world>>

LoadKey(r) ==
    /\ At(r, "secret")
    /\ To(r, IF RowsOf(req[r].wallet) # {} THEN "log" ELSE "failed")
    /\ UNCHANGED <<registry, allowed, wallets, world>>

\* The decimals of a mint cannot be found.
DecimalsFail(r) ==
    /\ At(r, "log")
    /\ To(r, "failed")
    /\ UNCHANGED <<registry, allowed, wallets, world>>

\* A trade of a mint without a pair is not logged.
InsertLog(r) ==
    /\ At(r, "log")
    /\ IF HasTokenId(req[r].base)
       THEN /\ logs' = Append(logs, [wallet |-> req[r].wallet, status |-> "PENDING",
                                      signature |-> None, timed |-> FALSE, at |-> now, by |-> r])
            /\ req' = [req EXCEPT ![r].step = "quote", ![r].log = Len(logs) + 1]
       ELSE To(r, "quote") /\ UNCHANGED logs
    /\ UNCHANGED <<registry, allowed, accounts, cache, world>>

\* UPDATE of the request's row, if it has one; a signature or a time that is not
\* known leaves what the row says.
UpdateLog(r, status, signature, timed) ==
    logs' = [i \in DOMAIN logs |->
                IF i = req[r].log
                THEN [logs[i] EXCEPT !.status = status, !.at = now, !.timed = @ \/ timed,
                                     !.signature = IF signature = None THEN @ ELSE signature]
                ELSE logs[i]]

\* Quote and transaction from Jupiter; the trace is saved, the transaction signed:
\* another one than any that was built before, with a signature of its own.
Quote(r) ==
    /\ At(r, "quote")
    /\ UpdateLog(r, "PENDING", None, FALSE)
    /\ req' = [req EXCEPT ![r].step = "send", ![r].urls = PoolSize, ![r].tx = @ + 1]
    /\ UNCHANGED <<registry, allowed, accounts, cache, world>>

QuoteFails(r) ==
    /\ At(r, "quote")
    /\ To(r, "fail")
    /\ UNCHANGED <<registry, allowed, wallets, world>>

\* Of the transaction that r signed last.
Signature(r) == <<r, req[r].tx>>

\* Mutant: another attempt is made with another quote.
RetriedAnew(loc, retryable) ==
    IF retryable /\ loc.tries < MaxAttempts THEN [loc EXCEPT !.tries = @ + 1, !.step = "quote"]
    ELSE IF loc.url < loc.urls THEN [loc EXCEPT !.url = @ + 1, !.tries = 1]
    ELSE [loc EXCEPT !.step = "fail"]

\* solanaRpc: another attempt, the next endpoint, or an error.
Retried(loc, retryable) ==
    IF retryable /\ loc.tries < MaxAttempts THEN [loc EXCEPT !.tries = @ + 1]
    ELSE IF loc.url < loc.urls THEN [loc EXCEPT !.url = @ + 1, !.tries = 1]
    ELSE [loc EXCEPT !.step = "fail"]

\* An attempt that is answered with an error, or not answered; the node may
\* have taken the transaction all the same.
AttemptFails(r) ==
    /\ At(r, "send")
    /\ \E accepted, retryable \in BOOLEAN :
           /\ sent' = IF accepted THEN sent \cup {Signature(r)} ELSE sent
           /\ req' = [req EXCEPT ![r] = Retried(@, retryable)]
    /\ UNCHANGED <<registry, allowed, wallets, now, chain, landed>>

AttemptSucceeds(r) ==
    /\ At(r, "send")
    /\ sent' = sent \cup {Signature(r)}
    /\ req' = [req EXCEPT ![r].step = "record", ![r].signature = Signature(r)]
    /\ UNCHANGED <<registry, allowed, wallets, now, chain, landed>>

\* What a node says of the chain's time: it is known if the transaction has landed.
Times(r) == IF req[r].signature \in landed THEN BOOLEAN ELSE {FALSE}

\* The audit log, written next, may not take it.
Record(r) ==
    /\ At(r, "record")
    /\ \E timed \in Times(r) : UpdateLog(r, "PENDING", req[r].signature, timed)
    /\ \E step \in {"done", "fail"} : To(r, step)
    /\ UNCHANGED <<registry, allowed, accounts, cache, world>>

\* The row cannot be written.
RecordFails(r) ==
    /\ At(r, "record")
    /\ \E timed \in Times(r) : req' = [req EXCEPT ![r].step = "fail", ![r].timed = timed]
    /\ UNCHANGED <<registry, allowed, wallets, world>>

\* The row of a trade that threw gets the signature and the time if there are any.
MarkFailed(r) ==
    /\ At(r, "fail")
    /\ UpdateLog(r, "FAILED", req[r].signature, req[r].timed)
    /\ To(r, "failed")
    /\ UNCHANGED <<registry, allowed, accounts, cache, world>>

-----------------------------------------------------------------------------
(* The times of the chain, by a refresh of the transaction log *)

ReadUntimed(r) ==
    /\ At(r, "rows")
    /\ LET rows == {i \in DOMAIN logs : logs[i].signature # None /\ ~ logs[i].timed}
       IN  req' = [req EXCEPT ![r].rows = rows,
                              ![r].step = IF rows = {} THEN "done" ELSE "times"]
    /\ UNCHANGED <<registry, allowed, wallets, world>>

\* It also says that the row was updated.
WriteTimes(r) ==
    /\ At(r, "times")
    /\ \E found \in SUBSET {i \in req[r].rows : logs[i].signature \in landed} :
           logs' = [i \in DOMAIN logs |->
                       IF i \in found THEN [logs[i] EXCEPT !.timed = TRUE, !.at = now]
                       ELSE logs[i]]
    /\ To(r, "done")
    /\ UNCHANGED <<registry, allowed, accounts, cache, world>>

-----------------------------------------------------------------------------
(* The chain and the clock *)

\* A swap that its wallet cannot cover lands without effect.
Land(s) ==
    /\ s \in sent \ landed
    /\ landed' = landed \cup {s}
    /\ LET t == req[s[1]]
           from == IF t.side = "BUY" THEN Usdc ELSE t.base
           into == IF t.side = "BUY" THEN t.base ELSE Usdc
           spent == [chain EXCEPT ![t.wallet][from] = @ - 1]
       IN  chain' = IF chain[t.wallet][from] = 0 THEN chain
                    ELSE [spent EXCEPT ![t.wallet][into] = @ + 1]
    /\ UNCHANGED <<registry, req, allowed, wallets, now, sent>>

Tick ==
    /\ now < MaxTime
    /\ now' = now + 1
    /\ cache' = {c \in cache : now + 1 < c.at + CacheTTL}
    /\ UNCHANGED <<registry, req, allowed, accounts, logs, chain, sent, landed>>

-----------------------------------------------------------------------------

\* The task of a trade, with the wallet w if one is named.  History: the logged
\* trades that are over.
TradeTask(op, side, base, w) ==
    [op |-> op, step |-> IF w = None THEN "pick" ELSE "named",
     side |-> side, base |-> base, wallet |-> w, named |-> w # None,
     id |-> 0, todo |-> <<>>, mints |-> {}, got |-> None, log |-> 0,
     urls |-> 0, url |-> 1, tries |-> 1, tx |-> 0, signature |-> None, timed |-> FALSE,
     over |-> {[wallet |-> logs[i].wallet, at |-> logs[i].at] :
                  i \in {j \in DOMAIN logs : req[logs[j].by].step \in Ended}}]

\* POST /api/trade
BeginTrade(r) ==
    \E side \in {"BUY", "SELL"}, w \in Named \cup {None},
       base \in (Traded \cup {settings.base}) \ {None} :
        Begin(r, TradeTask("trade", side, base, w))

\* POST /api/strategy/execution/consume: a trade of the active strategy's pair,
\* by the wallet the request names.
BeginControlled(r) ==
    \E side \in {"BUY", "SELL"}, w \in Wallets, base \in Bases :
        Begin(r, TradeTask("controlled", side, base, w))

\* GET of a balance, and a refresh: the settings and the tracked mints are read first.
BeginBalance(r) ==
    \E w \in Named, op \in {"balance", "refresh"} :
        Begin(r, [op |-> op, step |-> IF op = "balance" THEN "look" ELSE "invalidate",
                  wallet |-> w, mint |-> settings.base, mints |-> TrackedMints,
                  got |-> None, began |-> Cardinality(landed)])

BeginAccount(r) ==
    \/ \E w \in Named : Begin(r, [op |-> "key", step |-> "key-import", wallet |-> w])
    \/ \E n \in 1..Len(Derived) :
           Begin(r, [op |-> "import", step |-> "scan", count |-> n, todo |-> {}])
    \/ \E w \in Named, to \in {"on", "off", "deleted"} :
           Begin(r, [op |-> "account", step |-> "account", wallet |-> w, to |-> to, id |-> 0])

\* The user sends USDC to a wallet, from elsewhere.
Deposit(r) ==
    /\ IsNext(r)
    /\ \E w \in Named :
           /\ Begin(r, [op |-> "deposit", step |-> "done", wallet |-> w])
           /\ chain' = [chain EXCEPT ![w][Usdc] = @ + 1]
    /\ landed' = landed \cup {<<r, 1>>}
    /\ UNCHANGED <<registry, wallets, now, sent>>

BeginBackfill(r) == Begin(r, [op |-> "backfill", step |-> "rows", rows |-> {}])

BeginWallets(r) ==
    /\ IsNext(r)
    /\ \/ BeginTrade(r) \/ BeginControlled(r) \/ BeginBalance(r)
       \/ BeginAccount(r) \/ BeginBackfill(r)
    /\ UNCHANGED <<registry, wallets, world>>

WalletStep(r) ==
    \/ BeginWallets(r)
    \/ ImportKey(r) \/ ScanPhrase(r) \/ ImportNext(r) \/ FindAccount(r) \/ WriteAccount(r)
    \/ ReadUsdc(r) \/ ReadTokens(r) \/ ReadFails(r)
    \/ LookUp(r) \/ Invalidate(r) \/ StoreSnapshot(r)
    \/ CheckAccount(r) \/ ListCandidates(r) \/ Judge(r) \/ CheckKey(r) \/ LoadKey(r)
    \/ DecimalsFail(r) \/ InsertLog(r) \/ Quote(r) \/ QuoteFails(r)
    \/ AttemptFails(r) \/ AttemptSucceeds(r) \/ Record(r) \/ RecordFails(r)
    \/ MarkFailed(r)
    \/ ReadUntimed(r) \/ WriteTimes(r)

Init ==
    /\ RegistryInit
    /\ accounts = [i \in DOMAIN StartAccounts |-> Row(StartAccounts[i])]
    /\ cache = {} /\ logs = <<>>
    /\ now = 0 /\ chain = StartChain /\ sent = {} /\ landed = {}

Next ==
    \/ \E r \in Requests : RegistryStep(r) /\ UNCHANGED <<wallets, world>>
    \/ \E r \in Requests : WalletStep(r) \/ Deposit(r)
    \/ \E s \in sent : Land(s)
    \/ Tick

Spec == Init /\ [][Next]_vars

-----------------------------------------------------------------------------
(* Properties *)

\* However often its transaction is sent, to however many endpoints, and
\* whatever answers are lost, a trade swaps once, and where its row in the log
\* names a transaction, failed or not, that one is the only one to land.
SwapLandsOnce ==
    /\ \A r \in Requests : Cardinality({s \in landed : s[1] = r}) <= 1
    /\ \A i \in DOMAIN logs :
           logs[i].signature # None => \A s \in landed : s[1] = logs[i].by => s = logs[i].signature

\* A wallet that is chosen for a trade is judged by a balance that was read after
\* every logged trade of it that was over when this one began: the cooldown
\* outlasts the cache.  A read that took longer than the difference is exempt.
BalanceFollowsTrades ==
    \A r \in Requests :
        req[r].op = "trade" /\ req[r].id # 0 /\ ~ req[r].named =>
            \A o \in req[r].over :
                o.wallet = req[r].wallet =>
                    \/ req[r].got.readAt > o.at
                    \/ req[r].got.at - req[r].got.readAt > Cooldown - CacheTTL

\* A refresh stores what was read from the chain after it began, also while
\* other requests read the same balance and fill the cache.
RefreshIsCurrent ==
    \A r \in Requests :
        req[r].op = "refresh" /\ req[r].step = "done" => req[r].got.asOf >= req[r].began
=============================================================================
