----------------------- MODULE ManagedWallets_proofs -----------------------
(***************************************************************************)
(* Theorems about the accounts, trades, balances and pairs of one user,    *)
(* for any number of requests, wallets, mints and endpoints.               *)
(*                                                                         *)
(* The invariant says of each request what its local variables mean, and   *)
(* of the state that requests share only what has a type.  A step writes   *)
(* the local variables of one request; the others' meaning survives it,    *)
(* because rows are never removed, times never go back (Grows), and what   *)
(* the active pair becomes is told to the deletions under way.             *)
(***************************************************************************)
EXTENDS ManagedWallets, FiniteSetTheorems, TLAPS

-----------------------------------------------------------------------------
(* Types *)

Mint == Mints \cup {None}
SettingsType == [base : Bases \cup {None}, quote : Quotes \cup {None}]
Snapshot == [mint : Bases \cup {None}, amount : Nat]
Account == [wallet : Wallets, state : {"on", "off", "deleted"}, snapshot : Snapshot \cup {None}]
Transactions == Requests \X Nat
LogRow == [wallet : Wallets \cup {None}, status : {"PENDING", "FAILED"},
           signature : Transactions \cup {None}, timed : BOOLEAN, at : Nat, by : Requests]

\* What SOL and USDC were when they were read; a balance.
Reading == [amount : Nat, asOf : Nat, readAt : Nat]
Amounts == UNION {[read -> Nat] : read \in SUBSET Mints}
Balance == [wallet : Wallets, mints : SUBSET Bases, at : Nat, asOf : Nat, readAt : Nat,
            amounts : Amounts]
Got == {None} \cup Reading \cup Balance

SaveType ==
    [op : {"save"}, step : {"find", "insert", "persist", "save"} \cup Ended,
     pair : (Bases \cup {None}) \X Quotes, to : SettingsType]
ActivateType ==
    [op : {"activate"}, step : {"save", "ensure", "find", "insert", "persist"} \cup Ended,
     pair : (Bases \cup {None}) \X Quotes, to : SettingsType]
CreateType == [op : {"create"}, step : {"find", "insert", "persist"} \cup Ended, pair : Pairs]
DeleteType ==
    [op : {"delete"}, step : {"read", "untrack", "active", "clear"} \cup Ended,
     pair : Pairs, again : BOOLEAN]
UrlType == [op : {"addUrl"}, step : {"add"} \cup Ended, url : Urls]
           \cup [op : {"dropUrl"}, step : {"endpoint", "drop"} \cup Ended, url : Urls]
KeyType == [op : {"key"}, step : {"key-import"} \cup Ended, wallet : Wallets]
ImportType ==
    [op : {"import"}, step : {"scan", "import"} \cup Ended, count : Nat,
     todo : SUBSET (1..Len(Derived))]
AccountType ==
    [op : {"account"}, step : {"account", "write"} \cup Ended, wallet : Wallets,
     to : {"on", "off", "deleted"}, id : Nat]
TradeType ==
    [op : {"trade", "controlled"},
     step : {"pick", "named", "judge", "usdc", "tokens", "key", "secret", "log", "quote",
             "send", "record", "fail"} \cup Ended,
     side : {"BUY", "SELL"}, base : Bases, wallet : Wallets \cup {None}, named : BOOLEAN,
     id : Nat, todo : Seq(Nat), mints : SUBSET Bases, got : Got, log : Nat,
     urls : Nat, url : Nat, tries : Nat, tx : Nat, signature : Transactions \cup {None},
     timed : BOOLEAN,
     over : SUBSET [wallet : Wallets \cup {None}, at : Nat]]
BalanceType ==
    [op : {"balance"}, step : {"look", "usdc", "tokens", "store"} \cup Ended,
     wallet : Wallets, mint : Bases \cup {None}, mints : SUBSET Bases, got : Got, began : Nat]
RefreshType ==
    [op : {"refresh"}, step : {"invalidate", "usdc", "tokens", "store"} \cup Ended,
     wallet : Wallets, mint : Bases \cup {None}, mints : SUBSET Bases, got : Got, began : Nat]
DepositType == [op : {"deposit"}, step : {"done"}, wallet : Wallets]
BackfillType == [op : {"backfill"}, step : {"rows", "times"} \cup Ended, rows : SUBSET Nat]

Locals ==
    {Idle} \cup SaveType \cup ActivateType \cup CreateType \cup DeleteType \cup UrlType
    \cup KeyType \cup ImportType \cup AccountType \cup TradeType \cup BalanceType
    \cup RefreshType \cup DepositType \cup BackfillType

\* Every variable but allowed, which only bounds the runs, has its type.
SharedTypeOK ==
    /\ settings \in SettingsType
    /\ tokens \in [Pairs -> {"none", "tracked", "deleted"}]
    /\ endpoints \in SUBSET Urls /\ IsFiniteSet(endpoints)
    /\ accounts \in Seq(Account)
    /\ cache \in SUBSET Balance
    /\ logs \in Seq(LogRow)
    /\ now \in Nat
    /\ chain \in [Wallets -> [Mints -> Nat]]
    /\ sent \in SUBSET Transactions
    /\ landed \in SUBSET Transactions /\ IsFiniteSet(landed)

WalletTypeOK == SharedTypeOK /\ req \in [Requests -> Locals]

-----------------------------------------------------------------------------
(* What the local variables of a request mean *)

\* Where a request that reads a balance has it.
ReadingFits(r) ==
    /\ req[r].step = "tokens" => req[r].got \in Reading /\ req[r].wallet \in Wallets
    /\ req[r].step = "usdc" => req[r].wallet \in Wallets
    /\ req[r].step = "store" => req[r].got \in Balance

\* What is read after a refresh began has seen what had landed by then.
RefreshFits(r) ==
    req[r].op = "refresh" =>
        /\ req[r].began <= Cardinality(landed)
        /\ req[r].step \in {"tokens", "store", "done"} => req[r].got.asOf >= req[r].began

\* A trade that was over has kept its row, and the row's time only grows.
OverAreLogged(r) ==
    \A o \in req[r].over :
        \E j \in DOMAIN logs : logs[j].wallet = o.wallet /\ o.at <= logs[j].at

\* A wallet has cooled down since its trades that were over when r began.
CooledDown(r, w) ==
    \A o \in req[r].over : o.wallet = w => o.at + Cooldown <= now

\* The balance that r has is of a time after those trades, or took long to read.
IsRecent(r) ==
    \A o \in req[r].over :
        o.wallet = req[r].wallet =>
            \/ req[r].got.readAt > o.at
            \/ req[r].got.at - req[r].got.readAt > Cooldown - CacheTTL

\* A trade that picks its wallet.
TradeFits(r) ==
    /\ req[r].op = "controlled" => req[r].named
    /\ req[r].op \in {"trade", "controlled"} /\ req[r].named =>
           req[r].step \notin {"pick", "judge", "usdc", "tokens"}
    /\ req[r].op = "trade" /\ ~ req[r].named =>
           /\ req[r].step # "named"
           /\ OverAreLogged(r)
           /\ req[r].step \in {"pick", "judge", "usdc", "tokens"} => req[r].id = 0
           /\ req[r].step \in {"judge", "usdc", "tokens"} =>
                  \A k \in DOMAIN req[r].todo :
                      /\ req[r].todo[k] \in DOMAIN accounts
                      /\ CooledDown(r, accounts[req[r].todo[k]].wallet)
           /\ req[r].step \in {"usdc", "tokens"} =>
                  req[r].todo # <<>> /\ CooledDown(r, req[r].wallet)
           /\ req[r].step = "tokens" =>
                  \A o \in req[r].over : o.wallet = req[r].wallet => req[r].got.readAt > o.at
           /\ req[r].id # 0 => IsRecent(r)

\* A deletion that is done has left another pair active, or been told.
DeleteFits(r) ==
    req[r].op = "delete" /\ req[r].step = "done" =>
        NamedPair(settings) # req[r].pair \/ req[r].again

Fits(r) == ReadingFits(r) /\ RefreshFits(r) /\ TradeFits(r) /\ DeleteFits(r)

\* The rows' times are past.
LogsArePast == \A j \in DOMAIN logs : logs[j].at <= now

WalletInv == WalletTypeOK /\ LogsArePast /\ \A r \in Requests : Fits(r)
-----------------------------------------------------------------------------
(* Which request is at which step *)

\* The type of a request's local variables goes by what it is.
LEMMA LocalByOp ==
    ASSUME NEW l \in Locals
    PROVE  /\ l.op = "none" => l = Idle
           /\ l.op = "save" => l \in SaveType
           /\ l.op = "activate" => l \in ActivateType
           /\ l.op = "create" => l \in CreateType
           /\ l.op = "delete" => l \in DeleteType
           /\ l.op \in {"addUrl", "dropUrl"} => l \in UrlType
           /\ l.op = "key" => l \in KeyType
           /\ l.op = "import" => l \in ImportType
           /\ l.op = "account" => l \in AccountType
           /\ l.op \in {"trade", "controlled"} => l \in TradeType
           /\ l.op = "balance" => l \in BalanceType
           /\ l.op = "refresh" => l \in RefreshType
           /\ l.op = "deposit" => l \in DepositType
           /\ l.op = "backfill" => l \in BackfillType
BY DEF Locals, Idle, SaveType, ActivateType, CreateType, DeleteType, UrlType, KeyType,
       ImportType, AccountType, TradeType, BalanceType, RefreshType, DepositType, BackfillType

\* What a request is goes by its step.
LEMMA OpByStep ==
    ASSUME NEW l \in Locals
    PROVE  /\ l.step \in {"find", "insert", "persist"} => l.op \in {"save", "activate", "create"}
           /\ l.step = "save" => l.op \in {"save", "activate"}
           /\ l.step = "ensure" => l.op = "activate"
           /\ l.step \in {"read", "untrack", "active", "clear"} => l.op = "delete"
           /\ l.step = "add" => l.op = "addUrl"
           /\ l.step \in {"endpoint", "drop"} => l.op = "dropUrl"
           /\ l.step = "key-import" => l.op = "key"
           /\ l.step \in {"scan", "import"} => l.op = "import"
           /\ l.step \in {"account", "write"} => l.op = "account"
           /\ l.step \in {"pick", "named", "judge", "key", "secret", "log", "quote",
                          "send", "record", "fail"} => l.op \in {"trade", "controlled"}
           /\ l.step = "look" => l.op = "balance"
           /\ l.step = "invalidate" => l.op = "refresh"
           /\ l.step \in {"usdc", "tokens"} =>
                  l.op \in {"trade", "controlled", "balance", "refresh"}
           /\ l.step = "store" => l.op \in {"balance", "refresh"}
           /\ l.step \in {"rows", "times"} => l.op = "backfill"
BY DEF Locals, Idle, SaveType, ActivateType, CreateType, DeleteType, UrlType, KeyType,
       ImportType, AccountType, TradeType, BalanceType, RefreshType, DepositType, BackfillType,
       Ended

\* A trade, at another step.
LEMMA TradeAt ==
    ASSUME NEW l \in TradeType, NEW s,
           s \in {"key", "secret", "log", "quote", "fail"} \cup Ended
    PROVE  [l EXCEPT !.step = s] \in TradeType
BY SMTT(60) DEF TradeType

\* Where a request may go on.
LEMMA MayGo ==
    ASSUME NEW l \in Locals, NEW s
    PROVE  /\ l.op \notin {"none", "deposit"} /\ s \in Ended => [l EXCEPT !.step = s] \in Locals
           /\ l.op = "save" /\ s \in {"insert", "persist", "save"} =>
                  [l EXCEPT !.step = s] \in Locals
           /\ l.op = "activate" /\ s \in {"ensure", "find", "insert", "persist"} =>
                  [l EXCEPT !.step = s] \in Locals
           /\ l.op = "create" /\ s \in {"insert", "persist"} => [l EXCEPT !.step = s] \in Locals
           /\ l.op = "delete" /\ s \in {"untrack", "active", "clear"} =>
                  [l EXCEPT !.step = s] \in Locals
           /\ l.op = "dropUrl" /\ s = "drop" => [l EXCEPT !.step = s] \in Locals
           /\ l.op \in {"trade", "controlled"} /\ s \in {"key", "secret", "log", "quote", "fail"} =>
                  [l EXCEPT !.step = s] \in Locals
<1>1. ASSUME l.op = "save", s \in {"insert", "persist", "save"} \cup Ended
      PROVE  [l EXCEPT !.step = s] \in Locals
  <2>1. l \in SaveType  BY <1>1, LocalByOp
  <2>2. [l EXCEPT !.step = s] \in SaveType  BY <1>1, <2>1 DEF SaveType
  <2>3. QED  BY <2>2 DEF Locals
<1>2. ASSUME l.op = "activate", s \in {"ensure", "find", "insert", "persist"} \cup Ended
      PROVE  [l EXCEPT !.step = s] \in Locals
  <2>1. l \in ActivateType  BY <1>2, LocalByOp
  <2>2. [l EXCEPT !.step = s] \in ActivateType  BY <1>2, <2>1 DEF ActivateType
  <2>3. QED  BY <2>2 DEF Locals
<1>3. ASSUME l.op = "create", s \in {"insert", "persist"} \cup Ended
      PROVE  [l EXCEPT !.step = s] \in Locals
  <2>1. l \in CreateType  BY <1>3, LocalByOp
  <2>2. [l EXCEPT !.step = s] \in CreateType  BY <1>3, <2>1 DEF CreateType
  <2>3. QED  BY <2>2 DEF Locals
<1>4. ASSUME l.op = "delete", s \in {"untrack", "active", "clear"} \cup Ended
      PROVE  [l EXCEPT !.step = s] \in Locals
  <2>1. l \in DeleteType  BY <1>4, LocalByOp
  <2>2. [l EXCEPT !.step = s] \in DeleteType  BY <1>4, <2>1 DEF DeleteType
  <2>3. QED  BY <2>2 DEF Locals
<1>5. ASSUME l.op \in {"trade", "controlled"},
             s \in {"key", "secret", "log", "quote", "fail"} \cup Ended
      PROVE  [l EXCEPT !.step = s] \in Locals
  <2>1. l \in TradeType  BY <1>5, LocalByOp
  <2>2. [l EXCEPT !.step = s] \in TradeType  BY <1>5, <2>1, TradeAt
  <2>3. QED  BY <2>2 DEF Locals
<1>6. ASSUME l.op \in {"addUrl", "dropUrl"}, s \in {"drop"} \cup Ended,
             s = "drop" => l.op = "dropUrl"
      PROVE  [l EXCEPT !.step = s] \in Locals
  <2>1. l \in UrlType  BY <1>6, LocalByOp
  <2>2. [l EXCEPT !.step = s] \in UrlType  BY <1>6, <2>1 DEF UrlType
  <2>3. QED  BY <2>2 DEF Locals
<1>7. ASSUME l.op \in {"key", "import", "account", "backfill"}, s \in Ended
      PROVE  [l EXCEPT !.step = s] \in Locals
  <2>1. \/ l \in KeyType \/ l \in ImportType \/ l \in AccountType \/ l \in BackfillType
        BY <1>7, LocalByOp
  <2>2. \/ [l EXCEPT !.step = s] \in KeyType \/ [l EXCEPT !.step = s] \in ImportType
        \/ [l EXCEPT !.step = s] \in AccountType \/ [l EXCEPT !.step = s] \in BackfillType
        BY <1>7, <2>1 DEF KeyType, ImportType, AccountType, BackfillType
  <2>3. QED  BY <2>2 DEF Locals
<1>8. ASSUME l.op \in {"balance", "refresh"}, s \in Ended
      PROVE  [l EXCEPT !.step = s] \in Locals
  <2>1. l \in BalanceType \cup RefreshType  BY <1>8, LocalByOp
  <2>2. [l EXCEPT !.step = s] \in BalanceType \cup RefreshType
        BY <1>8, <2>1 DEF BalanceType, RefreshType
  <2>3. QED  BY <2>2 DEF Locals
<1>9. l.op \in {"none", "save", "activate", "create", "delete", "addUrl", "dropUrl", "key",
                "import", "account", "trade", "controlled", "balance", "refresh", "deposit",
                "backfill"}
      BY DEF Locals, Idle, SaveType, ActivateType, CreateType, DeleteType, UrlType, KeyType,
         ImportType, AccountType, TradeType, BalanceType, RefreshType, DepositType, BackfillType
<1>10. s \in Ended /\ l.op \notin {"none", "deposit"} => [l EXCEPT !.step = s] \in Locals
  <2> SUFFICES ASSUME s \in Ended, l.op \notin {"none", "deposit"}
               PROVE  [l EXCEPT !.step = s] \in Locals
      OBVIOUS
  <2>1. CASE l.op \in {"save", "activate", "create", "delete"}
        BY <1>1, <1>2, <1>3, <1>4, <2>1, Zenon
  <2>2. CASE l.op \in {"trade", "controlled"}  BY <1>5, <2>2, Zenon
  <2>3. CASE l.op \in {"addUrl", "dropUrl"}
    <3>1. s \in {"drop"} \cup Ended /\ s # "drop"  BY DEF Ended
    <3>2. QED  BY <1>6, <2>3, <3>1
  <2>4. CASE l.op \in {"key", "import", "account", "backfill", "balance", "refresh"}
        BY <1>7, <1>8, <2>4, Zenon
  <2>5. QED  BY <1>9, <2>1, <2>2, <2>3, <2>4
<1>11. QED  BY <1>1, <1>2, <1>3, <1>4, <1>5, <1>6, <1>10

\* It keeps its other local variables.
LEMMA GoesWith ==
    ASSUME NEW l \in Locals, NEW s
    PROVE  /\ [l EXCEPT !.step = s].op = l.op /\ [l EXCEPT !.step = s].step = s
           /\ l.op = "refresh" =>
                  /\ [l EXCEPT !.step = s].began = l.began
                  /\ [l EXCEPT !.step = s].got = l.got
           /\ l.op = "delete" =>
                  /\ [l EXCEPT !.step = s].pair = l.pair
                  /\ [l EXCEPT !.step = s].again = l.again
           /\ l.op \in {"trade", "controlled"} =>
                  /\ [l EXCEPT !.step = s].named = l.named
                  /\ [l EXCEPT !.step = s].id = l.id
                  /\ [l EXCEPT !.step = s].wallet = l.wallet
                  /\ [l EXCEPT !.step = s].got = l.got
                  /\ [l EXCEPT !.step = s].over = l.over
                  /\ [l EXCEPT !.step = s].tx = l.tx
                  /\ [l EXCEPT !.step = s].signature = l.signature
                  /\ [l EXCEPT !.step = s].log = l.log
BY DEF Locals, Idle, SaveType, ActivateType, CreateType, DeleteType, UrlType, KeyType,
       ImportType, AccountType, TradeType, BalanceType, RefreshType, DepositType, BackfillType

-----------------------------------------------------------------------------
(* What survives a step *)

\* Rows stay, their times and the clock do not go back, what landed has landed.
Grows ==
    /\ \A i \in DOMAIN accounts :
           i \in DOMAIN accounts' /\ accounts'[i].wallet = accounts[i].wallet
    /\ \A j \in DOMAIN logs :
           j \in DOMAIN logs' /\ logs'[j].wallet = logs[j].wallet /\ logs[j].at <= logs'[j].at
    /\ now <= now'
    /\ Cardinality(landed) <= Cardinality(landed')

Others(r) == \A q \in Requests \ {r} : req'[q] = req[q]

\* A step of r that keeps the invariant and leaves the active pair.
Steps(r) ==
    /\ SharedTypeOK' /\ LogsArePast' /\ Grows /\ settings' = settings
    /\ req' \in [Requests -> Locals] /\ Others(r) /\ Fits(r)'

\* The elements of a sequence.
LEMMA Elements ==
    ASSUME NEW S, NEW s \in Seq(S)
    PROVE  \A i \in DOMAIN s : i \in Nat /\ i # 0 /\ s[i] \in S
OBVIOUS

\* The times, the rows and the accounts are numbers and rows of their types.
LEMMA Sizes ==
    ASSUME WalletInv
    PROVE  /\ now \in Nat /\ Cardinality(landed) \in Nat
           /\ Cooldown \in Nat /\ Cooldown > 0 /\ CacheTTL \in Nat
           /\ \A j \in DOMAIN logs : j \in Nat /\ logs[j] \in LogRow /\ logs[j].at \in Nat
           /\ \A i \in DOMAIN accounts : i \in Nat /\ i # 0 /\ accounts[i] \in Account
<1>1. SharedTypeOK  BY DEF WalletInv, WalletTypeOK
<1>2. logs \in Seq(LogRow) /\ accounts \in Seq(Account) /\ now \in Nat /\ IsFiniteSet(landed)
      BY <1>1 DEF SharedTypeOK
<1>3. \A j \in DOMAIN logs : j \in Nat /\ logs[j] \in LogRow  BY <1>2, Elements
<1>4. \A l \in LogRow : l.at \in Nat  BY DEF LogRow
<1>5. \A i \in DOMAIN accounts : i \in Nat /\ i # 0 /\ accounts[i] \in Account
      BY <1>2, Elements
<1>6. Cardinality(landed) \in Nat  BY <1>2, FS_CardinalityType
<1>7. QED  BY <1>2, <1>3, <1>4, <1>5, <1>6, WalletAssumption

\* A request's variables have their types, and mean what its step says.
LEMMA IsLocal ==
    ASSUME WalletInv, NEW r \in Requests
    PROVE  req[r] \in Locals /\ Fits(r)
BY DEF WalletInv, WalletTypeOK

\* What a trade has passed over is dated.
LEMMA OverType ==
    ASSUME WalletInv, NEW q \in Requests, req[q].op \in {"trade", "controlled"}
    PROVE  /\ \A o \in req[q].over : o.at \in Nat
           /\ req[q].id \in Nat /\ req[q].todo \in Seq(Nat)
<1>1. req[q] \in TradeType  BY IsLocal, LocalByOp
<1>2. QED  BY <1>1 DEF TradeType

\* What a request's local variables mean outlives what another request does.
LEMMA FitsOutlives ==
    ASSUME WalletInv, Grows, now' \in Nat, Cardinality(landed)' \in Nat,
           \A j \in DOMAIN logs' : logs'[j].at \in Nat,
           NEW q \in Requests, req'[q] = req[q]
    PROVE  /\ ReadingFits(q)' /\ RefreshFits(q)' /\ TradeFits(q)'
           /\ settings' = settings => DeleteFits(q)'
<1>1. Fits(q)  BY IsLocal
<1>2. ReadingFits(q)'  BY <1>1 DEF Fits, ReadingFits
<1>3. RefreshFits(q)'
  <2>1. CASE req[q].op # "refresh"  BY <2>1 DEF RefreshFits
  <2>2. CASE req[q].op = "refresh"
    <3>1. req[q] \in RefreshType  BY <2>2, IsLocal, LocalByOp
    <3>2. req[q].began \in Nat  BY <3>1 DEF RefreshType
    <3>3. QED  BY <1>1, <2>2, <3>2, Sizes DEF Fits, RefreshFits, Grows
  <2>3. QED  BY <2>1, <2>2
<1>4. TradeFits(q)'
  <2>1. CASE ~ (req[q].op = "trade" /\ ~ req[q].named)  BY <1>1, <2>1 DEF Fits, TradeFits
  <2>2. CASE req[q].op = "trade" /\ ~ req[q].named
    <3>1. \A o \in req[q].over : o.at \in Nat  BY <2>2, OverType
    <3>2. OverAreLogged(q)'
      <4>1. SUFFICES ASSUME NEW o \in req[q].over
                     PROVE  \E j \in DOMAIN logs' : logs'[j].wallet = o.wallet /\ o.at <= logs'[j].at
            BY DEF OverAreLogged
      <4>2. PICK j \in DOMAIN logs : logs[j].wallet = o.wallet /\ o.at <= logs[j].at
            BY <1>1, <2>2 DEF Fits, TradeFits, OverAreLogged
      <4>3. QED  BY <4>2, <3>1, Sizes DEF Grows
    <3>3. ASSUME NEW w, CooledDown(q, w)
          PROVE  \A o \in req'[q].over : o.wallet = w => o.at + Cooldown <= now'
          BY <3>1, <3>3, Sizes DEF CooledDown, Grows
    <3>4. req[q].step \in {"judge", "usdc", "tokens"} =>
              \A k \in DOMAIN req'[q].todo :
                  /\ req'[q].todo[k] \in DOMAIN accounts'
                  /\ \A o \in req'[q].over : o.wallet = accounts'[req'[q].todo[k]].wallet
                                                => o.at + Cooldown <= now'
          BY <1>1, <2>2, <3>3 DEF Fits, TradeFits, Grows
    <3>5. req[q].step \in {"usdc", "tokens"} => req[q].todo # <<>> /\ CooledDown(q, req[q].wallet)'
          BY <1>1, <2>2, <3>3 DEF Fits, TradeFits, CooledDown
    <3>6. IsRecent(q) => IsRecent(q)'  BY DEF IsRecent
    <3>7. QED  BY <1>1, <2>2, <3>2, <3>4, <3>5, <3>6 DEF Fits, TradeFits, CooledDown
  <2>3. QED  BY <2>1, <2>2
<1>5. settings' = settings => DeleteFits(q)'  BY <1>1 DEF Fits, DeleteFits, NamedPair
<1>6. QED  BY <1>2, <1>3, <1>4, <1>5

\* A step that writes one request and lets the others mean what they meant keeps all.
LEMMA StepKeeps ==
    ASSUME WalletInv, NEW r \in Requests, Steps(r)
    PROVE  WalletInv'
<1>1. now' \in Nat /\ Cardinality(landed)' \in Nat
      BY FS_CardinalityType DEF Steps, SharedTypeOK
<1>2. \A j \in DOMAIN logs' : logs'[j].at \in Nat
  <2>1. logs' \in Seq(LogRow)  BY DEF Steps, SharedTypeOK
  <2>2. \A l \in LogRow : l.at \in Nat  BY DEF LogRow
  <2>3. QED  BY <2>1, <2>2, Elements
<1>3. ASSUME NEW q \in Requests  PROVE Fits(q)'
  <2>1. CASE q = r  BY <2>1 DEF Steps
  <2>2. CASE q # r
    <3>1. req'[q] = req[q]  BY <2>2 DEF Steps, Others
    <3>2. QED  BY <1>1, <1>2, <3>1, FitsOutlives DEF Steps, Fits
  <2>3. QED  BY <2>1, <2>2
<1>4. QED  BY <1>3 DEF Steps, WalletInv, WalletTypeOK

\* Nothing that requests share has changed.
LEMMA SharedStays ==
    ASSUME WalletInv, UNCHANGED <<registry, wallets, world>>
    PROVE  SharedTypeOK' /\ LogsArePast' /\ Grows /\ settings' = settings
BY Sizes DEF WalletInv, WalletTypeOK, SharedTypeOK, LogsArePast, Grows, registry, wallets, world

\* What r does with the trades that were over when it began.
LEMMA OverStayLogged ==
    ASSUME WalletInv, Grows, NEW r \in Requests, req[r].op \in {"trade", "controlled"},
           OverAreLogged(r), req'[r].over = req[r].over, now' \in Nat,
           \A j \in DOMAIN logs' : logs'[j].at \in Nat
    PROVE  OverAreLogged(r)'
<1>1. SUFFICES ASSUME NEW o \in req[r].over
               PROVE  \E j \in DOMAIN logs' : logs'[j].wallet = o.wallet /\ o.at <= logs'[j].at
      BY DEF OverAreLogged
<1>2. PICK j \in DOMAIN logs : logs[j].wallet = o.wallet /\ o.at <= logs[j].at
      BY DEF OverAreLogged
<1>3. QED  BY <1>2, OverType, Sizes DEF Grows

\* What r may go on to, and with what.
AtEnd(r) ==
    /\ req[r].op = "refresh" => req[r].got.asOf >= req[r].began
    /\ req[r].op = "delete" => NamedPair(settings) # req[r].pair \/ req[r].again

Onward == {"find", "insert", "persist", "save", "ensure", "untrack", "active", "clear", "drop",
           "key", "secret", "log", "quote", "fail", "failed", "dead", "done"}

\* A step that only says how r goes on.
LEMMA GoesOn ==
    ASSUME WalletInv, NEW r \in Requests, NEW s \in Onward, To(r, s),
           [req[r] EXCEPT !.step = s] \in Locals, s = "done" => AtEnd(r),
           SharedTypeOK', LogsArePast', Grows, settings' = settings
    PROVE  Steps(r)
<1> DEFINE l == [req[r] EXCEPT !.step = s]
<1>1. req' = [req EXCEPT ![r] = l]  BY DEF To
<1>2. req' \in [Requests -> Locals] /\ Others(r) /\ req'[r] = l
      BY <1>1 DEF WalletInv, WalletTypeOK, Others
<1>3. Fits(r) /\ req[r] \in Locals  BY IsLocal
<1>4. now' \in Nat /\ Cardinality(landed)' \in Nat
      BY FS_CardinalityType DEF SharedTypeOK
<1>5. \A j \in DOMAIN logs' : logs'[j].at \in Nat
  <2>1. logs' \in Seq(LogRow)  BY DEF SharedTypeOK
  <2>2. \A m \in LogRow : m.at \in Nat  BY DEF LogRow
  <2>3. QED  BY <2>1, <2>2, Elements
<1>6. l.step = s /\ l.op = req[r].op  BY <1>3, GoesWith
<1> HIDE DEF l
<1>7. ReadingFits(r)'  BY <1>2, <1>6 DEF ReadingFits, Onward
<1>8. RefreshFits(r)'
  <2>1. CASE req[r].op # "refresh"  BY <2>1, <1>2, <1>6 DEF RefreshFits
  <2>2. CASE req[r].op = "refresh"
    <3>1. l.began = req[r].began /\ l.got = req[r].got  BY <2>2, <1>3, GoesWith DEF l
    <3>2. req[r].began \in Nat  BY <2>2, <1>3, LocalByOp DEF RefreshType
    <3>3. l.began <= Cardinality(landed)'
          BY <1>3, <1>4, <2>2, <3>1, <3>2, Sizes DEF Fits, RefreshFits, Grows
    <3>4. l.step \in {"tokens", "store", "done"} => l.got.asOf >= l.began
          BY <1>6, <2>2, <3>1 DEF AtEnd, Onward
    <3>5. QED  BY <1>2, <3>3, <3>4 DEF RefreshFits
  <2>3. QED  BY <2>1, <2>2
<1>9. TradeFits(r)'
  <2>1. CASE req[r].op \notin {"trade", "controlled"}  BY <2>1, <1>2, <1>6 DEF TradeFits
  <2>2. CASE req[r].op \in {"trade", "controlled"}
    <3>1. /\ l.named = req[r].named /\ l.id = req[r].id /\ l.wallet = req[r].wallet
          /\ l.got = req[r].got /\ l.over = req[r].over
          BY <2>2, <1>3, GoesWith DEF l
    <3>2. OverAreLogged(r) => OverAreLogged(r)'
          BY <1>2, <1>4, <1>5, <2>2, <3>1, OverStayLogged
    <3>3. IsRecent(r) => IsRecent(r)'  BY <1>2, <3>1 DEF IsRecent
    <3>4. QED  BY <1>2, <1>3, <1>6, <3>1, <3>2, <3>3 DEF Fits, TradeFits, Onward
  <2>3. QED  BY <2>1, <2>2
<1>10. DeleteFits(r)'
  <2>1. CASE req[r].op # "delete"  BY <2>1, <1>2, <1>6 DEF DeleteFits
  <2>2. CASE req[r].op = "delete"
    <3>1. l.pair = req[r].pair /\ l.again = req[r].again  BY <2>2, <1>3, GoesWith DEF l
    <3>2. QED  BY <1>2, <1>6, <2>2, <3>1 DEF DeleteFits, AtEnd, NamedPair
  <2>3. QED  BY <2>1, <2>2
<1>11. QED  BY <1>2, <1>7, <1>8, <1>9, <1>10 DEF Fits, Steps

\* It also leaves what requests share.
LEMMA JustGoesOn ==
    ASSUME WalletInv, NEW r \in Requests, NEW s \in Onward, To(r, s),
           [req[r] EXCEPT !.step = s] \in Locals, s = "done" => AtEnd(r),
           UNCHANGED <<registry, wallets, world>>
    PROVE  Steps(r)
BY SharedStays, GoesOn

\* A step that writes the local variables of r only.
LEMMA LocalStep ==
    ASSUME WalletInv, NEW r \in Requests, NEW l \in Locals, req' = [req EXCEPT ![r] = l],
           UNCHANGED <<registry, wallets, world>>, Fits(r)'
    PROVE  Steps(r)
<1>1. req' \in [Requests -> Locals] /\ Others(r)  BY DEF WalletInv, WalletTypeOK, Others
<1>2. QED  BY <1>1, SharedStays DEF Steps
-----------------------------------------------------------------------------
(* Pairs, the active pair and the endpoints *)

\* The tracked pair is inserted, or persisted, and the request goes on.
LEMMA TrackSteps ==
    ASSUME WalletInv, NEW r \in Requests, Track(r), UNCHANGED <<wallets, world>>,
           req[r].step \in {"insert", "persist"}
    PROVE  Steps(r)
<1>1. req[r] \in Locals  BY IsLocal
<1>2. req[r].op \in {"save", "activate", "create"}  BY <1>1, OpByStep
<1>3. /\ AfterCreate(r) \in Onward /\ To(r, AfterCreate(r))
      /\ [req[r] EXCEPT !.step = AfterCreate(r)] \in Locals
      BY <1>1, <1>2, MayGo DEF AfterCreate, Onward, Track, Ended
<1>4. SharedTypeOK /\ LogsArePast  BY DEF WalletInv, WalletTypeOK
<1>5. SharedTypeOK' /\ LogsArePast' /\ settings' = settings
      BY <1>4 DEF Track, SharedTypeOK, LogsArePast, wallets, world
<1>6. Grows  BY Sizes DEF Grows, wallets, world
<1>7. QED  BY <1>2, <1>3, <1>5, <1>6, GoesOn DEF AtEnd

\* PutSettings(r, to) of a request that saves, or that clears what it deletes.
LEMMA PutKeeps ==
    ASSUME WalletInv, NEW r \in Requests, NEW to \in SettingsType, PutSettings(r, to),
           UNCHANGED <<wallets, world>>,
           \/ req[r].op \in {"save", "activate"}
           \/ req[r].op = "delete" /\ to.base = None /\ to.quote = None
    PROVE  WalletInv'
<1>1. SharedTypeOK /\ LogsArePast  BY DEF WalletInv, WalletTypeOK
<1>2. SharedTypeOK' /\ LogsArePast'
      BY <1>1 DEF PutSettings, SharedTypeOK, LogsArePast, wallets, world
<1>3. Grows  BY Sizes DEF Grows, wallets, world
<1>4. now' \in Nat /\ Cardinality(landed)' \in Nat /\ \A j \in DOMAIN logs' : logs'[j].at \in Nat
      BY Sizes DEF wallets, world
<1>5. ASSUME NEW q \in Requests  PROVE req'[q] \in Locals /\ Fits(q)'
  <2>1. req[q] \in Locals /\ req[r] \in Locals /\ Fits(q)  BY IsLocal
  <2>2. CASE q = r
    <3> DEFINE s == IF req[r].op = "activate" /\ to.base # None THEN "ensure" ELSE "done"
    <3>1. req'[q] = [req[r] EXCEPT !.step = s]  BY <2>2 DEF PutSettings
    <3>2. s \in {"ensure", "done"} /\ (s = "ensure" => req[r].op = "activate")  OBVIOUS
    <3> HIDE DEF s
    <3>3. /\ req'[q] \in Locals /\ req'[q].step = s /\ req'[q].op = req[r].op
          /\ req[r].op = "delete" => req'[q].pair = req[r].pair
          BY <2>1, <3>1, <3>2, MayGo, GoesWith DEF Ended
    <3>4. ReadingFits(q)' /\ RefreshFits(q)' /\ TradeFits(q)'
          BY <3>2, <3>3 DEF ReadingFits, RefreshFits, TradeFits
    <3>5. DeleteFits(q)'
      <4>1. CASE req[r].op # "delete"  BY <4>1, <3>3 DEF DeleteFits
      <4>2. CASE req[r].op = "delete"
        <5>1. req[r].pair \in Pairs  BY <2>1, <4>2, LocalByOp DEF DeleteType
        <5>2. req[r].pair[1] \in Bases  BY <5>1 DEF Pairs
        <5>3. settings' = to  BY DEF PutSettings
        <5>4. NamedPair(settings)'[1] = None  BY <4>2, <5>3 DEF NamedPair
        <5>5. req'[q].pair[1] # None  BY <3>3, <4>2, <5>2, RegistryAssumption
        <5>6. QED  BY <5>4, <5>5 DEF DeleteFits
      <4>3. QED  BY <4>1, <4>2
    <3>6. QED  BY <3>3, <3>4, <3>5 DEF Fits
  <2>3. CASE q # r /\ req[q].op = "delete" /\ NamedPair(to) = req[q].pair
    <3>1. req'[q] = [req[q] EXCEPT !.again = TRUE]  BY <2>3 DEF PutSettings
    <3>2. req[q] \in DeleteType  BY <2>1, <2>3, LocalByOp
    <3>3. req'[q] \in DeleteType /\ req'[q].again  BY <3>1, <3>2 DEF DeleteType
    <3>4. req'[q] \in Locals  BY <3>3 DEF Locals
    <3>5. req'[q].op = "delete" /\ req'[q].step \notin {"tokens", "usdc", "store"}
          BY <3>3 DEF DeleteType, Ended
    <3>6. QED  BY <3>3, <3>4, <3>5 DEF Fits, ReadingFits, RefreshFits, TradeFits, DeleteFits
  <2>4. CASE q # r /\ ~ (req[q].op = "delete" /\ NamedPair(to) = req[q].pair)
    <3>1. req'[q] = req[q] /\ settings' = to  BY <2>4 DEF PutSettings
    <3>2. ReadingFits(q)' /\ RefreshFits(q)' /\ TradeFits(q)'
          BY <1>3, <1>4, <3>1, FitsOutlives
    <3>3. DeleteFits(q)'  BY <2>4, <3>1 DEF DeleteFits, NamedPair
    <3>4. QED  BY <2>1, <3>1, <3>2, <3>3 DEF Fits
  <2>5. QED  BY <2>2, <2>3, <2>4
<1>6. req' \in [Requests -> Locals]  BY <1>5 DEF PutSettings
<1>7. QED  BY <1>2, <1>5, <1>6 DEF WalletInv, WalletTypeOK

\* A request that begins.
LEMMA BeginSteps ==
    ASSUME WalletInv, NEW r \in Requests, NEW l \in Locals, Begin(r, l),
           l.op \notin {"refresh", "trade", "controlled"},
           l.step \notin {"usdc", "tokens", "store"}, l.op = "delete" => l.step # "done",
           UNCHANGED <<registry, wallets, world>>
    PROVE  WalletInv'
<1>1. req' = [req EXCEPT ![r] = l]  BY DEF Begin
<1>2. req'[r] = l  BY <1>1 DEF WalletInv, WalletTypeOK
<1>3. Fits(r)'  BY <1>2 DEF Fits, ReadingFits, RefreshFits, TradeFits, DeleteFits
<1>4. QED  BY <1>1, <1>3, LocalStep, StepKeeps

\* Every step on the tracked pairs and the settings.
LEMMA RegistryKeeps ==
    ASSUME WalletInv, NEW r \in Requests, RegistryStep(r), UNCHANGED <<wallets, world>>
    PROVE  WalletInv'
<1>1. req[r] \in Locals /\ Fits(r)  BY IsLocal
<1>2. SharedTypeOK /\ LogsArePast  BY DEF WalletInv, WalletTypeOK
<1>3. CASE FindExisting(r)
  <2>1. req[r].op \in {"save", "activate", "create"}  BY <1>1, <1>3, OpByStep DEF FindExisting, At
  <2>2. PICK s \in {"insert", "persist"} : To(r, s)  BY <1>3 DEF FindExisting
  <2>3. [req[r] EXCEPT !.step = s] \in Locals  BY <1>1, <2>1, MayGo
  <2>4. QED  BY <1>3, <2>2, <2>3, JustGoesOn, StepKeeps DEF FindExisting, Onward
<1>4. CASE InsertToken(r)
  <2>1. req[r].step = "insert"  BY <1>4 DEF InsertToken, At
  <2>2. CASE Track(r)  BY <2>1, <2>2, TrackSteps, StepKeeps
  <2>3. CASE To(r, "persist") /\ UNCHANGED <<registry, allowed>>
    <3>1. [req[r] EXCEPT !.step = "persist"] \in Locals  BY <1>1, <2>1, MayGo, OpByStep
    <3>2. QED  BY <2>3, <3>1, JustGoesOn, StepKeeps DEF Onward
  <2>4. QED  BY <1>4, <2>2, <2>3 DEF InsertToken
<1>5. CASE PersistToken(r)  BY <1>5, TrackSteps, StepKeeps DEF PersistToken, At
<1>6. CASE CreateThrows(r)
  <2>1. req[r].op \in {"save", "activate", "create"}  BY <1>1, <1>6, OpByStep DEF CreateThrows
  <2>2. PICK s \in {"done", "failed"} : To(r, s)  BY <1>6 DEF CreateThrows
  <2>3. [req[r] EXCEPT !.step = s] \in Locals  BY <1>1, <2>1, MayGo DEF Ended
  <2>4. QED  BY <1>6, <2>1, <2>2, <2>3, JustGoesOn, StepKeeps DEF CreateThrows, Onward, AtEnd
<1>7. CASE SaveSettings(r)
  <2>1. req[r].op \in {"save", "activate"}  BY <1>1, <1>7, OpByStep DEF SaveSettings, At
  <2>2. req[r].to \in SettingsType  BY <1>1, <2>1, LocalByOp DEF SaveType, ActivateType
  <2>3. QED  BY <1>7, <2>1, <2>2, PutKeeps DEF SaveSettings
<1>8. CASE EnsureToken(r)
  <2>1. req[r].op = "activate"  BY <1>1, <1>8, OpByStep DEF EnsureToken, At
  <2>2. PICK s \in {"find", "done"} : To(r, s)  BY <1>8 DEF EnsureToken
  <2>3. [req[r] EXCEPT !.step = s] \in Locals  BY <1>1, <2>1, MayGo DEF Ended
  <2>4. QED  BY <1>8, <2>1, <2>2, <2>3, JustGoesOn, StepKeeps DEF EnsureToken, Onward, AtEnd
<1>9. CASE ReadToken(r)
  <2>1. req[r].op = "delete"  BY <1>1, <1>9, OpByStep DEF ReadToken, At
  <2>2. PICK s \in {"untrack", "failed"} : To(r, s)  BY <1>9 DEF ReadToken
  <2>3. [req[r] EXCEPT !.step = s] \in Locals  BY <1>1, <2>1, MayGo DEF Ended
  <2>4. QED  BY <1>9, <2>2, <2>3, JustGoesOn, StepKeeps DEF ReadToken, Onward
<1>10. CASE Untrack(r)
  <2>1. req[r].op = "delete"  BY <1>1, <1>10, OpByStep DEF Untrack, At
  <2>2. [req[r] EXCEPT !.step = "active"] \in Locals  BY <1>1, <2>1, MayGo
  <2>3. SharedTypeOK' /\ LogsArePast' /\ settings' = settings
        BY <1>2, <1>10 DEF Untrack, SharedTypeOK, LogsArePast, wallets, world
  <2>4. Grows  BY Sizes DEF Grows, wallets, world
  <2>5. QED  BY <1>10, <2>2, <2>3, <2>4, GoesOn, StepKeeps DEF Untrack, Onward
<1>11. CASE ReadActive(r)
  <2>1. req[r].op = "delete"  BY <1>1, <1>11, OpByStep DEF ReadActive, At
  <2>2. PICK s \in {"clear", "done"} : To(r, s) /\ (s = "done" => ActivePair # req[r].pair)
        BY <1>11 DEF ReadActive
  <2>3. [req[r] EXCEPT !.step = s] \in Locals  BY <1>1, <2>1, MayGo DEF Ended
  <2>4. s = "done" => AtEnd(r)  BY <2>1, <2>2 DEF AtEnd, ActivePair
  <2>5. QED  BY <1>11, <2>2, <2>3, <2>4, JustGoesOn, StepKeeps DEF ReadActive, Onward
<1>12. CASE ClearActive(r)
  <2>1. req[r].op = "delete"  BY <1>1, <1>12, OpByStep DEF ClearActive, At
  <2>2. [base |-> None, quote |-> None] \in SettingsType  BY DEF SettingsType
  <2>3. QED  BY <1>12, <2>1, <2>2, PutKeeps DEF ClearActive
<1>13. CASE AddEndpoint(r)
  <2>1. req[r].op = "addUrl"  BY <1>1, <1>13, OpByStep DEF AddEndpoint, At
  <2>2. req[r].url \in Urls  BY <1>1, <2>1, LocalByOp DEF UrlType
  <2>3. PICK s \in {"done", "failed"} : To(r, s)  BY <1>13 DEF AddEndpoint
  <2>4. [req[r] EXCEPT !.step = s] \in Locals  BY <1>1, <2>1, MayGo DEF Ended
  <2>5. IsFiniteSet(endpoints \cup {req[r].url})
        BY <1>2, FS_AddElement DEF SharedTypeOK
  <2>6. SharedTypeOK' /\ LogsArePast' /\ settings' = settings
        BY <1>2, <1>13, <2>2, <2>5 DEF AddEndpoint, SharedTypeOK, LogsArePast, registry,
           wallets, world
  <2>7. Grows  BY Sizes DEF Grows, wallets, world
  <2>8. QED  BY <2>1, <2>3, <2>4, <2>6, <2>7, GoesOn, StepKeeps DEF Onward, AtEnd
<1>14. CASE ReadEndpoint(r)
  <2>1. req[r].op = "dropUrl"  BY <1>1, <1>14, OpByStep DEF ReadEndpoint, At
  <2>2. PICK s \in {"drop", "failed"} : To(r, s)  BY <1>14 DEF ReadEndpoint
  <2>3. [req[r] EXCEPT !.step = s] \in Locals  BY <1>1, <2>1, MayGo DEF Ended
  <2>4. QED  BY <1>14, <2>2, <2>3, JustGoesOn, StepKeeps DEF ReadEndpoint, Onward
<1>15. CASE DeleteEndpoint(r)
  <2>1. req[r].op = "dropUrl"  BY <1>1, <1>15, OpByStep DEF DeleteEndpoint, At
  <2>2. [req[r] EXCEPT !.step = "done"] \in Locals  BY <1>1, <2>1, MayGo DEF Ended
  <2>3. IsFiniteSet(endpoints \ {req[r].url})
        BY <1>2, FS_RemoveElement DEF SharedTypeOK
  <2>4. SharedTypeOK' /\ LogsArePast' /\ settings' = settings
        BY <1>2, <1>15, <2>3 DEF DeleteEndpoint, SharedTypeOK, LogsArePast, wallets, world
  <2>5. Grows  BY Sizes DEF Grows, wallets, world
  <2>6. QED  BY <1>15, <2>1, <2>2, <2>4, <2>5, GoesOn, StepKeeps DEF DeleteEndpoint, Onward, AtEnd
<1>16. CASE BeginRegistry(r)
  <2>1. \A to \in Savable : to \in SettingsType /\ (to.base # None => to.base \in Bases)
        BY DEF Savable, SettingsType
  <2>2. PICK l \in Locals :
            /\ Begin(r, l)
            /\ l.op \in {"save", "activate", "create", "delete", "addUrl", "dropUrl"}
            /\ l.step \in {"save", "find", "read", "add", "endpoint"}
    <3>1. CASE BeginSave(r)
      <4>1. PICK to \in Savable :
                Begin(r, [op |-> "save", step |-> IF to.base = None THEN "save" ELSE "find",
                          pair |-> <<to.base, Usdc>>, to |-> to])
            BY <3>1 DEF BeginSave
      <4> DEFINE l == [op |-> "save", step |-> IF to.base = None THEN "save" ELSE "find",
                       pair |-> <<to.base, Usdc>>, to |-> to]
      <4>2. l \in SaveType  BY <2>1, RegistryAssumption DEF SaveType, SettingsType
      <4>3. l.op = "save" /\ l.step \in {"save", "find"}  OBVIOUS
      <4>4. QED  BY <4>1, <4>2, <4>3 DEF Locals
    <3>2. CASE BeginActivate(r)
      <4>1. PICK to \in Savable :
                Begin(r, [op |-> "activate", step |-> "save", pair |-> NamedPair(to), to |-> to])
            BY <3>2 DEF BeginActivate
      <4> DEFINE l == [op |-> "activate", step |-> "save", pair |-> NamedPair(to), to |-> to]
      <4>2. l \in ActivateType
            BY <2>1, RegistryAssumption DEF ActivateType, SettingsType, NamedPair
      <4>3. QED  BY <4>1, <4>2 DEF Locals
    <3>3. CASE BeginCreate(r)
      <4>1. PICK p \in Pairs : Begin(r, [op |-> "create", step |-> "find", pair |-> p])
            BY <3>3 DEF BeginCreate
      <4>2. [op |-> "create", step |-> "find", pair |-> p] \in CreateType  BY DEF CreateType
      <4>3. QED  BY <4>1, <4>2 DEF Locals
    <3>4. CASE BeginDelete(r)
      <4>1. PICK p \in Pairs :
                Begin(r, [op |-> "delete", step |-> "read", pair |-> p, again |-> FALSE])
            BY <3>4 DEF BeginDelete
      <4>2. [op |-> "delete", step |-> "read", pair |-> p, again |-> FALSE] \in DeleteType
            BY DEF DeleteType
      <4>3. QED  BY <4>1, <4>2 DEF Locals
    <3>5. CASE BeginAddEndpoint(r)
      <4>1. PICK u \in Urls : Begin(r, [op |-> "addUrl", step |-> "add", url |-> u])
            BY <3>5 DEF BeginAddEndpoint
      <4>2. [op |-> "addUrl", step |-> "add", url |-> u] \in UrlType  BY DEF UrlType
      <4>3. QED  BY <4>1, <4>2 DEF Locals
    <3>6. CASE BeginDeleteEndpoint(r)
      <4>1. PICK u \in Urls : Begin(r, [op |-> "dropUrl", step |-> "endpoint", url |-> u])
            BY <3>6 DEF BeginDeleteEndpoint
      <4>2. [op |-> "dropUrl", step |-> "endpoint", url |-> u] \in UrlType  BY DEF UrlType
      <4>3. QED  BY <4>1, <4>2 DEF Locals
    <3>7. QED  BY <1>16, <3>1, <3>2, <3>3, <3>4, <3>5, <3>6 DEF BeginRegistry
  <2>3. QED  BY <1>16, <2>2, BeginSteps DEF BeginRegistry
<1>17. CASE Dies(r)
  <2>1. req[r].op # "none" /\ req[r].step \notin Ended
        BY <1>17 DEF Dies, UnderWay, Began
  <2>2. req[r].op # "deposit"  BY <1>1, <2>1, LocalByOp DEF DepositType, Ended
  <2>3. [req[r] EXCEPT !.step = "dead"] \in Locals  BY <1>1, <2>1, <2>2, MayGo DEF Ended
  <2>4. QED  BY <1>17, <2>3, JustGoesOn, StepKeeps DEF Dies, Onward
<1>18. QED
  BY <1>3, <1>4, <1>5, <1>6, <1>7, <1>8, <1>9, <1>10, <1>11, <1>12, <1>13, <1>14, <1>15, <1>16,
     <1>17 DEF RegistryStep
-----------------------------------------------------------------------------
(* Accounts *)

\* A step that keeps what requests share, and writes l to the variables of r.
LEMMA WritesLocal ==
    ASSUME WalletInv, NEW r \in Requests, NEW l \in Locals, req' = [req EXCEPT ![r] = l],
           SharedTypeOK', LogsArePast', Grows, settings' = settings,
           l.op \notin {"refresh", "trade", "controlled"},
           l.step \notin {"usdc", "tokens", "store"}, l.op = "delete" => l.step # "done"
    PROVE  Steps(r)
<1>1. req' \in [Requests -> Locals] /\ Others(r) /\ req'[r] = l
      BY DEF WalletInv, WalletTypeOK, Others
<1>2. Fits(r)'  BY <1>1 DEF Fits, ReadingFits, RefreshFits, TradeFits, DeleteFits
<1>3. QED  BY <1>1, <1>2 DEF Steps

\* Importing a wallet changes no account that is there.
LEMMA ImportGrows ==
    ASSUME WalletInv, NEW w \in Wallets, Import(w), UNCHANGED <<registry, cache, logs, world>>
    PROVE  SharedTypeOK' /\ LogsArePast' /\ Grows /\ settings' = settings
<1>1. SharedTypeOK /\ LogsArePast  BY DEF WalletInv, WalletTypeOK
<1>2. Row(w) \in Account  BY DEF Row, Account
<1>3. accounts \in Seq(Account) /\ accounts' = Append(accounts, Row(w))
      BY <1>1 DEF SharedTypeOK, Import
<1>4. /\ accounts' \in Seq(Account)
      /\ \A i \in DOMAIN accounts : i \in DOMAIN accounts' /\ accounts'[i] = accounts[i]
      BY <1>2, <1>3
<1>5. SharedTypeOK' /\ LogsArePast' /\ settings' = settings
      BY <1>1, <1>4 DEF SharedTypeOK, LogsArePast, registry, world
<1>6. Grows  BY <1>4, Sizes DEF Grows, world
<1>7. QED  BY <1>5, <1>6

\* A wallet is imported by its key.
LEMMA ImportKeySteps ==
    ASSUME WalletInv, NEW r \in Requests, ImportKey(r)
    PROVE  Steps(r)
<1>1. req[r] \in Locals /\ req[r].op = "key"  BY IsLocal, OpByStep DEF ImportKey, At
<1>2. req[r].wallet \in Wallets  BY <1>1, LocalByOp DEF KeyType
<1>3. /\ [req[r] EXCEPT !.step = "done"] \in Locals
      /\ [req[r] EXCEPT !.step = "failed"] \in Locals
      BY <1>1, MayGo DEF Ended
<1>4. CASE Import(req[r].wallet) /\ To(r, "done")
  <2>1. SharedTypeOK' /\ LogsArePast' /\ Grows /\ settings' = settings
        BY <1>2, <1>4, ImportGrows DEF ImportKey
  <2>2. QED  BY <1>1, <1>3, <1>4, <2>1, GoesOn DEF Onward, AtEnd
<1>5. CASE To(r, "failed") /\ UNCHANGED accounts
  <2>1. UNCHANGED <<registry, wallets, world>>  BY <1>5 DEF ImportKey, wallets
  <2>2. QED  BY <1>3, <1>5, <2>1, JustGoesOn DEF Onward
<1>6. QED  BY <1>4, <1>5 DEF ImportKey

\* The accounts derived from a phrase that are missing are listed.
LEMMA ScanPhraseSteps ==
    ASSUME WalletInv, NEW r \in Requests, ScanPhrase(r)
    PROVE  Steps(r)
<1>1. req[r] \in Locals /\ req[r].op = "import"  BY IsLocal, OpByStep DEF ScanPhrase, At
<1>2. req[r] \in ImportType  BY <1>1, LocalByOp
<1> DEFINE existing == {w \in Wallets : RowsOf(w) # {}}
           todo == Missing(existing, req[r].count)
           l == [req[r] EXCEPT !.todo = todo, !.step = IF todo = {} THEN "failed" ELSE "import"]
<1>3. todo \in SUBSET (1..Len(Derived))
  <2>1. IsFiniteSet({accounts[i].wallet : i \in DOMAIN accounts})
    <3>1. accounts \in Seq(Account)  BY DEF WalletInv, WalletTypeOK, SharedTypeOK
    <3>2. IsFiniteSet(DOMAIN accounts)  BY <3>1, FS_Interval
    <3> DEFINE T == {accounts[i].wallet : i \in DOMAIN accounts}
               f == [i \in DOMAIN accounts |-> accounts[i].wallet]
    <3>3. f \in Surjection(DOMAIN accounts, T)  BY DEF Surjection
    <3>4. QED  BY <3>2, <3>3, FS_Surjection
  <2>2. existing \subseteq {accounts[i].wallet : i \in DOMAIN accounts}  BY DEF RowsOf
  <2>3. Cardinality(existing) \in Nat  BY <2>1, <2>2, FS_Subset, FS_CardinalityType
  <2>4. req[r].count \in Nat /\ Len(Derived) \in Nat
        BY <1>2, WalletAssumption DEF ImportType
  <2>5. ScanCount(existing, req[r].count) \in Nat
        /\ ScanCount(existing, req[r].count) <= Len(Derived)
        BY <2>3, <2>4 DEF ScanCount, Min2
  <2> HIDE DEF existing
  <2>6. Missing(existing, req[r].count) \subseteq 1..ScanCount(existing, req[r].count)
        BY DEF Missing
  <2>7. QED  BY <2>4, <2>5, <2>6
<1>4. req' = [req EXCEPT ![r].todo = todo, ![r].step = IF todo = {} THEN "failed" ELSE "import"]
      BY DEF ScanPhrase
<1> HIDE DEF todo
<1>5. req' = [req EXCEPT ![r] = l]  BY <1>2, <1>4 DEF WalletInv, WalletTypeOK, ImportType
<1>6. l \in ImportType  BY <1>2, <1>3 DEF ImportType, Ended
<1>7. l \in Locals /\ l.op = "import" /\ l.step \notin {"usdc", "tokens", "store"}
      BY <1>6 DEF Locals, ImportType, Ended
<1> HIDE DEF l
<1>8. QED  BY <1>5, <1>7, SharedStays, WritesLocal DEF ScanPhrase

\* They are imported one by one.
LEMMA ImportNextSteps ==
    ASSUME WalletInv, NEW r \in Requests, ImportNext(r)
    PROVE  Steps(r)
<1>1. req[r] \in Locals /\ req[r].op = "import"  BY IsLocal, OpByStep DEF ImportNext, At
<1>2. req[r] \in ImportType  BY <1>1, LocalByOp
<1>3. PICK k \in req[r].todo :
          IF RowsOf(Derived[k]) = {}
          THEN /\ Import(Derived[k])
               /\ req' = [req EXCEPT ![r].todo = @ \ {k},
                             ![r].step = IF req[r].todo = {k} THEN "done" ELSE "import"]
          ELSE To(r, "failed") /\ UNCHANGED accounts
      BY DEF ImportNext
<1>4. Derived[k] \in Wallets  BY <1>2, WalletAssumption DEF ImportType
<1>5. CASE RowsOf(Derived[k]) = {}
  <2> DEFINE s == IF req[r].todo = {k} THEN "done" ELSE "import"
             l == [req[r] EXCEPT !.todo = @ \ {k}, !.step = s]
  <2>1. SharedTypeOK' /\ LogsArePast' /\ Grows /\ settings' = settings
        BY <1>3, <1>4, <1>5, ImportGrows DEF ImportNext
  <2>2. s \in {"done", "import"} /\ req' = [req EXCEPT ![r].todo = @ \ {k}, ![r].step = s]
        BY <1>3, <1>5
  <2> HIDE DEF s
  <2>3. req' = [req EXCEPT ![r] = l]  BY <1>2, <2>2 DEF WalletInv, WalletTypeOK, ImportType
  <2>4. l \in ImportType  BY <1>2, <2>2 DEF ImportType, Ended
  <2>5. l \in Locals /\ l.op = "import" /\ l.step \notin {"usdc", "tokens", "store"}
        BY <2>4 DEF Locals, ImportType, Ended
  <2> HIDE DEF l
  <2>6. QED  BY <2>1, <2>3, <2>5, WritesLocal
<1>6. CASE RowsOf(Derived[k]) # {}
  <2>1. UNCHANGED <<registry, wallets, world>>  BY <1>3, <1>6 DEF ImportNext, wallets
  <2>2. [req[r] EXCEPT !.step = "failed"] \in Locals  BY <1>1, MayGo DEF Ended
  <2>3. QED  BY <1>3, <1>6, <2>1, <2>2, JustGoesOn DEF Onward
<1>7. QED  BY <1>5, <1>6

\* A request on one account looks for it.
LEMMA FindAccountSteps ==
    ASSUME WalletInv, NEW r \in Requests, FindAccount(r)
    PROVE  Steps(r)
<1>1. req[r] \in Locals /\ req[r].op = "account"  BY IsLocal, OpByStep DEF FindAccount, At
<1>2. req[r] \in AccountType  BY <1>1, LocalByOp
<1> DEFINE rows == RowsOf(req[r].wallet)
<1>3. CASE rows = {}
  <2>1. To(r, "failed")  BY <1>3 DEF FindAccount, To
  <2>2. [req[r] EXCEPT !.step = "failed"] \in Locals  BY <1>1, MayGo DEF Ended
  <2>3. QED  BY <2>1, <2>2, JustGoesOn DEF FindAccount, Onward
<1>4. CASE rows # {}
  <2> DEFINE i == CHOOSE j \in rows : TRUE
             l == [req[r] EXCEPT !.id = i, !.step = "write"]
  <2>1. i \in Nat  BY <1>4, Sizes DEF RowsOf
  <2>2. req' = [req EXCEPT ![r].id = i, ![r].step = "write"]  BY <1>4 DEF FindAccount
  <2> HIDE DEF i
  <2>3. req' = [req EXCEPT ![r] = l]  BY <1>2, <2>2 DEF WalletInv, WalletTypeOK, AccountType
  <2>4. l \in AccountType  BY <1>2, <2>1 DEF AccountType, Ended
  <2>5. l \in Locals /\ l.op = "account" /\ l.step \notin {"usdc", "tokens", "store"}
        BY <2>4 DEF Locals, AccountType, Ended
  <2> HIDE DEF l
  <2>6. QED  BY <2>3, <2>5, SharedStays, WritesLocal DEF FindAccount
<1>5. QED  BY <1>3, <1>4

\* It renames, disables or deletes it.
LEMMA WriteAccountSteps ==
    ASSUME WalletInv, NEW r \in Requests, WriteAccount(r)
    PROVE  Steps(r)
<1>1. req[r] \in Locals /\ req[r].op = "account"  BY IsLocal, OpByStep DEF WriteAccount, At
<1>2. req[r] \in AccountType  BY <1>1, LocalByOp
<1>3. SharedTypeOK /\ LogsArePast  BY DEF WalletInv, WalletTypeOK
<1>4. /\ accounts' \in Seq(Account)
      /\ \A i \in DOMAIN accounts : i \in DOMAIN accounts' /\ accounts'[i].wallet = accounts[i].wallet
  <2>1. accounts \in Seq(Account) /\ req[r].to \in {"on", "off", "deleted"}
        BY <1>2, <1>3 DEF SharedTypeOK, AccountType
  <2>2. CASE accounts' = accounts  BY <2>1, <2>2
  <2>3. CASE accounts' = [accounts EXCEPT ![req[r].id].state = req[r].to]
    <3>1. \A i \in DOMAIN accounts : accounts[i] \in Account  BY <2>1, Elements
    <3>2. \A a \in Account : /\ [a EXCEPT !.state = req[r].to] \in Account
                             /\ [a EXCEPT !.state = req[r].to].wallet = a.wallet
          BY <2>1 DEF Account
    <3>3. \A i \in DOMAIN accounts :
              accounts'[i] \in Account /\ accounts'[i].wallet = accounts[i].wallet
          BY <2>3, <3>1, <3>2
    <3>4. DOMAIN accounts' = DOMAIN accounts /\ Len(accounts) \in Nat
          /\ DOMAIN accounts = 1..Len(accounts)
          BY <2>1, <2>3
    <3>5. accounts' \in [1..Len(accounts) -> Account]  BY <2>3, <3>3, <3>4
    <3>6. QED  BY <3>3, <3>4, <3>5
  <2>4. QED  BY <2>2, <2>3 DEF WriteAccount
<1>5. SharedTypeOK' /\ LogsArePast' /\ settings' = settings
      BY <1>3, <1>4 DEF WriteAccount, SharedTypeOK, LogsArePast, registry, world
<1>6. Grows  BY <1>4, Sizes DEF WriteAccount, Grows, world
<1>7. [req[r] EXCEPT !.step = "done"] \in Locals  BY <1>1, MayGo DEF Ended
<1>8. QED  BY <1>1, <1>5, <1>6, <1>7, GoesOn DEF WriteAccount, Onward, AtEnd
-----------------------------------------------------------------------------
(* Balances *)

\* A step of a request that reads a balance, other than a trade.
LEMMA BalanceSteps ==
    ASSUME WalletInv, NEW r \in Requests, req[r].op \in {"balance", "refresh"},
           NEW l \in BalanceType \cup RefreshType, l.op = req[r].op, l.began = req[r].began,
           req' = [req EXCEPT ![r] = l],
           l.step = "tokens" => l.got \in Reading, l.step = "store" => l.got \in Balance,
           l.op = "refresh" /\ l.step \in {"tokens", "store", "done"} => l.got.asOf >= l.began,
           SharedTypeOK', LogsArePast', Grows, settings' = settings
    PROVE  Steps(r)
<1>1. l \in Locals  BY DEF Locals
<1>2. req' \in [Requests -> Locals] /\ Others(r) /\ req'[r] = l
      BY <1>1 DEF WalletInv, WalletTypeOK, Others
<1>3. l.wallet \in Wallets /\ l.op \in {"balance", "refresh"} /\ l.began \in Nat
      BY DEF BalanceType, RefreshType
<1>4. l.op = "refresh" => l.began <= Cardinality(landed)
      BY IsLocal DEF Fits, RefreshFits
<1>5. Cardinality(landed) \in Nat /\ Cardinality(landed)' \in Nat
      BY Sizes, FS_CardinalityType DEF SharedTypeOK
<1>6. l.op = "refresh" => l.began <= Cardinality(landed)'  BY <1>3, <1>4, <1>5 DEF Grows
<1>7. RefreshFits(r)'  BY <1>2, <1>6 DEF RefreshFits
<1>8. Fits(r)'  BY <1>2, <1>3, <1>7 DEF Fits, ReadingFits, TradeFits, DeleteFits
<1>9. QED  BY <1>2, <1>8 DEF Steps

\* The step of a trade leaves its wallet, balance, and the trades before it.
LEMMA TradeSteps ==
    ASSUME WalletInv, NEW r \in Requests, req[r].op \in {"trade", "controlled"},
           NEW l \in TradeType, l.op = req[r].op, l.named = req[r].named, l.id = req[r].id,
           l.wallet = req[r].wallet, l.got = req[r].got, l.over = req[r].over,
           l.step \notin {"pick", "named", "judge", "usdc", "tokens", "store"},
           req' = [req EXCEPT ![r] = l], SharedTypeOK', LogsArePast', Grows, settings' = settings
    PROVE  Steps(r)
<1>1. l \in Locals  BY DEF Locals
<1>2. req' \in [Requests -> Locals] /\ Others(r) /\ req'[r] = l
      BY <1>1 DEF WalletInv, WalletTypeOK, Others
<1>3. Fits(r)  BY IsLocal
<1>4. now' \in Nat /\ \A j \in DOMAIN logs' : logs'[j].at \in Nat
  <2>1. logs' \in Seq(LogRow) /\ now' \in Nat  BY DEF SharedTypeOK
  <2>2. \A m \in LogRow : m.at \in Nat  BY DEF LogRow
  <2>3. QED  BY <2>1, <2>2, Elements
<1>5. OverAreLogged(r) => OverAreLogged(r)'  BY <1>2, <1>4, OverStayLogged
<1>6. IsRecent(r) => IsRecent(r)'  BY <1>2 DEF IsRecent
<1>7. TradeFits(r)'  BY <1>2, <1>3, <1>5, <1>6 DEF Fits, TradeFits
<1>8. Fits(r)'  BY <1>2, <1>7 DEF Fits, ReadingFits, RefreshFits, DeleteFits
<1>9. QED  BY <1>2, <1>8 DEF Steps

\* A trade that picks its wallet, wherever it does.
LEMMA Picking ==
    ASSUME WalletInv, NEW r \in Requests, req[r].op \in {"trade", "controlled"},
           req[r].step \in {"pick", "judge", "usdc", "tokens"}
    PROVE  /\ req[r].op = "trade" /\ ~ req[r].named /\ req[r].id = 0 /\ OverAreLogged(r)
           /\ req[r] \in TradeType
BY IsLocal, LocalByOp DEF Fits, TradeFits, TradeType

\* What a trade does next when it has the balance of the wallet it looks at.
LEMMA JudgedSteps ==
    ASSUME WalletInv, NEW r \in Requests, req[r].op = "trade",
           req[r].step \in {"judge", "usdc", "tokens"}, req[r].todo # <<>>,
           NEW l \in TradeType, l.op = "trade", l.named = req[r].named, l.id = req[r].id,
           l.todo = req[r].todo, l.over = req[r].over, l.got \in Balance,
           \A o \in l.over : o.wallet = l.wallet =>
               \/ l.got.readAt > o.at
               \/ l.got.at - l.got.readAt > Cooldown - CacheTTL,
           req' = [req EXCEPT ![r] = AfterRead(l)],
           UNCHANGED <<registry, accounts, logs, world>>, SharedTypeOK'
    PROVE  Steps(r)
<1> DEFINE m == AfterRead(l)
<1>1. /\ req[r] \in TradeType /\ ~ req[r].named /\ req[r].id = 0 /\ OverAreLogged(r)
      BY Picking
<1>2. req[r].todo \in Seq(Nat) /\ Head(req[r].todo) \in Nat /\ Tail(req[r].todo) \in Seq(Nat)
  <2>1. req[r].todo \in Seq(Nat)  BY <1>1 DEF TradeType
  <2>2. QED  BY <2>1
<1>3. \/ m = [l EXCEPT !.step = "key", !.id = Head(l.todo)]
      \/ m = [l EXCEPT !.step = "judge", !.todo = Tail(@)]
      BY DEF AfterRead
<1> HIDE DEF m
<1>4. m \in TradeType /\ m.op = "trade" /\ ~ m.named /\ m.over = req[r].over
      /\ m.wallet = l.wallet /\ m.got = l.got
  <2>1. CASE m = [l EXCEPT !.step = "key", !.id = Head(l.todo)]
        BY <1>1, <1>2, <2>1 DEF TradeType, Ended
  <2>2. CASE m = [l EXCEPT !.step = "judge", !.todo = Tail(@)]
    <3>1. m \in TradeType  BY <1>1, <1>2, <2>2 DEF TradeType, Ended
    <3>2. QED  BY <1>1, <2>2, <3>1 DEF TradeType
  <2>3. QED  BY <1>3, <2>1, <2>2
<1>5. m \in Locals  BY <1>4 DEF Locals
<1>6. req' \in [Requests -> Locals] /\ Others(r) /\ req'[r] = m
      BY <1>5 DEF WalletInv, WalletTypeOK, Others, m
<1>7. OverAreLogged(r)'  BY <1>1, <1>4, <1>6 DEF OverAreLogged
<1>8. TradeFits(r)'
  <2>1. CASE m = [l EXCEPT !.step = "key", !.id = Head(l.todo)]
    <3>1. m.step = "key"  BY <2>1 DEF TradeType
    <3>2. IsRecent(r)'  BY <1>4, <1>6 DEF IsRecent
    <3>3. QED  BY <1>4, <1>6, <1>7, <3>1, <3>2 DEF TradeFits
  <2>2. CASE m = [l EXCEPT !.step = "judge", !.todo = Tail(@)]
    <3>1. m.step = "judge" /\ m.id = 0 /\ m.todo = Tail(req[r].todo)
          BY <1>1, <2>2 DEF TradeType
    <3>2. \A k \in DOMAIN req[r].todo :
              /\ req[r].todo[k] \in DOMAIN accounts
              /\ CooledDown(r, accounts[req[r].todo[k]].wallet)
          BY <1>1, IsLocal DEF Fits, TradeFits
    <3>3. \A k \in DOMAIN m.todo : k + 1 \in DOMAIN req[r].todo /\ m.todo[k] = req[r].todo[k + 1]
          BY <1>2, <3>1
    <3>4. \A k \in DOMAIN m.todo :
              /\ m.todo[k] \in DOMAIN accounts
              /\ \A o \in m.over : o.wallet = accounts[m.todo[k]].wallet => o.at + Cooldown <= now
          BY <1>4, <3>2, <3>3 DEF CooledDown
    <3>5. accounts' = accounts /\ now' = now  BY DEF world
    <3>6. \A k \in DOMAIN req'[r].todo :
              /\ req'[r].todo[k] \in DOMAIN accounts'
              /\ CooledDown(r, accounts[req[r].todo[k]].wallet)'
          BY <1>6, <3>4, <3>5 DEF CooledDown
    <3>7. QED  BY <1>4, <1>6, <1>7, <3>1, <3>6 DEF TradeFits
  <2>3. QED  BY <1>3, <2>1, <2>2
<1>9. m.step \in {"key", "judge"}  BY <1>3 DEF TradeType
<1>10. Fits(r)'  BY <1>4, <1>6, <1>8, <1>9 DEF Fits, ReadingFits, RefreshFits, DeleteFits
<1>11. LogsArePast'  BY DEF WalletInv, LogsArePast, world
<1>12. Grows  BY Sizes DEF Grows, world
<1>13. QED  BY <1>6, <1>10, <1>11, <1>12 DEF Steps, registry

\* The USDC balance is read from the chain.
LEMMA ReadUsdcSteps ==
    ASSUME WalletInv, NEW r \in Requests, ReadUsdc(r)
    PROVE  Steps(r)
<1>1. req[r] \in Locals /\ Fits(r)  BY IsLocal
<1>2. req[r].step = "usdc" /\ req[r].op \in {"trade", "controlled", "balance", "refresh"}
      BY <1>1, OpByStep DEF ReadUsdc, At
<1> DEFINE got == [amount |-> chain[req[r].wallet][Usdc], asOf |-> Cardinality(landed),
                   readAt |-> now]
           l == [req[r] EXCEPT !.step = "tokens", !.got = got]
<1>3. got \in Reading
  <2>1. req[r].wallet \in Wallets  BY <1>1, <1>2 DEF Fits, ReadingFits
  <2>2. chain \in [Wallets -> [Mints -> Nat]]  BY DEF WalletInv, WalletTypeOK, SharedTypeOK
  <2>3. Usdc \in Mints  BY RegistryAssumption DEF Mints
  <2>4. QED  BY <2>1, <2>2, <2>3, Sizes DEF Reading
<1>4. req' = [req EXCEPT ![r].step = "tokens", ![r].got = got]  BY DEF ReadUsdc
<1>5. got.asOf = Cardinality(landed) /\ got.readAt = now  OBVIOUS
<1> HIDE DEF got
<1>6. req[r] \in TradeType \cup BalanceType \cup RefreshType  BY <1>1, <1>2, LocalByOp
<1>7. req' = [req EXCEPT ![r] = l]
      BY <1>4, <1>6 DEF WalletInv, WalletTypeOK, TradeType, BalanceType, RefreshType
<1>8. UNCHANGED <<registry, wallets, world>>  BY DEF ReadUsdc
<1>9. CASE req[r].op \in {"balance", "refresh"}
  <2>1. req[r] \in BalanceType \cup RefreshType  BY <1>1, <1>9, LocalByOp
  <2>2. l \in BalanceType \cup RefreshType  BY <1>3, <2>1 DEF BalanceType, RefreshType, Got
  <2>3. l.op = req[r].op /\ l.began = req[r].began /\ l.got = got /\ l.step = "tokens"
        BY <2>1 DEF BalanceType, RefreshType
  <2>4. l.op = "refresh" => got.asOf >= l.began
        BY <1>1, <1>5, <2>3, Sizes, <2>1 DEF Fits, RefreshFits, BalanceType, RefreshType
  <2> HIDE DEF l
  <2>5. QED  BY <1>3, <1>7, <1>8, <1>9, <2>2, <2>3, <2>4, SharedStays, BalanceSteps
<1>10. CASE req[r].op \in {"trade", "controlled"}
  <2>1. /\ req[r].op = "trade" /\ ~ req[r].named /\ req[r].id = 0 /\ OverAreLogged(r)
        /\ req[r] \in TradeType
        BY <1>2, <1>10, Picking
  <2>2. l \in TradeType  BY <1>3, <2>1 DEF TradeType, Got
  <2>3. /\ l.op = req[r].op /\ l.step = "tokens" /\ l.named = req[r].named /\ l.id = req[r].id
        /\ l.todo = req[r].todo /\ l.over = req[r].over /\ l.wallet = req[r].wallet /\ l.got = got
        BY <2>1 DEF TradeType
  <2> HIDE DEF l
  <2>4. l \in Locals  BY <2>2 DEF Locals
  <2>5. req'[r] = l  BY <1>7 DEF WalletInv, WalletTypeOK
  <2>6. accounts' = accounts /\ now' = now /\ logs' = logs  BY <1>8 DEF wallets, world
  <2>7. \A o \in req[r].over : o.at \in Nat  BY <1>10, OverType
  <2>8. CooledDown(r, req[r].wallet)  BY <1>1, <1>2, <2>1 DEF Fits, TradeFits
  <2>9. \A o \in l.over : o.wallet = l.wallet => l.got.readAt > o.at
        BY <1>5, <2>3, <2>7, <2>8, Sizes DEF CooledDown
  <2>10. TradeFits(r)'
         BY <1>1, <1>2, <2>1, <2>3, <2>5, <2>6, <2>9
            DEF Fits, TradeFits, OverAreLogged, CooledDown
  <2>11. ReadingFits(r)'  BY <1>1, <1>2, <1>3, <2>3, <2>5 DEF Fits, ReadingFits
  <2>12. Fits(r)'  BY <2>1, <2>3, <2>5, <2>10, <2>11 DEF Fits, RefreshFits, DeleteFits
  <2>13. QED  BY <1>7, <1>8, <2>4, <2>12, LocalStep
<1>11. QED  BY <1>2, <1>9, <1>10

\* A balance that was read takes the place of the one in the cache.
LEMMA ReadTokensSteps ==
    ASSUME WalletInv, NEW r \in Requests, ReadTokens(r)
    PROVE  Steps(r)
<1>1. req[r] \in Locals /\ Fits(r)  BY IsLocal
<1>2. req[r].step = "tokens" /\ req[r].op \in {"trade", "controlled", "balance", "refresh"}
      BY <1>1, OpByStep DEF ReadTokens, At
<1>3. req[r] \in TradeType \cup BalanceType \cup RefreshType  BY <1>1, <1>2, LocalByOp
<1>4. req[r].got \in Reading /\ req[r].wallet \in Wallets  BY <1>1, <1>2 DEF Fits, ReadingFits
<1>5. req[r].mints \in SUBSET Bases  BY <1>3 DEF TradeType, BalanceType, RefreshType
<1> DEFINE w == req[r].wallet
           amounts(read) == [m \in read \cup {Usdc} |->
                                IF m = Usdc THEN req[r].got.amount ELSE chain[w][m]]
           entry(read) == [wallet |-> w, mints |-> req[r].mints, at |-> now,
                           asOf |-> req[r].got.asOf, readAt |-> req[r].got.readAt,
                           amounts |-> amounts(read)]
<1>6. PICK read \in SUBSET req[r].mints :
          /\ cache' = {d \in cache : ~ (d.wallet = w /\ d.mints = entry(read).mints)} \cup {entry(read)}
          /\ req' = [req EXCEPT ![r] = AfterRead([@ EXCEPT !.got = entry(read)])]
      BY DEF ReadTokens
<1>7. amounts(read) \in Amounts
  <2>1. read \cup {Usdc} \in SUBSET Mints  BY <1>5, RegistryAssumption DEF Mints
  <2>2. chain \in [Wallets -> [Mints -> Nat]]  BY DEF WalletInv, WalletTypeOK, SharedTypeOK
  <2>3. amounts(read) \in [read \cup {Usdc} -> Nat]  BY <1>4, <2>1, <2>2 DEF Reading
  <2>4. QED  BY <2>1, <2>3 DEF Amounts
<1> DEFINE c == entry(read)
           l == [req[r] EXCEPT !.got = c]
<1> HIDE DEF amounts
<1>8. c \in Balance  BY <1>4, <1>5, <1>7, Sizes DEF Balance, Reading
<1>9. c.readAt = req[r].got.readAt /\ c.asOf = req[r].got.asOf  OBVIOUS
<1>10. cache' \subseteq cache \cup {c} /\ req' = [req EXCEPT ![r] = AfterRead(l)]  BY <1>6
<1> HIDE DEF entry, c
<1>11. SharedTypeOK /\ LogsArePast  BY DEF WalletInv, WalletTypeOK
<1>12. SharedTypeOK' /\ LogsArePast' /\ settings' = settings
       BY <1>8, <1>10, <1>11 DEF ReadTokens, SharedTypeOK, LogsArePast, registry, world
<1>13. CASE req[r].op \in {"balance", "refresh"}
  <2>1. req[r] \in BalanceType \cup RefreshType  BY <1>1, <1>13, LocalByOp
  <2> DEFINE m == [l EXCEPT !.step = "store"]
  <2>2. l.op # "trade"  BY <1>13, <2>1 DEF BalanceType, RefreshType
  <2>3. req' = [req EXCEPT ![r] = m]  BY <1>10, <2>2 DEF AfterRead
  <2>4. m \in BalanceType \cup RefreshType /\ m.op = req[r].op /\ m.began = req[r].began
        /\ m.got = c /\ m.step = "store"
        BY <1>8, <2>1 DEF BalanceType, RefreshType, Got
  <2> HIDE DEF m
  <2>5. m.op = "refresh" => m.got.asOf >= m.began
        BY <1>1, <1>2, <1>9, <2>4 DEF Fits, RefreshFits
  <2>6. Grows  BY Sizes DEF ReadTokens, Grows, world
  <2>7. QED  BY <1>8, <1>12, <1>13, <2>3, <2>4, <2>5, <2>6, BalanceSteps
<1>14. CASE req[r].op \in {"trade", "controlled"}
  <2>1. /\ req[r].op = "trade" /\ ~ req[r].named /\ req[r].id = 0 /\ OverAreLogged(r)
        /\ req[r] \in TradeType
        BY <1>2, <1>14, Picking
  <2>2. req[r].todo # <<>>  BY <1>1, <1>2, <2>1 DEF Fits, TradeFits
  <2>3. l \in TradeType  BY <1>8, <2>1 DEF TradeType, Got
  <2>4. /\ l.op = "trade" /\ l.named = req[r].named /\ l.id = req[r].id /\ l.todo = req[r].todo
        /\ l.over = req[r].over /\ l.wallet = req[r].wallet /\ l.got = c
        BY <2>1 DEF TradeType
  <2> HIDE DEF l
  <2>5. \A o \in l.over : o.wallet = l.wallet => l.got.readAt > o.at
        BY <1>1, <1>2, <1>9, <2>1, <2>4 DEF Fits, TradeFits
  <2>6. QED
    BY <1>2, <1>8, <1>10, <1>12, <2>1, <2>2, <2>3, <2>4, <2>5, JudgedSteps DEF ReadTokens
<1>15. QED  BY <1>2, <1>13, <1>14

\* A read from the chain fails.
LEMMA ReadFailsSteps ==
    ASSUME WalletInv, NEW r \in Requests, ReadFails(r)
    PROVE  Steps(r)
<1>1. req[r] \in Locals  BY IsLocal
<1>2. req[r].op \in {"trade", "controlled", "balance", "refresh"}
      BY <1>1, OpByStep DEF ReadFails, At
<1>3. [req[r] EXCEPT !.step = "failed"] \in Locals  BY <1>1, <1>2, MayGo DEF Ended
<1>4. QED  BY <1>3, JustGoesOn DEF ReadFails, Onward

\* The balances are looked up in the cache.
LEMMA LookUpSteps ==
    ASSUME WalletInv, NEW r \in Requests, LookUp(r)
    PROVE  Steps(r)
<1>1. req[r] \in BalanceType /\ req[r].op = "balance"
      BY IsLocal, OpByStep, LocalByOp DEF LookUp, At
<1> DEFINE entries == Cached(req[r].wallet, req[r].mints)
<1>2. CASE entries = {}
  <2> DEFINE l == StartRead(r, req[r].wallet, req[r].mints)
  <2>1. req' = [req EXCEPT ![r] = l]  BY <1>2 DEF LookUp
  <2>2. l \in BalanceType /\ l.op = "balance" /\ l.step = "usdc" /\ l.began = req[r].began
        BY <1>1 DEF StartRead, BalanceType
  <2> HIDE DEF l
  <2>3. QED  BY <1>1, <2>1, <2>2, SharedStays, BalanceSteps DEF LookUp
<1>3. CASE entries # {}
  <2> DEFINE c == CHOOSE e \in entries : TRUE
             l == [req[r] EXCEPT !.got = c]
             m == [l EXCEPT !.step = "store"]
  <2>1. c \in Balance  BY <1>3 DEF Cached, WalletInv, WalletTypeOK, SharedTypeOK
  <2>2. req' = [req EXCEPT ![r] = AfterRead(l)]  BY <1>3 DEF LookUp
  <2> HIDE DEF c
  <2>3. l.op # "trade"  BY <1>1 DEF BalanceType
  <2>4. req' = [req EXCEPT ![r] = m]  BY <2>2, <2>3 DEF AfterRead
  <2>5. m \in BalanceType /\ m.op = "balance" /\ m.step = "store" /\ m.got = c
        /\ m.began = req[r].began
        BY <1>1, <2>1 DEF BalanceType, Got
  <2> HIDE DEF m
  <2>6. QED  BY <1>1, <2>1, <2>4, <2>5, SharedStays, BalanceSteps DEF LookUp
<1>4. QED  BY <1>2, <1>3

\* A refresh drops the entry from the cache and reads the chain.
LEMMA InvalidateSteps ==
    ASSUME WalletInv, NEW r \in Requests, Invalidate(r)
    PROVE  Steps(r)
<1>1. req[r] \in RefreshType /\ req[r].op = "refresh"
      BY IsLocal, OpByStep, LocalByOp DEF Invalidate, At
<1> DEFINE l == StartRead(r, req[r].wallet, req[r].mints)
<1>2. req' = [req EXCEPT ![r] = l]  BY DEF Invalidate
<1>3. l \in RefreshType /\ l.op = "refresh" /\ l.step = "usdc" /\ l.began = req[r].began
      BY <1>1 DEF StartRead, RefreshType
<1> HIDE DEF l
<1>4. SharedTypeOK /\ LogsArePast  BY DEF WalletInv, WalletTypeOK
<1>5. SharedTypeOK' /\ LogsArePast' /\ settings' = settings
      BY <1>4 DEF Invalidate, SharedTypeOK, LogsArePast, registry, world
<1>6. Grows  BY Sizes DEF Invalidate, Grows, world
<1>7. QED  BY <1>1, <1>2, <1>3, <1>5, <1>6, BalanceSteps

\* The balances that were read are stored, dated after the reads.
LEMMA StoreSnapshotSteps ==
    ASSUME WalletInv, NEW r \in Requests, StoreSnapshot(r)
    PROVE  Steps(r)
<1>1. req[r] \in Locals /\ Fits(r) /\ req[r].step = "store"  BY IsLocal DEF StoreSnapshot, At
<1>2. req[r].op \in {"balance", "refresh"}  BY <1>1, OpByStep
<1>3. req[r] \in BalanceType \cup RefreshType  BY <1>1, <1>2, LocalByOp
<1>4. req[r].got \in Balance  BY <1>1 DEF Fits, ReadingFits
<1> DEFINE got == req[r].got
           snapshot == [mint |-> req[r].mint,
                        amount |-> IF req[r].mint \in DOMAIN got.amounts
                                   THEN got.amounts[req[r].mint] ELSE 0]
<1>5. snapshot \in Snapshot
  <2>1. PICK read \in SUBSET Mints : got.amounts \in [read -> Nat]
        BY <1>4 DEF Balance, Amounts
  <2>2. req[r].mint \in Bases \cup {None}  BY <1>3 DEF BalanceType, RefreshType
  <2>3. QED  BY <2>1, <2>2 DEF Snapshot
<1>6. accounts' = [i \in DOMAIN accounts |->
                      IF i \in RowsOf(req[r].wallet)
                      THEN [accounts[i] EXCEPT !.snapshot = snapshot] ELSE accounts[i]]
      BY DEF StoreSnapshot
<1> HIDE DEF snapshot
<1>7. SharedTypeOK /\ LogsArePast  BY DEF WalletInv, WalletTypeOK
<1>8. /\ accounts' \in Seq(Account)
      /\ \A i \in DOMAIN accounts : i \in DOMAIN accounts' /\ accounts'[i].wallet = accounts[i].wallet
  <2>1. accounts \in Seq(Account)  BY <1>7 DEF SharedTypeOK
  <2>2. \A i \in DOMAIN accounts : accounts[i] \in Account  BY <2>1, Elements
  <2>3. \A a \in Account : /\ [a EXCEPT !.snapshot = snapshot] \in Account
                           /\ [a EXCEPT !.snapshot = snapshot].wallet = a.wallet
        BY <1>5 DEF Account
  <2>4. \A i \in DOMAIN accounts :
            accounts'[i] \in Account /\ accounts'[i].wallet = accounts[i].wallet
        BY <1>6, <2>2, <2>3
  <2>5. DOMAIN accounts' = DOMAIN accounts /\ Len(accounts) \in Nat
        /\ DOMAIN accounts = 1..Len(accounts)
        BY <1>6, <2>1
  <2>6. accounts' \in [1..Len(accounts) -> Account]  BY <1>6, <2>4, <2>5
  <2>7. QED  BY <2>4, <2>5, <2>6
<1>9. SharedTypeOK' /\ LogsArePast' /\ settings' = settings
      BY <1>7, <1>8 DEF StoreSnapshot, SharedTypeOK, LogsArePast, registry, world
<1>10. Grows  BY <1>8, Sizes DEF StoreSnapshot, Grows, world
<1>11. [req[r] EXCEPT !.step = "done"] \in Locals  BY <1>1, <1>2, MayGo DEF Ended
<1>12. AtEnd(r)  BY <1>1, <1>2 DEF AtEnd, Fits, RefreshFits
<1>13. QED  BY <1>9, <1>10, <1>11, <1>12, GoesOn DEF StoreSnapshot, Onward

-----------------------------------------------------------------------------
(* Trades: the wallet *)

\* The account a trade names is checked.
LEMMA CheckAccountSteps ==
    ASSUME WalletInv, NEW r \in Requests, CheckAccount(r)
    PROVE  Steps(r)
<1>1. req[r] \in Locals /\ Fits(r) /\ req[r].step = "named"  BY IsLocal DEF CheckAccount, At
<1>2. req[r].op \in {"trade", "controlled"}  BY <1>1, OpByStep
<1>3. req[r] \in TradeType  BY <1>1, <1>2, LocalByOp
<1>4. req[r].named  BY <1>1, <1>2, <1>3 DEF Fits, TradeFits, TradeType
<1> DEFINE rows == OnRows(req[r].wallet)
<1>5. CASE rows = {} \/ ~ Suits(req[r])
  <2>1. To(r, "failed")  BY <1>5 DEF CheckAccount, To
  <2>2. [req[r] EXCEPT !.step = "failed"] \in Locals  BY <1>1, <1>2, MayGo DEF Ended
  <2>3. QED  BY <2>1, <2>2, JustGoesOn DEF CheckAccount, Onward
<1>6. CASE ~ (rows = {} \/ ~ Suits(req[r]))
  <2> DEFINE i == CHOOSE j \in rows : TRUE
             l == [req[r] EXCEPT !.step = "key", !.id = i]
  <2>1. i \in Nat  BY <1>6, Sizes DEF RowsOf, OnRows
  <2>2. req' = [req EXCEPT ![r].step = "key", ![r].id = i]  BY <1>6 DEF CheckAccount
  <2> HIDE DEF i
  <2>3. req' = [req EXCEPT ![r] = l]  BY <1>3, <2>2 DEF WalletInv, WalletTypeOK, TradeType
  <2>4. l \in TradeType /\ l.named /\ l.step = "key" /\ l.op = req[r].op
        BY <1>3, <1>4, <2>1 DEF TradeType
  <2> HIDE DEF l
  <2>5. l \in Locals  BY <2>4 DEF Locals
  <2>6. req'[r] = l  BY <2>3 DEF WalletInv, WalletTypeOK
  <2>7. Fits(r)'
        BY <1>2, <2>4, <2>6 DEF Fits, ReadingFits, RefreshFits, TradeFits, DeleteFits
  <2>8. QED  BY <2>3, <2>5, <2>7, LocalStep DEF CheckAccount
<1>7. QED  BY <1>5, <1>6

\* A candidate has not been used since what was over when the trade began.
LEMMA CandidateIsCool ==
    ASSUME WalletInv, NEW r \in Requests, req[r].op \in {"trade", "controlled"},
           OverAreLogged(r), NEW base, NEW i \in Candidates(base)
    PROVE  i \in DOMAIN accounts /\ CooledDown(r, accounts[i].wallet)
<1>1. /\ i \in DOMAIN accounts
      /\ \A t \in UseTimes(accounts[i].wallet) : now - t >= Cooldown
      BY DEF Candidates
<1>2. SUFFICES ASSUME NEW o \in req[r].over, o.wallet = accounts[i].wallet
               PROVE  o.at + Cooldown <= now
      BY <1>1 DEF CooledDown
<1>3. PICK j \in DOMAIN logs : logs[j].wallet = o.wallet /\ o.at <= logs[j].at
      BY DEF OverAreLogged
<1>4. logs[j].at \in UseTimes(accounts[i].wallet)  BY <1>2, <1>3 DEF UseTimes
<1>5. now - logs[j].at >= Cooldown  BY <1>1, <1>4
<1>6. QED  BY <1>3, <1>5, OverType, Sizes

\* The wallets a trade may use are listed.
LEMMA ListCandidatesSteps ==
    ASSUME WalletInv, NEW r \in Requests, ListCandidates(r)
    PROVE  Steps(r)
<1>1. req[r] \in Locals /\ Fits(r) /\ req[r].step = "pick"  BY IsLocal DEF ListCandidates, At
<1>2. /\ req[r].op = "trade" /\ ~ req[r].named /\ req[r].id = 0 /\ OverAreLogged(r)
      /\ req[r] \in TradeType
      BY <1>1, OpByStep, Picking
<1> DEFINE S == Candidates(req[r].base)
<1>3. PICK todo \in Ordered(S) :
          req' = [req EXCEPT ![r].step = "judge", ![r].mints = TrackedMints, ![r].todo = todo]
      BY DEF ListCandidates
<1>4. todo \in [1..Cardinality(S) -> S]  BY <1>3 DEF Ordered
<1>5. S \subseteq DOMAIN accounts /\ S \subseteq Nat  BY Sizes DEF Candidates
<1>6. todo \in Seq(Nat)
  <2>1. accounts \in Seq(Account)  BY DEF WalletInv, WalletTypeOK, SharedTypeOK
  <2>2. IsFiniteSet(DOMAIN accounts)  BY <2>1, FS_Interval
  <2>3. Cardinality(S) \in Nat  BY <1>5, <2>2, FS_Subset, FS_CardinalityType
  <2> HIDE DEF S
  <2>4. todo \in [1..Cardinality(S) -> Nat]  BY <1>4, <1>5
  <2>5. QED  BY <2>3, <2>4
<1>7. \A k \in DOMAIN todo :
          todo[k] \in DOMAIN accounts /\ CooledDown(r, accounts[todo[k]].wallet)
      BY <1>2, <1>4, CandidateIsCool
<1>8. TrackedMints \in SUBSET Bases
  <2>1. settings.base \in Bases \cup {None}
        BY DEF WalletInv, WalletTypeOK, SharedTypeOK, SettingsType
  <2>2. QED  BY <2>1 DEF TrackedMints, Pairs
<1> DEFINE l == [req[r] EXCEPT !.step = "judge", !.mints = TrackedMints, !.todo = todo]
<1> HIDE DEF S
<1>9. req' = [req EXCEPT ![r] = l]  BY <1>2, <1>3 DEF WalletInv, WalletTypeOK, TradeType
<1>10. l \in TradeType  BY <1>2, <1>6, <1>8 DEF TradeType
<1>11. /\ l.step = "judge" /\ l.todo = todo /\ l.op = "trade" /\ l.named = req[r].named
       /\ l.id = 0 /\ l.over = req[r].over
       BY <1>2 DEF TradeType
<1> HIDE DEF l
<1>12. l \in Locals  BY <1>10 DEF Locals
<1>13. req'[r] = l  BY <1>9 DEF WalletInv, WalletTypeOK
<1>14. logs' = logs /\ accounts' = accounts /\ now' = now  BY DEF ListCandidates, wallets, world
<1>15. OverAreLogged(r)'  BY <1>2, <1>11, <1>13, <1>14 DEF OverAreLogged
<1>16. \A k \in DOMAIN req'[r].todo :
           /\ req'[r].todo[k] \in DOMAIN accounts'
           /\ CooledDown(r, accounts[req[r].todo[k]].wallet)'
       BY <1>7, <1>11, <1>13, <1>14 DEF CooledDown
<1>17. TradeFits(r)'  BY <1>2, <1>11, <1>13, <1>15, <1>16 DEF TradeFits
<1>18. Fits(r)'  BY <1>11, <1>13, <1>17 DEF Fits, ReadingFits, RefreshFits, DeleteFits
<1>19. QED  BY <1>9, <1>12, <1>18, LocalStep DEF ListCandidates

\* An entry of the cache is younger than the cooldown, unless it took long to read.
LEMMA CachedIsRecent ==
    ASSUME WalletInv, NEW w, NEW mints, NEW c \in Cached(w, mints), NEW at \in Nat,
           at + Cooldown <= now
    PROVE  \/ c.readAt > at
           \/ c.at - c.readAt > Cooldown - CacheTTL
<1>1. c \in Balance /\ now < c.at + CacheTTL
      BY DEF Cached, WalletInv, WalletTypeOK, SharedTypeOK
<1>2. c.at \in Nat /\ c.readAt \in Nat  BY <1>1 DEF Balance
<1>3. QED  BY <1>1, <1>2, Sizes

\* The next of them is judged: by its cooldown, then by its balances.
LEMMA JudgeSteps ==
    ASSUME WalletInv, NEW r \in Requests, Judge(r)
    PROVE  Steps(r)
<1>1. req[r] \in Locals /\ Fits(r) /\ req[r].step = "judge"  BY IsLocal DEF Judge, At
<1>2. /\ req[r].op = "trade" /\ ~ req[r].named /\ req[r].id = 0 /\ OverAreLogged(r)
      /\ req[r] \in TradeType
      BY <1>1, OpByStep, Picking
<1>3. CASE req[r].todo = <<>>
  <2>1. To(r, "failed")  BY <1>3 DEF Judge, To
  <2>2. [req[r] EXCEPT !.step = "failed"] \in Locals  BY <1>1, <1>2, MayGo DEF Ended
  <2>3. QED  BY <2>1, <2>2, JustGoesOn DEF Judge, Onward
<1>4. CASE req[r].todo # <<>>
  <2> DEFINE w == accounts[Head(req[r].todo)].wallet
             entries == Cached(w, req[r].mints)
  <2>1. req[r].todo \in Seq(Nat)  BY <1>2 DEF TradeType
  <2>2. 1 \in DOMAIN req[r].todo /\ Head(req[r].todo) = req[r].todo[1]  BY <1>4, <2>1
  <2>3. Head(req[r].todo) \in DOMAIN accounts /\ CooledDown(r, w)
        BY <1>1, <1>2, <2>2 DEF Fits, TradeFits
  <2>4. w \in Wallets  BY <2>3, Sizes DEF Account
  <2>5. CASE entries = {}
    <3> DEFINE l == StartRead(r, w, req[r].mints)
    <3>1. req' = [req EXCEPT ![r] = l]  BY <1>4, <2>5 DEF Judge
    <3> HIDE DEF w
    <3>2. l \in TradeType  BY <1>2, <2>4 DEF StartRead, TradeType
    <3>3. /\ l.step = "usdc" /\ l.todo = req[r].todo /\ l.op = "trade" /\ l.wallet = w
          /\ l.named = req[r].named /\ l.id = req[r].id /\ l.over = req[r].over
          BY <1>2 DEF StartRead, TradeType
    <3> HIDE DEF l
    <3>4. l \in Locals  BY <3>2 DEF Locals
    <3>5. req'[r] = l  BY <3>1 DEF WalletInv, WalletTypeOK
    <3>6. logs' = logs /\ accounts' = accounts /\ now' = now  BY DEF Judge, wallets, world
    <3>7. OverAreLogged(r)'  BY <1>2, <3>3, <3>5, <3>6 DEF OverAreLogged
    <3>8. \A k \in DOMAIN req'[r].todo :
              /\ req'[r].todo[k] \in DOMAIN accounts'
              /\ CooledDown(r, accounts[req[r].todo[k]].wallet)'
          BY <1>1, <1>2, <3>3, <3>5, <3>6 DEF CooledDown, Fits, TradeFits
    <3>9. CooledDown(r, req[r].wallet)'  BY <2>3, <3>3, <3>5, <3>6 DEF CooledDown
    <3>10. TradeFits(r)'  BY <1>2, <1>4, <3>3, <3>5, <3>7, <3>8, <3>9 DEF TradeFits
    <3>11. Fits(r)'
           BY <2>4, <3>3, <3>5, <3>10 DEF Fits, ReadingFits, RefreshFits, DeleteFits
    <3>12. QED  BY <3>1, <3>4, <3>11, LocalStep DEF Judge
  <2>6. CASE entries # {}
    <3> DEFINE c == CHOOSE e \in entries : TRUE
               l == [req[r] EXCEPT !.wallet = w, !.got = c]
    <3>1. c \in entries  BY <2>6
    <3>2. c \in Balance  BY <3>1 DEF Cached, WalletInv, WalletTypeOK, SharedTypeOK
    <3>3. req' = [req EXCEPT ![r] = AfterRead(l)]  BY <1>4, <2>6 DEF Judge
    <3> HIDE DEF c, w
    <3>4. l \in TradeType  BY <1>2, <2>4, <3>2 DEF TradeType, Got
    <3>5. /\ l.op = "trade" /\ l.named = req[r].named /\ l.id = req[r].id
          /\ l.todo = req[r].todo /\ l.over = req[r].over /\ l.wallet = w /\ l.got = c
          BY <1>2 DEF TradeType
    <3> HIDE DEF l
    <3>6. \A o \in l.over : o.wallet = l.wallet =>
              \/ l.got.readAt > o.at
              \/ l.got.at - l.got.readAt > Cooldown - CacheTTL
          BY <1>2, <2>3, <3>1, <3>5, OverType, CachedIsRecent DEF CooledDown
    <3>7. UNCHANGED <<registry, accounts, logs, world>> /\ SharedTypeOK'
          BY SharedStays DEF Judge, wallets
    <3>8. QED  BY <1>1, <1>2, <1>4, <3>2, <3>3, <3>4, <3>5, <3>6, <3>7, JudgedSteps
  <2>7. QED  BY <2>5, <2>6
<1>5. QED  BY <1>3, <1>4

-----------------------------------------------------------------------------
(* Trades: the row, the transaction *)

\* A trade that goes on, or fails, without a word to the others.
LEMMA TradeGoesOn ==
    ASSUME WalletInv, NEW r \in Requests,
           req[r].step \in {"key", "secret", "log", "quote", "send", "record", "fail"},
           NEW s \in {"secret", "log", "quote", "fail", "failed", "done"}, To(r, s),
           SharedTypeOK', LogsArePast', Grows, settings' = settings
    PROVE  Steps(r)
<1>1. req[r] \in Locals  BY IsLocal
<1>2. req[r].op \in {"trade", "controlled"}  BY <1>1, OpByStep
<1>3. [req[r] EXCEPT !.step = s] \in Locals  BY <1>1, <1>2, MayGo DEF Ended
<1>4. QED  BY <1>2, <1>3, GoesOn DEF Onward, AtEnd

\* The rows of logs, each with a new time or none.
LEMMA LogsGrow ==
    ASSUME WalletInv, UNCHANGED <<registry, accounts, cache, world>>,
           DOMAIN logs' = DOMAIN logs, logs' = [i \in DOMAIN logs |-> logs'[i]],
           \A i \in DOMAIN logs :
               \/ logs'[i] = logs[i]
               \/ /\ logs'[i] \in LogRow
                  /\ logs'[i].wallet = logs[i].wallet /\ logs'[i].at = now
    PROVE  SharedTypeOK' /\ LogsArePast' /\ Grows /\ settings' = settings
<1>1. SharedTypeOK /\ LogsArePast  BY DEF WalletInv, WalletTypeOK
<1>2. \A i \in DOMAIN logs :
          /\ logs'[i] \in LogRow /\ logs'[i].wallet = logs[i].wallet
          /\ logs[i].at <= logs'[i].at /\ logs'[i].at <= now
      BY <1>1, Sizes DEF LogsArePast
<1>3. logs' \in Seq(LogRow)
  <2>1. logs \in Seq(LogRow)  BY <1>1 DEF SharedTypeOK
  <2>2. Len(logs) \in Nat /\ DOMAIN logs = 1..Len(logs)  BY <2>1
  <2>3. logs' \in [1..Len(logs) -> LogRow]  BY <1>2, <2>2
  <2>4. QED  BY <2>2, <2>3
<1>4. SharedTypeOK'  BY <1>1, <1>3 DEF SharedTypeOK, registry, world
<1>5. LogsArePast'  BY <1>2 DEF LogsArePast, world
<1>6. Grows  BY <1>2, Sizes DEF Grows, world
<1>7. QED  BY <1>4, <1>5, <1>6 DEF registry

\* A trade writes the row of its own log.
LEMMA UpdateLogGrows ==
    ASSUME WalletInv, NEW r \in Requests, NEW status \in {"PENDING", "FAILED"},
           NEW signature \in Transactions \cup {None}, NEW timed \in BOOLEAN,
           UpdateLog(r, status, signature, timed),
           UNCHANGED <<registry, accounts, cache, world>>
    PROVE  SharedTypeOK' /\ LogsArePast' /\ Grows /\ settings' = settings
<1> DEFINE f(l) == [l EXCEPT !.status = status, !.at = now, !.timed = @ \/ timed,
                             !.signature = IF signature = None THEN @ ELSE signature]
<1>1. \A i \in DOMAIN logs : logs[i] \in LogRow  BY Sizes
<1>2. now \in Nat  BY Sizes
<1>3. \A l \in LogRow : f(l) \in LogRow /\ f(l).wallet = l.wallet /\ f(l).at = now
  <2> SUFFICES ASSUME NEW l \in LogRow
               PROVE  f(l) \in LogRow /\ f(l).wallet = l.wallet /\ f(l).at = now
      OBVIOUS
  <2>1. (l.timed \/ timed) \in BOOLEAN  BY Zenon DEF LogRow
  <2>2. (IF signature = None THEN l.signature ELSE signature) \in Transactions \cup {None}
        BY DEF LogRow
  <2>3. QED  BY <1>2, <2>1, <2>2 DEF LogRow
<1>4. logs' = [i \in DOMAIN logs |-> IF i = req[r].log THEN f(logs[i]) ELSE logs[i]]
      BY DEF UpdateLog
<1> HIDE DEF f
<1>5. DOMAIN logs' = DOMAIN logs /\ logs' = [i \in DOMAIN logs |-> logs'[i]]  BY <1>4
<1>6. \A i \in DOMAIN logs :
          \/ logs'[i] = logs[i]
          \/ logs'[i] \in LogRow /\ logs'[i].wallet = logs[i].wallet /\ logs'[i].at = now
      BY <1>1, <1>3, <1>4
<1>7. QED  BY <1>5, <1>6, LogsGrow

\* A trade inserts the row of its log, dated now.
LEMMA InsertLogSteps ==
    ASSUME WalletInv, NEW r \in Requests, InsertLog(r)
    PROVE  Steps(r)
<1>1. req[r] \in Locals /\ req[r].step = "log"  BY IsLocal DEF InsertLog, At
<1>2. req[r].op \in {"trade", "controlled"}  BY <1>1, OpByStep
<1>3. req[r] \in TradeType  BY <1>1, <1>2, LocalByOp
<1>4. SharedTypeOK /\ LogsArePast  BY DEF WalletInv, WalletTypeOK
<1>5. CASE HasTokenId(req[r].base)
  <2> DEFINE row == [wallet |-> req[r].wallet, status |-> "PENDING", signature |-> None,
                     timed |-> FALSE, at |-> now, by |-> r]
             l == [req[r] EXCEPT !.step = "quote", !.log = Len(logs) + 1]
  <2>1. row \in LogRow  BY <1>3, Sizes DEF LogRow, TradeType
  <2>2. row.at = now  OBVIOUS
  <2>3. logs' = Append(logs, row)
        /\ req' = [req EXCEPT ![r].step = "quote", ![r].log = Len(logs) + 1]
        BY <1>5 DEF InsertLog
  <2> HIDE DEF row
  <2>4. logs \in Seq(LogRow)  BY <1>4 DEF SharedTypeOK
  <2>5. /\ logs' \in Seq(LogRow) /\ Len(logs) \in Nat
        /\ \A j \in DOMAIN logs : j \in DOMAIN logs' /\ logs'[j] = logs[j]
        /\ \A j \in DOMAIN logs' : j \in DOMAIN logs \/ logs'[j] = row
        BY <2>1, <2>3, <2>4
  <2>6. SharedTypeOK'  BY <1>4, <2>5 DEF InsertLog, SharedTypeOK, registry, world
  <2>7. LogsArePast'  BY <1>4, <2>2, <2>5, Sizes DEF InsertLog, LogsArePast, world
  <2>8. Grows  BY <2>5, Sizes DEF InsertLog, Grows, world
  <2>9. req' = [req EXCEPT ![r] = l]  BY <1>3, <2>3 DEF WalletInv, WalletTypeOK, TradeType
  <2>10. /\ l \in TradeType /\ l.op = req[r].op /\ l.named = req[r].named /\ l.id = req[r].id
         /\ l.wallet = req[r].wallet /\ l.got = req[r].got /\ l.over = req[r].over
         /\ l.step = "quote"
    <3>1. Len(logs) + 1 \in Nat  BY <2>5
    <3>2. l \in TradeType  BY <1>3, <3>1 DEF TradeType
    <3>3. QED  BY <1>3, <3>2 DEF TradeType
  <2> HIDE DEF l
  <2>11. settings' = settings  BY DEF InsertLog, registry
  <2>12. QED  BY <1>2, <2>6, <2>7, <2>8, <2>9, <2>10, <2>11, TradeSteps
<1>6. CASE ~ HasTokenId(req[r].base)
  <2>1. To(r, "quote") /\ UNCHANGED <<registry, wallets, world>>
        BY <1>6 DEF InsertLog, wallets
  <2>2. QED  BY <1>1, <2>1, SharedStays, TradeGoesOn
<1>7. QED  BY <1>5, <1>6

\* Counting the attempts and the transactions of a trade leaves the rest of it.
Alike(k, l) ==
    /\ k.step = l.step /\ k.op = l.op /\ k.named = l.named /\ k.id = l.id
    /\ k.wallet = l.wallet /\ k.got = l.got /\ k.over = l.over

LEMMA CountedType ==
    ASSUME NEW l \in TradeType, NEW n \in Nat
    PROVE  /\ [l EXCEPT !.urls = n] \in TradeType /\ Alike([l EXCEPT !.urls = n], l)
           /\ [l EXCEPT !.url = n] \in TradeType /\ Alike([l EXCEPT !.url = n], l)
           /\ [l EXCEPT !.tries = n] \in TradeType /\ Alike([l EXCEPT !.tries = n], l)
           /\ [l EXCEPT !.tx = n] \in TradeType /\ Alike([l EXCEPT !.tx = n], l)
<1>1. [l EXCEPT !.urls = n] \in TradeType  BY SMTT(60) DEF TradeType
<1>2. [l EXCEPT !.url = n] \in TradeType  BY SMTT(60) DEF TradeType
<1>3. [l EXCEPT !.tries = n] \in TradeType  BY SMTT(60) DEF TradeType
<1>4. [l EXCEPT !.tx = n] \in TradeType  BY SMTT(60) DEF TradeType
<1>5. Alike([l EXCEPT !.urls = n], l)  BY DEF TradeType, Alike
<1>6. Alike([l EXCEPT !.url = n], l)  BY DEF TradeType, Alike
<1>7. Alike([l EXCEPT !.tries = n], l)  BY DEF TradeType, Alike
<1>8. Alike([l EXCEPT !.tx = n], l)  BY DEF TradeType, Alike
<1>9. QED  BY <1>1, <1>2, <1>3, <1>4, <1>5, <1>6, <1>7, <1>8

\* The trade's transaction is built and signed.
LEMMA QuoteSteps ==
    ASSUME WalletInv, NEW r \in Requests, Quote(r)
    PROVE  Steps(r)
<1>1. req[r] \in Locals /\ req[r].step = "quote"  BY IsLocal DEF Quote, At
<1>2. req[r].op \in {"trade", "controlled"}  BY <1>1, OpByStep
<1>3. req[r] \in TradeType  BY <1>1, <1>2, LocalByOp
<1> DEFINE l == [req[r] EXCEPT !.step = "send", !.urls = PoolSize, !.tx = @ + 1]
<1>4. PoolSize \in Nat
  <2>1. IsFiniteSet(endpoints)  BY DEF WalletInv, WalletTypeOK, SharedTypeOK
  <2>2. QED  BY <2>1, FS_CardinalityType DEF PoolSize
<1>5. req' = [req EXCEPT ![r] = l]  BY <1>3 DEF Quote, WalletInv, WalletTypeOK, TradeType
<1>6. /\ l \in TradeType /\ l.op = req[r].op /\ l.named = req[r].named /\ l.id = req[r].id
      /\ l.wallet = req[r].wallet /\ l.got = req[r].got /\ l.over = req[r].over
      /\ l.step = "send"
  <2> DEFINE j == [req[r] EXCEPT !.step = "send"]
             k == [j EXCEPT !.urls = PoolSize]
  <2>1. j \in TradeType  BY <1>3, SMTT(60) DEF TradeType
  <2>2. /\ j.op = req[r].op /\ j.named = req[r].named /\ j.id = req[r].id
        /\ j.wallet = req[r].wallet /\ j.got = req[r].got /\ j.over = req[r].over
        /\ j.step = "send"
        BY <1>3 DEF TradeType
  <2> HIDE DEF j
  <2>3. k \in TradeType /\ Alike(k, j)  BY <1>4, <2>1, CountedType
  <2>4. l = [k EXCEPT !.tx = req[r].tx + 1]  BY <1>3 DEF TradeType, j
  <2> HIDE DEF k
  <2>5. req[r].tx + 1 \in Nat  BY <1>3 DEF TradeType
  <2>6. l \in TradeType /\ Alike(l, k)  BY <2>3, <2>4, <2>5, CountedType
  <2>7. QED  BY <2>2, <2>3, <2>6 DEF Alike
<1> HIDE DEF l
<1>7. SharedTypeOK' /\ LogsArePast' /\ Grows /\ settings' = settings
      BY UpdateLogGrows DEF Quote
<1>8. QED  BY <1>2, <1>5, <1>6, <1>7, TradeSteps

\* Another attempt, the next endpoint, or an error.
LEMMA RetriedType ==
    ASSUME NEW l \in TradeType, NEW retryable, l.step = "send",
           NEW m, m = Retried(l, retryable)
    PROVE  /\ m \in TradeType /\ m.step \in {"send", "fail"}
           /\ m.op = l.op /\ m.named = l.named /\ m.id = l.id
           /\ m.wallet = l.wallet /\ m.got = l.got /\ m.over = l.over
<1>1. l.tries + 1 \in Nat /\ l.url + 1 \in Nat  BY DEF TradeType
<1>2. \/ \E n \in Nat : m = [l EXCEPT !.tries = n]
      \/ \E n \in Nat : m = [l EXCEPT !.url = n, !.tries = 1]
      \/ m = [l EXCEPT !.step = "fail"]
      BY <1>1 DEF Retried
<1>3. CASE \E n \in Nat : m = [l EXCEPT !.tries = n]
  <2>1. m \in TradeType /\ Alike(m, l)  BY <1>3, CountedType
  <2>2. QED  BY <2>1 DEF Alike
<1>4. CASE \E n \in Nat : m = [l EXCEPT !.url = n, !.tries = 1]
  <2>1. PICK n \in Nat : m = [l EXCEPT !.url = n, !.tries = 1]  BY <1>4
  <2> DEFINE k == [l EXCEPT !.url = n]
  <2>2. k \in TradeType /\ Alike(k, l)  BY CountedType
  <2>3. m = [k EXCEPT !.tries = 1]  BY <2>1
  <2> HIDE DEF k
  <2>4. 1 \in Nat  OBVIOUS
  <2>5. [k EXCEPT !.tries = 1] \in TradeType /\ Alike([k EXCEPT !.tries = 1], k)
        BY <2>2, <2>4, CountedType, Zenon
  <2>6. QED  BY <2>2, <2>3, <2>5 DEF Alike
<1>5. CASE m = [l EXCEPT !.step = "fail"]
  <2>1. m \in TradeType  BY <1>5 DEF TradeType
  <2>2. QED  BY <1>5, <2>1 DEF TradeType
<1>6. QED  BY <1>2, <1>3, <1>4, <1>5

\* What a trade sends.
LEMMA SignatureType ==
    ASSUME WalletInv, NEW r \in Requests, req[r].op \in {"trade", "controlled"}
    PROVE  Signature(r) \in Transactions
<1>1. req[r] \in TradeType  BY IsLocal, LocalByOp
<1>2. QED  BY <1>1 DEF TradeType, Signature, Transactions

\* A transaction is sent, once more or for the first time.
LEMMA SentGrows ==
    ASSUME WalletInv, NEW r \in Requests, req[r].op \in {"trade", "controlled"},
           sent' \in {sent, sent \cup {Signature(r)}},
           UNCHANGED <<registry, wallets, now, chain, landed>>
    PROVE  SharedTypeOK' /\ LogsArePast' /\ Grows /\ settings' = settings
<1>1. SharedTypeOK /\ LogsArePast  BY DEF WalletInv, WalletTypeOK
<1>2. Signature(r) \in Transactions  BY SignatureType
<1>3. sent' \in SUBSET Transactions  BY <1>1, <1>2 DEF SharedTypeOK
<1>4. SharedTypeOK' /\ LogsArePast'
      BY <1>1, <1>3 DEF SharedTypeOK, LogsArePast, registry, wallets
<1>5. Grows  BY Sizes DEF Grows, wallets
<1>6. QED  BY <1>4, <1>5 DEF registry

\* An endpoint takes the transaction, or it fails there.
LEMMA AttemptSteps ==
    ASSUME WalletInv, NEW r \in Requests, AttemptFails(r) \/ AttemptSucceeds(r)
    PROVE  Steps(r)
<1>1. req[r] \in Locals /\ req[r].step = "send"
      BY IsLocal DEF AttemptFails, AttemptSucceeds, At
<1>2. req[r].op \in {"trade", "controlled"}  BY <1>1, OpByStep
<1>3. req[r] \in TradeType  BY <1>1, <1>2, LocalByOp
<1>4. CASE AttemptFails(r)
  <2>1. PICK retryable \in BOOLEAN : req' = [req EXCEPT ![r] = Retried(@, retryable)]
        BY <1>4 DEF AttemptFails
  <2>2. sent' \in {sent, sent \cup {Signature(r)}}  BY <1>4 DEF AttemptFails
  <2>3. SharedTypeOK' /\ LogsArePast' /\ Grows /\ settings' = settings
        BY <1>2, <1>4, <2>2, SentGrows DEF AttemptFails
  <2> DEFINE m == Retried(req[r], retryable)
  <2>4. /\ m \in TradeType /\ m.step \in {"send", "fail"}
        /\ m.op = req[r].op /\ m.named = req[r].named /\ m.id = req[r].id
        /\ m.wallet = req[r].wallet /\ m.got = req[r].got /\ m.over = req[r].over
        BY <1>1, <1>3, RetriedType
  <2>5. req' = [req EXCEPT ![r] = m]  BY <2>1
  <2> HIDE DEF m
  <2>6. QED  BY <1>2, <2>3, <2>4, <2>5, TradeSteps
<1>5. CASE AttemptSucceeds(r)
  <2>1. SharedTypeOK' /\ LogsArePast' /\ Grows /\ settings' = settings
        BY <1>2, <1>5, SentGrows DEF AttemptSucceeds
  <2> DEFINE m == [req[r] EXCEPT !.step = "record", !.signature = Signature(r)]
  <2>2. req' = [req EXCEPT ![r] = m]
        BY <1>3, <1>5 DEF AttemptSucceeds, WalletInv, WalletTypeOK, TradeType
  <2>3. /\ m \in TradeType /\ m.step = "record"
        /\ m.op = req[r].op /\ m.named = req[r].named /\ m.id = req[r].id
        /\ m.wallet = req[r].wallet /\ m.got = req[r].got /\ m.over = req[r].over
        BY <1>2, <1>3, SignatureType DEF TradeType
  <2> HIDE DEF m
  <2>4. QED  BY <1>2, <2>1, <2>2, <2>3, TradeSteps
<1>6. QED  BY <1>4, <1>5

\* The statements of a trade around its transaction.
LEMMA EndOfTradeSteps ==
    ASSUME WalletInv, NEW r \in Requests,
           \/ CheckKey(r) \/ LoadKey(r) \/ DecimalsFail(r) \/ QuoteFails(r)
           \/ Record(r) \/ RecordFails(r) \/ MarkFailed(r)
    PROVE  Steps(r)
<1>1. CASE CheckKey(r) \/ LoadKey(r)
  <2>1. PICK s \in {"secret", "log", "failed"} : To(r, s)  BY <1>1 DEF CheckKey, LoadKey
  <2>2. req[r].step \in {"key", "secret"} /\ UNCHANGED <<registry, wallets, world>>
        BY <1>1 DEF CheckKey, LoadKey, At
  <2>3. QED  BY <2>1, <2>2, SharedStays, TradeGoesOn
<1>2. CASE DecimalsFail(r)
      BY <1>2, SharedStays, TradeGoesOn DEF DecimalsFail, At
<1>3. CASE QuoteFails(r)
      BY <1>3, SharedStays, TradeGoesOn DEF QuoteFails, At
<1>4. CASE Record(r)
  <2>1. req[r] \in Locals /\ req[r].step = "record"  BY <1>4, IsLocal DEF Record, At
  <2>2. req[r].signature \in Transactions \cup {None}
        BY <2>1, OpByStep, LocalByOp DEF TradeType
  <2>3. PICK timed \in BOOLEAN : UpdateLog(r, "PENDING", req[r].signature, timed)
        BY <1>4 DEF Record, Times
  <2>4. SharedTypeOK' /\ LogsArePast' /\ Grows /\ settings' = settings
        BY <1>4, <2>2, <2>3, UpdateLogGrows DEF Record
  <2>5. QED  BY <1>4, <2>1, <2>4, TradeGoesOn DEF Record
<1>5. CASE RecordFails(r)
  <2>1. req[r] \in Locals /\ req[r].step = "record"  BY <1>5, IsLocal DEF RecordFails, At
  <2>2. req[r].op \in {"trade", "controlled"} /\ req[r] \in TradeType
        BY <2>1, OpByStep, LocalByOp
  <2>3. PICK timed \in BOOLEAN : req' = [req EXCEPT ![r].step = "fail", ![r].timed = timed]
        BY <1>5 DEF RecordFails, Times
  <2> DEFINE m == [req[r] EXCEPT !.step = "fail", !.timed = timed]
  <2>4. req' = [req EXCEPT ![r] = m]  BY <2>2, <2>3 DEF WalletInv, WalletTypeOK, TradeType
  <2>5. /\ m \in TradeType /\ m.step = "fail"
        /\ m.op = req[r].op /\ m.named = req[r].named /\ m.id = req[r].id
        /\ m.wallet = req[r].wallet /\ m.got = req[r].got /\ m.over = req[r].over
        BY <2>2 DEF TradeType
  <2> HIDE DEF m
  <2>6. QED  BY <1>5, <2>2, <2>4, <2>5, SharedStays, TradeSteps DEF RecordFails
<1>6. CASE MarkFailed(r)
  <2>1. req[r] \in Locals /\ req[r].step = "fail"  BY <1>6, IsLocal DEF MarkFailed, At
  <2>2. req[r].signature \in Transactions \cup {None} /\ req[r].timed \in BOOLEAN
        BY <2>1, OpByStep, LocalByOp DEF TradeType
  <2>3. SharedTypeOK' /\ LogsArePast' /\ Grows /\ settings' = settings
        BY <1>6, <2>2, UpdateLogGrows DEF MarkFailed
  <2>4. QED  BY <1>6, <2>1, <2>3, TradeGoesOn DEF MarkFailed
<1>7. QED  BY <1>1, <1>2, <1>3, <1>4, <1>5, <1>6

\* The logs' missing times are read, and written.
LEMMA BackfillSteps ==
    ASSUME WalletInv, NEW r \in Requests, ReadUntimed(r) \/ WriteTimes(r)
    PROVE  Steps(r)
<1>1. req[r] \in Locals /\ req[r].op = "backfill"
      BY IsLocal, OpByStep DEF ReadUntimed, WriteTimes, At
<1>2. req[r] \in BackfillType  BY <1>1, LocalByOp
<1>3. CASE ReadUntimed(r)
  <2> DEFINE rows == {i \in DOMAIN logs : logs[i].signature # None /\ ~ logs[i].timed}
             s == IF rows = {} THEN "done" ELSE "times"
             l == [req[r] EXCEPT !.rows = rows, !.step = s]
  <2>1. rows \in SUBSET Nat  BY Sizes
  <2>2. req' = [req EXCEPT ![r].rows = rows, ![r].step = s]  BY <1>3 DEF ReadUntimed
  <2>3. s \in {"done", "times"}  OBVIOUS
  <2> HIDE DEF rows, s
  <2>4. req' = [req EXCEPT ![r] = l]  BY <1>2, <2>2 DEF WalletInv, WalletTypeOK, BackfillType
  <2>5. l \in BackfillType /\ l.op = "backfill" /\ l.step \notin {"usdc", "tokens", "store"}
        BY <1>2, <2>1, <2>3 DEF BackfillType, Ended
  <2> HIDE DEF l
  <2>6. l \in Locals  BY <2>5 DEF Locals
  <2>7. QED  BY <1>3, <2>4, <2>5, <2>6, SharedStays, WritesLocal DEF ReadUntimed
<1>4. CASE WriteTimes(r)
  <2> DEFINE f(l) == [l EXCEPT !.timed = TRUE, !.at = now]
  <2>1. PICK found : logs' = [i \in DOMAIN logs |-> IF i \in found THEN f(logs[i]) ELSE logs[i]]
        BY <1>4 DEF WriteTimes
  <2>2. \A i \in DOMAIN logs : logs[i] \in LogRow  BY Sizes
  <2>3. \A l \in LogRow : f(l) \in LogRow /\ f(l).wallet = l.wallet /\ f(l).at = now
        BY Sizes DEF LogRow
  <2> HIDE DEF f
  <2>4. DOMAIN logs' = DOMAIN logs /\ logs' = [i \in DOMAIN logs |-> logs'[i]]  BY <2>1
  <2>5. \A i \in DOMAIN logs :
            \/ logs'[i] = logs[i]
            \/ logs'[i] \in LogRow /\ logs'[i].wallet = logs[i].wallet /\ logs'[i].at = now
        BY <2>1, <2>2, <2>3
  <2>6. SharedTypeOK' /\ LogsArePast' /\ Grows /\ settings' = settings
        BY <1>4, <2>4, <2>5, LogsGrow DEF WriteTimes
  <2>7. [req[r] EXCEPT !.step = "done"] \in Locals  BY <1>1, MayGo DEF Ended
  <2>8. QED  BY <1>1, <1>4, <2>6, <2>7, GoesOn DEF WriteTimes, Onward, AtEnd
<1>5. QED  BY <1>3, <1>4

-----------------------------------------------------------------------------
(* The chain and the clock, and requests that begin *)

\* A step of the world alone.
LEMMA WorldKeeps ==
    ASSUME WalletInv, SharedTypeOK', LogsArePast', Grows, UNCHANGED <<req, settings>>
    PROVE  WalletInv'
<1>1. now' \in Nat /\ Cardinality(landed)' \in Nat
      BY FS_CardinalityType DEF SharedTypeOK
<1>2. \A j \in DOMAIN logs' : logs'[j].at \in Nat
  <2>1. logs' \in Seq(LogRow)  BY DEF SharedTypeOK
  <2>2. \A m \in LogRow : m.at \in Nat  BY DEF LogRow
  <2>3. QED  BY <2>1, <2>2, Elements
<1>3. \A q \in Requests : Fits(q)'  BY <1>1, <1>2, FitsOutlives DEF Fits
<1>4. QED  BY <1>3 DEF WalletInv, WalletTypeOK

\* One transaction more has landed.
LEMMA LandedGrows ==
    ASSUME WalletInv, NEW s \in Transactions, landed' = landed \cup {s}
    PROVE  /\ landed' \in SUBSET Transactions /\ IsFiniteSet(landed')
           /\ Cardinality(landed) <= Cardinality(landed')
<1>1. landed \in SUBSET Transactions /\ IsFiniteSet(landed)
      BY DEF WalletInv, WalletTypeOK, SharedTypeOK
<1>2. IsFiniteSet(landed')  BY <1>1, FS_AddElement
<1>3. Cardinality(landed) <= Cardinality(landed')  BY <1>2, FS_Subset
<1>4. QED  BY <1>1, <1>2, <1>3

\* One unit of mint m less, or more, in wallet w.
LEMMA TransferType ==
    ASSUME NEW f \in [Wallets -> [Mints -> Nat]], NEW w, NEW m
    PROVE  /\ f[w][m] # 0 => [f EXCEPT ![w][m] = @ - 1] \in [Wallets -> [Mints -> Nat]]
           /\ [f EXCEPT ![w][m] = @ + 1] \in [Wallets -> [Mints -> Nat]]
<1>1. CASE w \in Wallets
  <2>1. f[w] \in [Mints -> Nat]  BY <1>1
  <2>2. m \in Mints => f[w][m] + 1 \in Nat /\ (f[w][m] # 0 => f[w][m] - 1 \in Nat)  BY <2>1
  <2>3. /\ f[w][m] # 0 => [f[w] EXCEPT ![m] = @ - 1] \in [Mints -> Nat]
        /\ [f[w] EXCEPT ![m] = @ + 1] \in [Mints -> Nat]
        BY <2>1, <2>2
  <2>4. QED  BY <1>1, <2>3
<1>2. CASE w \notin Wallets  BY <1>2
<1>3. QED  BY <1>1, <1>2

\* A transaction that was sent lands on the chain.
LEMMA LandKeeps ==
    ASSUME WalletInv, NEW s \in sent, Land(s)
    PROVE  WalletInv'
<1>1. SharedTypeOK /\ LogsArePast  BY DEF WalletInv, WalletTypeOK
<1>2. s \in Transactions  BY <1>1 DEF SharedTypeOK
<1>3. chain \in [Wallets -> [Mints -> Nat]]  BY <1>1 DEF SharedTypeOK
<1>4. chain' \in [Wallets -> [Mints -> Nat]]
  <2>1. CASE chain' = chain  BY <1>3, <2>1
  <2>2. CASE chain' # chain
    <3>1. PICK w, a, b :
              /\ chain[w][a] # 0
              /\ chain' = [[chain EXCEPT ![w][a] = @ - 1] EXCEPT ![w][b] = @ + 1]
          BY <2>2, Zenon DEF Land
    <3>2. [chain EXCEPT ![w][a] = @ - 1] \in [Wallets -> [Mints -> Nat]]
          BY <1>3, <3>1, TransferType
    <3>3. QED  BY <3>1, <3>2, TransferType
  <2>3. QED  BY <2>1, <2>2
<1>5. landed' = landed \cup {s}  BY DEF Land
<1>6. SharedTypeOK' /\ LogsArePast'
      BY <1>1, <1>2, <1>4, <1>5, LandedGrows DEF Land, SharedTypeOK, LogsArePast, registry, wallets
<1>7. Grows
  <2>1. Cardinality(landed) <= Cardinality(landed')  BY <1>2, <1>5, LandedGrows
  <2>2. accounts' = accounts /\ logs' = logs /\ now' = now  BY DEF Land, wallets
  <2>3. QED  BY <2>1, <2>2, Sizes DEF Grows
<1>8. QED  BY <1>6, <1>7, WorldKeeps DEF Land, registry

\* Time passes.
LEMMA TickKeeps ==
    ASSUME WalletInv, Tick
    PROVE  WalletInv'
<1>1. SharedTypeOK /\ LogsArePast  BY DEF WalletInv, WalletTypeOK
<1>2. SharedTypeOK'  BY <1>1 DEF Tick, SharedTypeOK, registry
<1>3. LogsArePast' /\ Grows  BY <1>1, Sizes DEF Tick, LogsArePast, Grows
<1>4. QED  BY <1>2, <1>3, WorldKeeps DEF Tick, registry

\* USDC arrives at a wallet.
LEMMA DepositKeeps ==
    ASSUME WalletInv, NEW r \in Requests, Deposit(r)
    PROVE  WalletInv'
<1>1. SharedTypeOK /\ LogsArePast  BY DEF WalletInv, WalletTypeOK
<1>2. PICK w \in Named :
          /\ Begin(r, [op |-> "deposit", step |-> "done", wallet |-> w])
          /\ chain' = [chain EXCEPT ![w][Usdc] = @ + 1]
      BY DEF Deposit
<1> DEFINE l == [op |-> "deposit", step |-> "done", wallet |-> w]
<1>3. l \in DepositType  BY WalletAssumption DEF DepositType
<1>4. l \in Locals /\ l.op = "deposit" /\ l.step = "done"  BY <1>3 DEF Locals
<1>5. req' = [req EXCEPT ![r] = l]  BY <1>2 DEF Begin
<1> HIDE DEF l
<1>6. chain' \in [Wallets -> [Mints -> Nat]]
  <2>1. chain \in [Wallets -> [Mints -> Nat]] /\ Usdc \in Mints /\ w \in Wallets
        BY <1>1, RegistryAssumption, WalletAssumption DEF SharedTypeOK, Mints
  <2>2. chain[w][Usdc] + 1 \in Nat  BY <2>1
  <2>3. QED  BY <1>2, <2>1, <2>2
<1>7. <<r, 1>> \in Transactions /\ landed' = landed \cup {<<r, 1>>}  BY DEF Transactions, Deposit
<1>8. SharedTypeOK' /\ LogsArePast'
      BY <1>1, <1>6, <1>7, LandedGrows
         DEF Deposit, SharedTypeOK, LogsArePast, registry, wallets
<1>9. Grows
  <2>1. Cardinality(landed) <= Cardinality(landed')  BY <1>7, LandedGrows
  <2>2. accounts' = accounts /\ logs' = logs /\ now' = now  BY DEF Deposit, wallets
  <2>3. QED  BY <2>1, <2>2, Sizes DEF Grows
<1>10. Steps(r)  BY <1>4, <1>5, <1>8, <1>9, WritesLocal DEF Deposit, registry
<1>11. QED  BY <1>10, StepKeeps

\* What a trade knows when it begins: which logged trades are over.
LEMMA BeginTradeKeeps ==
    ASSUME WalletInv, NEW r \in Requests, NEW op \in {"trade", "controlled"},
           NEW side \in {"BUY", "SELL"}, NEW base \in Bases, NEW w \in Wallets \cup {None},
           op = "controlled" => w # None, Begin(r, TradeTask(op, side, base, w)),
           UNCHANGED <<registry, wallets, world>>
    PROVE  WalletInv'
<1> DEFINE l == TradeTask(op, side, base, w)
           over == {[wallet |-> logs[i].wallet, at |-> logs[i].at] :
                       i \in {j \in DOMAIN logs : req[logs[j].by].step \in Ended}}
<1>1. over \in SUBSET [wallet : Wallets \cup {None}, at : Nat]
  <2>1. \A i \in DOMAIN logs : logs[i] \in LogRow  BY Sizes
  <2>2. \A m \in LogRow : m.wallet \in Wallets \cup {None} /\ m.at \in Nat  BY DEF LogRow
  <2>3. QED  BY <2>1, <2>2
<1>2. \A o \in over : \E j \in DOMAIN logs : logs[j].wallet = o.wallet /\ o.at <= logs[j].at
      BY Sizes
<1>3. l = [op |-> op, step |-> IF w = None THEN "pick" ELSE "named",
           side |-> side, base |-> base, wallet |-> w, named |-> w # None,
           id |-> 0, todo |-> <<>>, mints |-> {}, got |-> None, log |-> 0,
           urls |-> 0, url |-> 1, tries |-> 1, tx |-> 0, signature |-> None,
           timed |-> FALSE, over |-> over]
      BY DEF TradeTask
<1> HIDE DEF over
<1>4. l \in TradeType  BY <1>1, <1>3 DEF TradeType, Got
<1>5. /\ l.op = op /\ l.step = (IF w = None THEN "pick" ELSE "named") /\ l.named = (w # None)
      /\ l.id = 0 /\ l.over = over
      BY <1>3
<1>6. l \in Locals /\ req' = [req EXCEPT ![r] = l]  BY <1>4 DEF Locals, Begin
<1> HIDE DEF l
<1>7. req'[r] = l  BY <1>6 DEF WalletInv, WalletTypeOK
<1>8. OverAreLogged(r)'  BY <1>2, <1>5, <1>7 DEF OverAreLogged, wallets
<1>9. TradeFits(r)'  BY <1>5, <1>7, <1>8 DEF TradeFits
<1>10. Fits(r)'  BY <1>5, <1>7, <1>9 DEF Fits, ReadingFits, RefreshFits, DeleteFits
<1>11. QED  BY <1>6, <1>10, LocalStep, StepKeeps

\* A request on wallets begins.
LEMMA BeginWalletsKeeps ==
    ASSUME WalletInv, NEW r \in Requests, BeginWallets(r)
    PROVE  WalletInv'
<1>1. UNCHANGED <<registry, wallets, world>>  BY DEF BeginWallets
<1>2. settings \in SettingsType  BY DEF WalletInv, WalletTypeOK, SharedTypeOK
<1>3. CASE BeginTrade(r)
  <2>1. PICK side \in {"BUY", "SELL"}, w \in Named \cup {None},
             base \in (Traded \cup {settings.base}) \ {None} :
                 Begin(r, TradeTask("trade", side, base, w))
        BY <1>3 DEF BeginTrade
  <2>2. w \in Wallets \cup {None} /\ base \in Bases
        BY <1>2, WalletAssumption DEF SettingsType
  <2>3. QED  BY <1>1, <2>1, <2>2, BeginTradeKeeps
<1>4. CASE BeginControlled(r)
  <2>1. PICK side \in {"BUY", "SELL"}, w \in Wallets, base \in Bases :
                 Begin(r, TradeTask("controlled", side, base, w))
        BY <1>4 DEF BeginControlled
  <2>2. QED  BY <1>1, <2>1, BeginTradeKeeps, WalletAssumption
<1>5. CASE BeginBalance(r)
  <2>1. PICK w \in Named, op \in {"balance", "refresh"} :
            Begin(r, [op |-> op, step |-> IF op = "balance" THEN "look" ELSE "invalidate",
                      wallet |-> w, mint |-> settings.base, mints |-> TrackedMints,
                      got |-> None, began |-> Cardinality(landed)])
        BY <1>5 DEF BeginBalance
  <2> DEFINE l == [op |-> op, step |-> IF op = "balance" THEN "look" ELSE "invalidate",
                   wallet |-> w, mint |-> settings.base, mints |-> TrackedMints,
                   got |-> None, began |-> Cardinality(landed)]
  <2>2. TrackedMints \in SUBSET Bases /\ settings.base \in Bases \cup {None} /\ w \in Wallets
        BY <1>2, WalletAssumption DEF SettingsType, TrackedMints, Pairs
  <2>3. l \in BalanceType \cup RefreshType
        BY <2>2, Sizes DEF BalanceType, RefreshType, Got
  <2>4. l.op = op /\ l.step \in {"look", "invalidate"} /\ l.began = Cardinality(landed)  OBVIOUS
  <2>5. req' = [req EXCEPT ![r] = l]  BY <2>1 DEF Begin
  <2> HIDE DEF l
  <2>6. l \in Locals  BY <2>3 DEF Locals
  <2>7. req'[r] = l  BY <2>5 DEF WalletInv, WalletTypeOK
  <2>8. RefreshFits(r)'  BY <1>1, <2>4, <2>7, Sizes DEF RefreshFits, world
  <2>9. Fits(r)'  BY <2>4, <2>7, <2>8 DEF Fits, ReadingFits, TradeFits, DeleteFits
  <2>10. QED  BY <1>1, <2>5, <2>6, <2>9, LocalStep, StepKeeps
<1>6. CASE BeginAccount(r)
  <2>1. CASE \E w \in Named : Begin(r, [op |-> "key", step |-> "key-import", wallet |-> w])
    <3>1. PICK w \in Named : Begin(r, [op |-> "key", step |-> "key-import", wallet |-> w])
          BY <2>1
    <3>2. [op |-> "key", step |-> "key-import", wallet |-> w] \in KeyType
          BY WalletAssumption DEF KeyType
    <3>3. QED  BY <1>1, <3>1, <3>2, BeginSteps DEF Locals
  <2>2. CASE \E n \in 1..Len(Derived) :
                 Begin(r, [op |-> "import", step |-> "scan", count |-> n, todo |-> {}])
    <3>1. PICK n \in 1..Len(Derived) :
              Begin(r, [op |-> "import", step |-> "scan", count |-> n, todo |-> {}])
          BY <2>2
    <3>2. [op |-> "import", step |-> "scan", count |-> n, todo |-> {}] \in ImportType
          BY WalletAssumption DEF ImportType
    <3>3. QED  BY <1>1, <3>1, <3>2, BeginSteps DEF Locals
  <2>3. CASE \E w \in Named, to \in {"on", "off", "deleted"} :
                 Begin(r, [op |-> "account", step |-> "account", wallet |-> w, to |-> to, id |-> 0])
    <3>1. PICK w \in Named, to \in {"on", "off", "deleted"} :
              Begin(r, [op |-> "account", step |-> "account", wallet |-> w, to |-> to, id |-> 0])
          BY <2>3
    <3>2. [op |-> "account", step |-> "account", wallet |-> w, to |-> to, id |-> 0] \in AccountType
          BY WalletAssumption DEF AccountType
    <3>3. QED  BY <1>1, <3>1, <3>2, BeginSteps DEF Locals
  <2>4. QED  BY <1>6, <2>1, <2>2, <2>3 DEF BeginAccount
<1>7. CASE BeginBackfill(r)
  <2>1. [op |-> "backfill", step |-> "rows", rows |-> {}] \in BackfillType  BY DEF BackfillType
  <2>2. QED  BY <1>1, <1>7, <2>1, BeginSteps DEF Locals, BeginBackfill
<1>8. QED  BY <1>3, <1>4, <1>5, <1>6, <1>7 DEF BeginWallets

\* Every step on the wallets.
LEMMA WalletKeeps ==
    ASSUME WalletInv, NEW r \in Requests, WalletStep(r)
    PROVE  WalletInv'
<1>1. CASE BeginWallets(r)  BY <1>1, BeginWalletsKeeps
<1>2. CASE \/ ImportKey(r) \/ ScanPhrase(r) \/ ImportNext(r) \/ FindAccount(r) \/ WriteAccount(r)
      BY <1>2, ImportKeySteps, ScanPhraseSteps, ImportNextSteps, FindAccountSteps,
         WriteAccountSteps, StepKeeps
<1>3. CASE \/ ReadUsdc(r) \/ ReadTokens(r) \/ ReadFails(r)
           \/ LookUp(r) \/ Invalidate(r) \/ StoreSnapshot(r)
      BY <1>3, ReadUsdcSteps, ReadTokensSteps, ReadFailsSteps, LookUpSteps, InvalidateSteps,
         StoreSnapshotSteps, StepKeeps
<1>4. CASE CheckAccount(r) \/ ListCandidates(r) \/ Judge(r)
      BY <1>4, CheckAccountSteps, ListCandidatesSteps, JudgeSteps, StepKeeps
<1>5. CASE InsertLog(r) \/ Quote(r) \/ AttemptFails(r) \/ AttemptSucceeds(r)
      BY <1>5, InsertLogSteps, QuoteSteps, AttemptSteps, StepKeeps
<1>6. CASE \/ CheckKey(r) \/ LoadKey(r) \/ DecimalsFail(r) \/ QuoteFails(r)
           \/ Record(r) \/ RecordFails(r) \/ MarkFailed(r)
      BY <1>6, EndOfTradeSteps, StepKeeps
<1>7. CASE ReadUntimed(r) \/ WriteTimes(r)  BY <1>7, BackfillSteps, StepKeeps
<1>8. QED  BY <1>1, <1>2, <1>3, <1>4, <1>5, <1>6, <1>7 DEF WalletStep

-----------------------------------------------------------------------------
(* Signing *)

Trading == {"trade", "controlled"}

\* Before its transaction is signed.
Early == {"pick", "named", "judge", "usdc", "tokens", "key", "secret", "log", "quote"}

\* A trade that is at l has signed nothing before it sends, and one transaction
\* from then on: no attempt takes it back to where a transaction is signed.
SignsOnce(r, l, rows) ==
    /\ l.step \in Early => l.tx = 0
    /\ l.step = "send" => l.tx = 1
    /\ l.signature \in {None, <<r, 1>>}
    /\ l.log # 0 => l.log \in DOMAIN rows /\ rows[l.log].by = r

\* What a trade has signed, and where that is written.
SameTrade(k, l) == k.tx = l.tx /\ k.signature = l.signature /\ k.log = l.log

\* What was sent, what has landed and what the rows name is the first transaction.
FirstOnly ==
    /\ sent \subseteq Requests \X {1}
    /\ landed \subseteq Requests \X {1}
    /\ \A i \in DOMAIN logs : logs[i].signature \in {None, <<logs[i].by, 1>>}

\* A step after which that still holds, and the rows are of the trades they were of.
KeepsSigned ==
    /\ FirstOnly'
    /\ \A i \in DOMAIN logs : i \in DOMAIN logs' /\ logs'[i].by = logs[i].by

SigningInv == FirstOnly /\ \A r \in Requests : req[r].op \in Trading => SignsOnce(r, req[r], logs)

\* The local variables of one request are written.
LEMMA SigningStep ==
    ASSUME WalletInv, SigningInv, NEW r \in Requests, NEW m, req' = [req EXCEPT ![r] = m],
           m.op \in Trading => SignsOnce(r, m, logs'), KeepsSigned
    PROVE  SigningInv'
<1>1. req \in [Requests -> Locals]  BY DEF WalletInv, WalletTypeOK
<1>2. SUFFICES ASSUME NEW q \in Requests, req'[q].op \in Trading  PROVE SignsOnce(q, req'[q], logs')
      BY DEF SigningInv, KeepsSigned
<1>3. CASE q = r
  <2>1. req'[q] = m  BY <1>1, <1>3
  <2>2. QED  BY <1>2, <1>3, <2>1 DEF SignsOnce
<1>4. CASE q # r
  <2>1. req'[q] = req[q]  BY <1>1, <1>4
  <2>2. SignsOnce(q, req[q], logs)  BY <1>2, <2>1 DEF SigningInv
  <2>3. QED  BY <2>1, <2>2 DEF SignsOnce, KeepsSigned
<1>5. QED  BY <1>3, <1>4

\* A trade that goes on from where nothing is signed yet, or after it was sent.
LEMMA LeavesSigned ==
    ASSUME WalletInv, SigningInv, NEW r \in Requests, req[r].op \in Trading,
           NEW m, req' = [req EXCEPT ![r] = m],
           SameTrade(m, req[r]),
           m.step # "send", m.step \in Early => req[r].step \in Early, KeepsSigned
    PROVE  SigningInv'
<1>1. SignsOnce(r, req[r], logs)  BY DEF SigningInv
<1>2. SignsOnce(r, m, logs')  BY <1>1 DEF SignsOnce, SameTrade, KeepsSigned
<1>3. QED  BY <1>2, SigningStep

\* A request that only goes to the step s.
LEMMA ToLeavesSigned ==
    ASSUME WalletInv, SigningInv, NEW r \in Requests, NEW s, To(r, s), s # "send",
           req[r].op \in Trading /\ s \in Early => req[r].step \in Early, KeepsSigned
    PROVE  SigningInv'
<1> DEFINE m == [req[r] EXCEPT !.step = s]
<1>1. req' = [req EXCEPT ![r] = m]  BY DEF To
<1>2. req[r] \in Locals  BY IsLocal
<1>3. /\ m.op = req[r].op /\ m.step = s
      /\ req[r].op \in Trading => SameTrade(m, req[r])
      BY <1>2, GoesWith DEF Trading, SameTrade
<1> HIDE DEF m
<1>4. CASE req[r].op \in Trading  BY <1>1, <1>3, <1>4, LeavesSigned
<1>5. CASE req[r].op \notin Trading  BY <1>1, <1>3, <1>5, SigningStep
<1>6. QED  BY <1>4, <1>5

\* What is signed is left.
LEMMA SameSigned ==
    ASSUME SigningInv, UNCHANGED <<logs, sent, landed>>
    PROVE  KeepsSigned
BY DEF SigningInv, FirstOnly, KeepsSigned

\* A request that begins, and is no trade.
LEMMA BeginsUnsigned ==
    ASSUME WalletInv, SigningInv, NEW r \in Requests, NEW l, Begin(r, l), l.op \notin Trading,
           KeepsSigned
    PROVE  SigningInv'
<1>1. req' = [req EXCEPT ![r] = l]  BY DEF Begin
<1>2. QED  BY <1>1, SigningStep

\* The requests of the registry are no trades.
LEMMA RegistrySigns ==
    ASSUME WalletInv, SigningInv, NEW r \in Requests, RegistryStep(r),
           UNCHANGED <<wallets, world>>
    PROVE  SigningInv'
<1>1. req[r] \in Locals  BY IsLocal
<1>2. KeepsSigned  BY SameSigned DEF wallets, world
<1>3. \A s \in {"find", "insert", "persist", "save", "ensure", "done", "failed", "untrack", "active",
                 "clear", "drop"} : To(r, s) => SigningInv'
      BY <1>2, ToLeavesSigned DEF Early
<1>4. CASE FindExisting(r) \/ CreateThrows(r) \/ EnsureToken(r)
      BY <1>3, <1>4 DEF FindExisting, CreateThrows, EnsureToken
<1>5. CASE InsertToken(r) \/ PersistToken(r)
  <2>1. Track(r) => To(r, "save") \/ To(r, "done")  BY DEF Track, AfterCreate
  <2>2. QED  BY <1>3, <1>5, <2>1 DEF InsertToken, PersistToken
<1>6. CASE ReadToken(r) \/ Untrack(r) \/ ReadActive(r)
      BY <1>3, <1>6 DEF ReadToken, Untrack, ReadActive
<1>7. CASE AddEndpoint(r) \/ ReadEndpoint(r) \/ DeleteEndpoint(r)
      BY <1>3, <1>7 DEF AddEndpoint, ReadEndpoint, DeleteEndpoint
<1>8. CASE SaveSettings(r) \/ ClearActive(r)
  <2>1. PICK to : PutSettings(r, to)  BY <1>8 DEF SaveSettings, ClearActive
  <2>2. req[r].op \in {"save", "activate", "delete"}
        BY <1>1, <1>8, OpByStep DEF SaveSettings, ClearActive, At
  <2>3. ASSUME NEW q \in Requests, req'[q].op \in Trading  PROVE req'[q] = req[q]
    <3>1. req[q] \in Locals  BY IsLocal
    <3>2. CASE q = r
      <4> DEFINE s == IF req[r].op = "activate" /\ to.base # None THEN "ensure" ELSE "done"
      <4>1. req'[q] = [req[r] EXCEPT !.step = s]  BY <2>1, <3>2 DEF PutSettings
      <4> HIDE DEF s
      <4>2. req'[q].op = req[r].op  BY <1>1, <4>1, GoesWith
      <4>3. QED  BY <2>2, <2>3, <4>2 DEF Trading
    <3>3. CASE q # r /\ req'[q] # req[q]
      <4>1. req[q].op = "delete" /\ req'[q] = [req[q] EXCEPT !.again = TRUE]
            BY <2>1, <3>3 DEF PutSettings
      <4>2. req[q] \in DeleteType  BY <3>1, <4>1, LocalByOp
      <4>3. req'[q].op = "delete"  BY <4>1, <4>2 DEF DeleteType
      <4>4. QED  BY <2>3, <4>3 DEF Trading
    <3>4. QED  BY <3>2, <3>3
  <2>4. QED  BY <1>2, <2>3 DEF SigningInv, SignsOnce, KeepsSigned
<1>9. CASE BeginRegistry(r)
  <2>1. CASE BeginSave(r)
    <3>1. PICK to \in Savable :
              Begin(r, [op |-> "save", step |-> IF to.base = None THEN "save" ELSE "find",
                       pair |-> <<to.base, Usdc>>, to |-> to])
          BY <2>1 DEF BeginSave
    <3>2. [op |-> "save", step |-> IF to.base = None THEN "save" ELSE "find",
                       pair |-> <<to.base, Usdc>>, to |-> to].op \notin Trading
          BY DEF Trading
    <3>3. QED  BY <1>2, <3>1, <3>2, BeginsUnsigned
  <2>2. CASE BeginActivate(r)
    <3>1. PICK to \in Savable :
              Begin(r, [op |-> "activate", step |-> "save", pair |-> NamedPair(to), to |-> to])
          BY <2>2 DEF BeginActivate
    <3>2. [op |-> "activate", step |-> "save", pair |-> NamedPair(to), to |-> to].op \notin Trading
          BY DEF Trading
    <3>3. QED  BY <1>2, <3>1, <3>2, BeginsUnsigned
  <2>3. CASE BeginCreate(r)
    <3>1. PICK p \in Pairs :
              Begin(r, [op |-> "create", step |-> "find", pair |-> p])
          BY <2>3 DEF BeginCreate
    <3>2. [op |-> "create", step |-> "find", pair |-> p].op \notin Trading
          BY DEF Trading
    <3>3. QED  BY <1>2, <3>1, <3>2, BeginsUnsigned
  <2>4. CASE BeginDelete(r)
    <3>1. PICK p \in Pairs :
              Begin(r, [op |-> "delete", step |-> "read", pair |-> p, again |-> FALSE])
          BY <2>4 DEF BeginDelete
    <3>2. [op |-> "delete", step |-> "read", pair |-> p, again |-> FALSE].op \notin Trading
          BY DEF Trading
    <3>3. QED  BY <1>2, <3>1, <3>2, BeginsUnsigned
  <2>5. CASE BeginAddEndpoint(r)
    <3>1. PICK u \in Urls :
              Begin(r, [op |-> "addUrl", step |-> "add", url |-> u])
          BY <2>5 DEF BeginAddEndpoint
    <3>2. [op |-> "addUrl", step |-> "add", url |-> u].op \notin Trading
          BY DEF Trading
    <3>3. QED  BY <1>2, <3>1, <3>2, BeginsUnsigned
  <2>6. CASE BeginDeleteEndpoint(r)
    <3>1. PICK u \in Urls :
              Begin(r, [op |-> "dropUrl", step |-> "endpoint", url |-> u])
          BY <2>6 DEF BeginDeleteEndpoint
    <3>2. [op |-> "dropUrl", step |-> "endpoint", url |-> u].op \notin Trading
          BY DEF Trading
    <3>3. QED  BY <1>2, <3>1, <3>2, BeginsUnsigned
  <2>7. QED  BY <1>9, <2>1, <2>2, <2>3, <2>4, <2>5, <2>6 DEF BeginRegistry
<1>10. CASE Dies(r)
      BY <1>2, <1>10, ToLeavesSigned DEF Dies, Early
<1>11. QED
  BY <1>4, <1>5, <1>6, <1>7, <1>8, <1>9, <1>10 DEF RegistryStep

\* A request begins; a trade has signed nothing.
LEMMA BeginSigns ==
    ASSUME WalletInv, SigningInv, NEW r \in Requests, BeginWallets(r)
    PROVE  SigningInv'
<1>1. KeepsSigned  BY SameSigned DEF BeginWallets, wallets, world
<1>2. ASSUME NEW op, NEW side, NEW base, NEW w, Begin(r, TradeTask(op, side, base, w))
      PROVE  SigningInv'
  <2> DEFINE l == TradeTask(op, side, base, w)
  <2>1. l.tx = 0 /\ l.signature = None /\ l.log = 0 /\ l.step \in {"pick", "named"}  BY DEF TradeTask
  <2>2. req' = [req EXCEPT ![r] = l]  BY <1>2 DEF Begin
  <2> HIDE DEF l
  <2>3. SignsOnce(r, l, logs')  BY <2>1 DEF SignsOnce
  <2>4. QED  BY <1>1, <2>2, <2>3, SigningStep
<1>3. CASE BeginTrade(r) \/ BeginControlled(r)  BY <1>2, <1>3 DEF BeginTrade, BeginControlled
<1>4. ASSUME NEW l, Begin(r, l), l.op \in {"balance", "refresh", "key", "import", "account", "backfill"}
      PROVE  SigningInv'
  <2>1. l.op \notin Trading  BY <1>4 DEF Trading
  <2>2. QED  BY <1>1, <1>4, <2>1, BeginsUnsigned
<1>5. CASE BeginBalance(r)
  <2>1. PICK w \in Named, op \in {"balance", "refresh"} :
            Begin(r, [op |-> op, step |-> IF op = "balance" THEN "look" ELSE "invalidate",
                      wallet |-> w, mint |-> settings.base, mints |-> TrackedMints,
                      got |-> None, began |-> Cardinality(landed)])
        BY <1>5 DEF BeginBalance
  <2> DEFINE l == [op |-> op, step |-> IF op = "balance" THEN "look" ELSE "invalidate",
                   wallet |-> w, mint |-> settings.base, mints |-> TrackedMints,
                   got |-> None, began |-> Cardinality(landed)]
  <2>2. Begin(r, l)  BY <2>1
  <2>3. l.op = op  OBVIOUS
  <2> HIDE DEF l
  <2>4. QED  BY <1>4, <2>2, <2>3
<1>6. CASE BeginAccount(r)
  <2>1. CASE \E w \in Named : Begin(r, [op |-> "key", step |-> "key-import", wallet |-> w])
        BY <1>4, <2>1
  <2>2. CASE \E n \in 1..Len(Derived) :
                 Begin(r, [op |-> "import", step |-> "scan", count |-> n, todo |-> {}])
        BY <1>4, <2>2
  <2>3. CASE \E w \in Named, to \in {"on", "off", "deleted"} :
                 Begin(r, [op |-> "account", step |-> "account", wallet |-> w, to |-> to, id |-> 0])
        BY <1>4, <2>3
  <2>4. QED  BY <1>6, <2>1, <2>2, <2>3 DEF BeginAccount
<1>7. CASE BeginBackfill(r)  BY <1>4, <1>7 DEF BeginBackfill
<1>8. QED  BY <1>3, <1>5, <1>6, <1>7 DEF BeginWallets

\* An import goes on.
LEMMA WritesNoTrade ==
    ASSUME WalletInv, SigningInv, NEW r \in Requests, req[r] \in ImportType, NEW todo, NEW s,
           req' = [req EXCEPT ![r].todo = todo, ![r].step = s], KeepsSigned
    PROVE  SigningInv'
<1>1. req' = [req EXCEPT ![r] = [req[r] EXCEPT !.todo = todo, !.step = s]]
      BY DEF WalletInv, WalletTypeOK, ImportType
<1>2. [req[r] EXCEPT !.todo = todo, !.step = s].op \notin Trading  BY DEF ImportType, Trading
<1>3. QED  BY <1>1, <1>2, SigningStep

\* Imports, and what is written to an account.
LEMMA AccountSigns ==
    ASSUME WalletInv, SigningInv, NEW r \in Requests,
           \/ ImportKey(r) \/ ScanPhrase(r) \/ ImportNext(r)
           \/ FindAccount(r) \/ WriteAccount(r)
    PROVE  SigningInv'
<1>1. req[r] \in Locals  BY IsLocal
<1>2. KeepsSigned
      BY SameSigned DEF ImportKey, ScanPhrase, ImportNext, FindAccount, WriteAccount,
         wallets, world
<1>3. CASE ImportKey(r)
  <2>1. PICK s \in {"done", "failed"} : To(r, s)  BY <1>3 DEF ImportKey
  <2>2. QED  BY <1>2, <2>1, ToLeavesSigned DEF Early
<1>4. CASE WriteAccount(r)  BY <1>2, <1>4, ToLeavesSigned DEF WriteAccount, Early
<1>5. CASE ScanPhrase(r)
  <2>1. req[r].op = "import"  BY <1>1, <1>5, OpByStep DEF ScanPhrase, At
  <2>2. req[r] \in ImportType  BY <1>1, <2>1, LocalByOp
  <2> DEFINE todo == Missing({w \in Wallets : RowsOf(w) # {}}, req[r].count)
             s == IF todo = {} THEN "failed" ELSE "import"
  <2>3. req' = [req EXCEPT ![r].todo = todo, ![r].step = s]  BY <1>5 DEF ScanPhrase
  <2> HIDE DEF todo, s
  <2>4. QED  BY <1>2, <2>2, <2>3, WritesNoTrade
<1>6. CASE ImportNext(r)
  <2>1. req[r].op = "import"  BY <1>1, <1>6, OpByStep DEF ImportNext, At
  <2>2. req[r] \in ImportType  BY <1>1, <2>1, LocalByOp
  <2>3. \/ To(r, "failed")
        \/ \E k \in req[r].todo :
               req' = [req EXCEPT ![r].todo = @ \ {k},
                                  ![r].step = IF req[r].todo = {k} THEN "done" ELSE "import"]
        BY <1>6 DEF ImportNext
  <2>4. CASE To(r, "failed")  BY <1>2, <2>4, ToLeavesSigned DEF Early
  <2>5. ASSUME NEW k \in req[r].todo,
               req' = [req EXCEPT ![r].todo = @ \ {k},
                                  ![r].step = IF req[r].todo = {k} THEN "done" ELSE "import"]
        PROVE  SigningInv'
    <3> DEFINE todo == req[r].todo \ {k}
               s == IF req[r].todo = {k} THEN "done" ELSE "import"
    <3>1. req' = [req EXCEPT ![r].todo = todo, ![r].step = s]  BY <2>5
    <3> HIDE DEF todo, s
    <3>2. QED  BY <1>2, <2>2, <3>1, WritesNoTrade
  <2>6. QED  BY <2>3, <2>4, <2>5
<1>7. CASE FindAccount(r)
  <2>1. req[r].op = "account"  BY <1>1, <1>7, OpByStep DEF FindAccount, At
  <2>2. req[r] \in AccountType  BY <1>1, <2>1, LocalByOp
  <2>3. \/ req' = [req EXCEPT ![r].step = "failed"]
        \/ \E i : req' = [req EXCEPT ![r].id = i, ![r].step = "write"]
        BY <1>7 DEF FindAccount
  <2>4. CASE req' = [req EXCEPT ![r].step = "failed"]
        BY <1>2, <2>4, ToLeavesSigned DEF Early, To
  <2>5. CASE \E i : req' = [req EXCEPT ![r].id = i, ![r].step = "write"]
    <3>1. PICK i : req' = [req EXCEPT ![r].id = i, ![r].step = "write"]  BY <2>5
    <3> DEFINE m == [req[r] EXCEPT !.id = i, !.step = "write"]
    <3>2. req' = [req EXCEPT ![r] = m]
          BY <2>2, <3>1 DEF WalletInv, WalletTypeOK, AccountType
    <3>3. m.op \notin Trading  BY <2>2 DEF AccountType, Trading
    <3> HIDE DEF m
    <3>4. QED  BY <1>2, <3>2, <3>3, SigningStep
  <2>6. QED  BY <2>3, <2>4, <2>5
<1>8. QED  BY <1>3, <1>4, <1>5, <1>6, <1>7

\* A request that has signed nothing, and reads: a balance, an account, a row's id.
LEMMA EarlySigns ==
    ASSUME WalletInv, SigningInv, NEW r \in Requests, NEW m, req' = [req EXCEPT ![r] = m],
           m.op = req[r].op,
           req[r].op \in Trading =>
               /\ req[r].step \in Early
               /\ SameTrade(m, req[r]) /\ m.step # "send",
           KeepsSigned
    PROVE  SigningInv'
<1>1. CASE req[r].op \in Trading  BY <1>1, LeavesSigned
<1>2. CASE req[r].op \notin Trading  BY <1>2, SigningStep
<1>3. QED  BY <1>1, <1>2

\* What a trade does with a balance signs nothing.
LEMMA AfterReadSigns ==
    ASSUME NEW l \in TradeType \cup BalanceType \cup RefreshType
    PROVE  LET m == AfterRead(l)
           IN  /\ m.op = l.op
               /\ l.op \in Trading => SameTrade(m, l) /\ m.step # "send"
<1> DEFINE m == AfterRead(l)
<1>1. CASE l.op \notin {"trade"}
  <2>1. m = [l EXCEPT !.step = "store"]  BY <1>1 DEF AfterRead
  <2>2. QED  BY <2>1 DEF TradeType, BalanceType, RefreshType, Trading, SameTrade
<1>2. CASE l.op = "trade"
  <2>1. l \in TradeType  BY <1>2 DEF BalanceType, RefreshType
  <2>2. \/ m = [l EXCEPT !.step = "key", !.id = Head(l.todo)]
        \/ m = [l EXCEPT !.step = "judge", !.todo = Tail(@)]
        BY <1>2 DEF AfterRead
  <2>3. QED  BY <2>1, <2>2 DEF TradeType, SameTrade
<1>3. QED  BY <1>1, <1>2

\* Balances are read.
LEMMA BalanceSigns ==
    ASSUME WalletInv, SigningInv, NEW r \in Requests,
           \/ ReadUsdc(r) \/ ReadTokens(r) \/ ReadFails(r)
           \/ LookUp(r) \/ Invalidate(r) \/ StoreSnapshot(r)
    PROVE  SigningInv'
<1>1. req[r] \in Locals  BY IsLocal
<1>2. KeepsSigned
      BY SameSigned DEF ReadUsdc, ReadTokens, ReadFails, LookUp, Invalidate, StoreSnapshot,
         wallets, world
<1>3. CASE ReadFails(r)  BY <1>2, <1>3, ToLeavesSigned DEF ReadFails, Early
<1>4. CASE StoreSnapshot(r)  BY <1>2, <1>4, ToLeavesSigned DEF StoreSnapshot, Early
<1>5. CASE ReadUsdc(r)
  <2>1. req[r].step = "usdc" /\ req[r] \in TradeType \cup BalanceType \cup RefreshType
        BY <1>1, <1>5, OpByStep, LocalByOp DEF ReadUsdc, At
  <2>2. PICK got : req' = [req EXCEPT ![r].step = "tokens", ![r].got = got]
        BY <1>5 DEF ReadUsdc
  <2> DEFINE m == [req[r] EXCEPT !.step = "tokens", !.got = got]
  <2>3. req' = [req EXCEPT ![r] = m]
        BY <2>1, <2>2 DEF WalletInv, WalletTypeOK, TradeType, BalanceType, RefreshType
  <2>4. /\ m.op = req[r].op
        /\ req[r].op \in Trading => SameTrade(m, req[r])
        /\ m.step = "tokens"
        BY <2>1 DEF TradeType, BalanceType, RefreshType, Trading, SameTrade
  <2> HIDE DEF m
  <2>5. QED  BY <1>2, <2>1, <2>3, <2>4, EarlySigns DEF Early
<1>6. CASE ReadTokens(r)
  <2>1. req[r].step = "tokens" /\ req[r] \in TradeType \cup BalanceType \cup RefreshType
        BY <1>1, <1>6, OpByStep, LocalByOp DEF ReadTokens, At
  <2>2. PICK c \in cache' : req' = [req EXCEPT ![r] = AfterRead([@ EXCEPT !.got = c])]
    <3>1. PICK c : /\ req' = [req EXCEPT ![r] = AfterRead([@ EXCEPT !.got = c])]
                   /\ cache' = {d \in cache : ~ (d.wallet = req[r].wallet /\ d.mints = c.mints)}
                               \cup {c}
          BY <1>6 DEF ReadTokens
    <3>2. QED  BY <3>1
  <2> DEFINE l == [req[r] EXCEPT !.got = c]
  <2>3. c \in Balance
    <3>1. WalletInv'  BY <1>6, ReadTokensSteps, StepKeeps
    <3>2. QED  BY <2>2, <3>1 DEF WalletInv, WalletTypeOK, SharedTypeOK
  <2>4. l \in TradeType \cup BalanceType \cup RefreshType
    <3>1. c \in Got  BY <2>3 DEF Got
    <3>2. CASE req[r] \in TradeType
      <4>1. l \in TradeType  BY <3>1, <3>2, SMTT(60) DEF TradeType
      <4>2. QED  BY <4>1
    <3>3. CASE req[r] \in BalanceType \cup RefreshType
          BY <3>1, <3>3 DEF BalanceType, RefreshType
    <3>4. QED  BY <2>1, <3>2, <3>3
  <2>5. /\ l.op = req[r].op
        /\ req[r].op \in Trading => SameTrade(l, req[r])
        BY <2>1 DEF TradeType, BalanceType, RefreshType, Trading, SameTrade
  <2>6. req' = [req EXCEPT ![r] = AfterRead(l)]  BY <2>2
  <2> HIDE DEF l
  <2> DEFINE m == AfterRead(l)
  <2>7. /\ m.op = l.op
        /\ l.op \in Trading => SameTrade(m, l) /\ m.step # "send"
        BY <2>4, AfterReadSigns
  <2>8. req' = [req EXCEPT ![r] = m]  BY <2>6
  <2> HIDE DEF m
  <2>9. req[r].op \in Trading => SameTrade(m, req[r])  BY <2>5, <2>7 DEF SameTrade
  <2>10. QED  BY <1>2, <2>1, <2>5, <2>7, <2>8, <2>9, EarlySigns DEF Early
<1>7. CASE LookUp(r) \/ Invalidate(r)
  <2>1. req[r].op \in {"balance", "refresh"}
        BY <1>1, <1>7, OpByStep DEF LookUp, Invalidate, At
  <2>2. req[r] \in BalanceType \cup RefreshType  BY <1>1, <2>1, LocalByOp
  <2>3. ASSUME NEW m, req' = [req EXCEPT ![r] = m], m.op = req[r].op
        PROVE  SigningInv'
        BY <1>2, <2>1, <2>3, SigningStep DEF Trading
  <2>4. StartRead(r, req[r].wallet, req[r].mints).op = req[r].op
        BY <2>2 DEF StartRead, BalanceType, RefreshType
  <2>5. \A c : AfterRead([req[r] EXCEPT !.got = c]).op = req[r].op
        BY <2>1, <2>2 DEF AfterRead, BalanceType, RefreshType
  <2>6. \/ req' = [req EXCEPT ![r] = StartRead(r, req[r].wallet, req[r].mints)]
        \/ \E c : req' = [req EXCEPT ![r] = AfterRead([req[r] EXCEPT !.got = c])]
        BY <1>7 DEF LookUp, Invalidate
  <2>7. QED  BY <2>3, <2>4, <2>5, <2>6
<1>8. QED  BY <1>3, <1>4, <1>5, <1>6, <1>7

\* A trade finds its wallet.
LEMMA PickSigns ==
    ASSUME WalletInv, SigningInv, NEW r \in Requests,
           CheckAccount(r) \/ ListCandidates(r) \/ Judge(r)
    PROVE  SigningInv'
<1>1. KeepsSigned
      BY SameSigned DEF CheckAccount, ListCandidates, Judge, wallets, world
<1>2. req[r].step \in {"named", "pick", "judge"}
      BY DEF CheckAccount, ListCandidates, Judge, At
<1>3. req[r] \in TradeType /\ req[r].op \in Trading
      BY <1>2, IsLocal, OpByStep, LocalByOp DEF Trading
<1>4. PICK m : /\ req' = [req EXCEPT ![r] = m]
               /\ m.op = req[r].op /\ SameTrade(m, req[r])
               /\ m.step # "send"
  <2>1. CASE CheckAccount(r)
    <3>1. \/ req' = [req EXCEPT ![r].step = "failed"]
          \/ \E i : req' = [req EXCEPT ![r].step = "key", ![r].id = i]
          BY <2>1 DEF CheckAccount
    <3>2. CASE req' = [req EXCEPT ![r].step = "failed"]
      <4> DEFINE m == [req[r] EXCEPT !.step = "failed"]
      <4>1. m.op = req[r].op /\ SameTrade(m, req[r]) /\ m.step = "failed"
            BY <1>3 DEF TradeType, SameTrade
      <4>2. req' = [req EXCEPT ![r] = m]  BY <3>2
      <4>3. QED  BY <4>1, <4>2
    <3>3. CASE \E i : req' = [req EXCEPT ![r].step = "key", ![r].id = i]
      <4>1. PICK i : req' = [req EXCEPT ![r].step = "key", ![r].id = i]  BY <3>3
      <4> DEFINE m == [req[r] EXCEPT !.step = "key", !.id = i]
      <4>2. req' = [req EXCEPT ![r] = m]
            BY <1>3, <4>1 DEF WalletInv, WalletTypeOK, TradeType
      <4>3. /\ m.op = req[r].op /\ SameTrade(m, req[r])
            /\ m.step = "key"
            BY <1>3 DEF TradeType, SameTrade
      <4>4. QED  BY <4>2, <4>3
    <3>4. QED  BY <3>1, <3>2, <3>3
  <2>2. CASE ListCandidates(r)
    <3>1. PICK todo : req' = [req EXCEPT ![r].step = "judge", ![r].mints = TrackedMints,
                                         ![r].todo = todo]
          BY <2>2 DEF ListCandidates
    <3> DEFINE m == [req[r] EXCEPT !.step = "judge", !.mints = TrackedMints, !.todo = todo]
    <3>2. req' = [req EXCEPT ![r] = m]
          BY <1>3, <3>1 DEF WalletInv, WalletTypeOK, TradeType
    <3>3. /\ m.op = req[r].op /\ SameTrade(m, req[r])
          /\ m.step = "judge"
          BY <1>3 DEF TradeType, SameTrade
    <3>4. QED  BY <3>2, <3>3
  <2>3. CASE Judge(r)
    <3>1. \/ req' = [req EXCEPT ![r] = [@ EXCEPT !.step = "failed"]]
          \/ \E w, mints : req' = [req EXCEPT ![r] = StartRead(r, w, mints)]
          \/ /\ req[r].todo # <<>>
             /\ req' = [req EXCEPT ![r] =
                    AfterRead([@ EXCEPT !.wallet = accounts[Head(req[r].todo)].wallet,
                                        !.got = CHOOSE c \in Cached(accounts[Head(req[r].todo)].wallet,
                                                                    req[r].mints) : TRUE])]
          BY <2>3 DEF Judge
    <3>2. CASE req' = [req EXCEPT ![r] = [@ EXCEPT !.step = "failed"]]
      <4> DEFINE m == [req[r] EXCEPT !.step = "failed"]
      <4>1. m.op = req[r].op /\ SameTrade(m, req[r]) /\ m.step = "failed"
            BY <1>3 DEF TradeType, SameTrade
      <4>2. req' = [req EXCEPT ![r] = m]  BY <3>2
      <4>3. QED  BY <4>1, <4>2
    <3>3. CASE \E w, mints : req' = [req EXCEPT ![r] = StartRead(r, w, mints)]
      <4>1. PICK w, mints : req' = [req EXCEPT ![r] = StartRead(r, w, mints)]  BY <3>3
      <4> DEFINE m == StartRead(r, w, mints)
      <4>2. m.op = req[r].op /\ SameTrade(m, req[r]) /\ m.step = "usdc"
            BY <1>3 DEF StartRead, TradeType, SameTrade
      <4>3. QED  BY <4>1, <4>2
    <3>4. ASSUME NEW w, NEW c, req' = [req EXCEPT ![r] =
                                  AfterRead([@ EXCEPT !.wallet = w, !.got = c])]
          PROVE  \E m : /\ req' = [req EXCEPT ![r] = m]
                        /\ m.op = req[r].op /\ SameTrade(m, req[r]) /\ m.step # "send"
      <4> DEFINE l == [req[r] EXCEPT !.wallet = w, !.got = c]
      <4>1. AfterRead(l) \in {[l EXCEPT !.step = "store"],
                              [l EXCEPT !.step = "key", !.id = Head(l.todo)],
                              [l EXCEPT !.step = "judge", !.todo = Tail(@)]}
            BY DEF AfterRead
      <4>2. \A m \in {[l EXCEPT !.step = "store"],
                      [l EXCEPT !.step = "key", !.id = Head(l.todo)],
                      [l EXCEPT !.step = "judge", !.todo = Tail(@)]} :
                /\ m.op = req[r].op /\ SameTrade(m, req[r])
                /\ m.step # "send"
            BY <1>3 DEF TradeType, SameTrade
      <4>3. req' = [req EXCEPT ![r] = AfterRead(l)]  BY <3>4
      <4> HIDE DEF l
      <4>4. QED  BY <4>1, <4>2, <4>3
    <3>5. QED  BY <3>1, <3>2, <3>3, <3>4
  <2>4. QED  BY <2>1, <2>2, <2>3
<1>5. QED  BY <1>1, <1>2, <1>3, <1>4, EarlySigns DEF Early

\* A trade writes its own row: with the signature it was given, or none.
LEMMA RowsSigned ==
    ASSUME WalletInv, SigningInv, NEW r \in Requests, NEW status, NEW signature, NEW timed,
           UpdateLog(r, status, signature, timed), signature \in {None, <<r, 1>>},
           \A i \in DOMAIN logs : i = req[r].log => logs[i].by = r,
           UNCHANGED world
    PROVE  KeepsSigned
<1> DEFINE f(l) == [l EXCEPT !.status = status, !.at = now, !.timed = @ \/ timed,
                             !.signature = IF signature = None THEN @ ELSE signature]
<1>1. \A i \in DOMAIN logs : logs[i] \in LogRow  BY Sizes
<1>2. \A l \in LogRow : /\ f(l).by = l.by
                        /\ f(l).signature = IF signature = None THEN l.signature ELSE signature
      BY DEF LogRow
<1>3. logs' = [i \in DOMAIN logs |-> IF i = req[r].log THEN f(logs[i]) ELSE logs[i]]
      BY DEF UpdateLog
<1> HIDE DEF f
<1>4. \A i \in DOMAIN logs : logs[i].signature \in {None, <<logs[i].by, 1>>}
      BY DEF SigningInv, FirstOnly
<1>5. \A i \in DOMAIN logs' : logs'[i].signature \in {None, <<logs'[i].by, 1>>}
      BY <1>1, <1>2, <1>3, <1>4
<1>6. FirstOnly'  BY <1>5 DEF SigningInv, FirstOnly, world
<1>7. \A i \in DOMAIN logs : i \in DOMAIN logs' /\ logs'[i].by = logs[i].by
      BY <1>1, <1>2, <1>3
<1>8. QED  BY <1>6, <1>7 DEF KeepsSigned

\* A trade's row is inserted, its transaction signed, sent, and recorded.
LEMMA TradeSigns ==
    ASSUME WalletInv, SigningInv, NEW r \in Requests,
           \/ CheckKey(r) \/ LoadKey(r) \/ DecimalsFail(r) \/ InsertLog(r) \/ Quote(r)
           \/ QuoteFails(r) \/ AttemptFails(r) \/ AttemptSucceeds(r)
           \/ Record(r) \/ RecordFails(r) \/ MarkFailed(r)
    PROVE  SigningInv'
<1>1. req[r].step \in {"key", "secret", "log", "quote", "send", "record", "fail"}
      BY DEF CheckKey, LoadKey, DecimalsFail, InsertLog, Quote, QuoteFails, AttemptFails,
         AttemptSucceeds, Record, RecordFails, MarkFailed, At
<1>2. req[r] \in TradeType /\ req[r].op \in Trading
      BY <1>1, IsLocal, OpByStep, LocalByOp DEF Trading
<1>3. SignsOnce(r, req[r], logs)  BY <1>2 DEF SigningInv
<1>4. logs \in Seq(LogRow)  BY DEF WalletInv, WalletTypeOK, SharedTypeOK
<1>5. \A i \in DOMAIN logs : i = req[r].log => logs[i].by = r
      BY <1>3, <1>4, Elements DEF SignsOnce
<1>6. CASE CheckKey(r) \/ LoadKey(r) \/ DecimalsFail(r)
  <2>1. KeepsSigned  BY <1>6, SameSigned DEF CheckKey, LoadKey, DecimalsFail, wallets, world
  <2>2. req[r].step \in Early  BY <1>6 DEF CheckKey, LoadKey, DecimalsFail, At, Early
  <2>3. \A s \in {"secret", "log", "failed"} : To(r, s) => SigningInv'
        BY <2>1, <2>2, ToLeavesSigned
  <2>4. QED  BY <1>6, <2>3 DEF CheckKey, LoadKey, DecimalsFail
<1>7. CASE InsertLog(r)
  <2>1. req[r].step \in Early  BY <1>7 DEF InsertLog, At, Early
  <2>2. CASE HasTokenId(req[r].base)
    <3> DEFINE row == [wallet |-> req[r].wallet, status |-> "PENDING", signature |-> None,
                       timed |-> FALSE, at |-> now, by |-> r]
               m == [req[r] EXCEPT !.step = "quote", !.log = Len(logs) + 1]
    <3>1. logs' = Append(logs, row) /\ UNCHANGED world
          /\ req' = [req EXCEPT ![r].step = "quote", ![r].log = Len(logs) + 1]
          BY <1>7, <2>2 DEF InsertLog
    <3>2. row.signature = None /\ row.by = r  OBVIOUS
    <3> HIDE DEF row
    <3>3. /\ \A i \in DOMAIN logs : i \in DOMAIN logs' /\ logs'[i] = logs[i]
          /\ \A i \in DOMAIN logs' : i \in DOMAIN logs \/ logs'[i] = row
          /\ Len(logs) + 1 \in DOMAIN logs' /\ logs'[Len(logs) + 1] = row
          BY <1>4, <3>1
    <3>4. KeepsSigned  BY <3>1, <3>2, <3>3 DEF KeepsSigned, SigningInv, FirstOnly, world
    <3>5. req' = [req EXCEPT ![r] = m]
          BY <1>2, <3>1 DEF WalletInv, WalletTypeOK, TradeType
    <3>6. /\ m.step = "quote" /\ m.tx = req[r].tx /\ m.signature = req[r].signature
          /\ m.log = Len(logs) + 1
          BY <1>2 DEF TradeType
    <3> HIDE DEF m
    <3>7. m.log # 0 => m.log \in DOMAIN logs' /\ logs'[m.log].by = r  BY <3>2, <3>3, <3>6
    <3>8. SignsOnce(r, m, logs')  BY <1>3, <2>1, <3>6, <3>7 DEF SignsOnce
    <3>9. QED  BY <3>4, <3>5, <3>8, SigningStep
  <2>3. CASE ~ HasTokenId(req[r].base)
    <3>1. KeepsSigned /\ To(r, "quote")
          BY <1>7, <2>3, SameSigned DEF InsertLog, world
    <3>2. QED  BY <2>1, <3>1, ToLeavesSigned
  <2>4. QED  BY <2>2, <2>3
<1>8. CASE Quote(r)
  <2> DEFINE m == [req[r] EXCEPT !.step = "send", !.urls = PoolSize, !.tx = @ + 1]
  <2>1. req' = [req EXCEPT ![r] = m]
        BY <1>2, <1>8 DEF Quote, WalletInv, WalletTypeOK, TradeType
  <2>2. /\ m.step = "send" /\ m.tx = req[r].tx + 1 /\ m.signature = req[r].signature
        /\ m.log = req[r].log
        BY <1>2 DEF TradeType
  <2> HIDE DEF m
  <2>3. req[r].tx = 0  BY <1>3, <1>8 DEF Quote, At, SignsOnce, Early
  <2>4. KeepsSigned  BY <1>5, <1>8, RowsSigned DEF Quote
  <2>5. SignsOnce(r, m, logs')  BY <1>3, <2>2, <2>3, <2>4 DEF SignsOnce, KeepsSigned, Early
  <2>6. QED  BY <2>1, <2>4, <2>5, SigningStep
<1>9. CASE QuoteFails(r)
  <2>1. KeepsSigned  BY <1>9, SameSigned DEF QuoteFails, wallets, world
  <2>2. QED  BY <1>9, <2>1, ToLeavesSigned DEF QuoteFails, Early
<1>10. CASE AttemptFails(r) \/ AttemptSucceeds(r)
  <2>1. req[r].step = "send" /\ UNCHANGED <<logs, landed>>
        BY <1>10 DEF AttemptFails, AttemptSucceeds, At, wallets
  <2>2. Signature(r) = <<r, 1>>  BY <1>3, <2>1 DEF SignsOnce, Signature
  <2>3. sent' \in {sent, sent \cup {<<r, 1>>}}
        BY <1>10, <2>2 DEF AttemptFails, AttemptSucceeds
  <2>4. KeepsSigned  BY <2>1, <2>3 DEF SigningInv, FirstOnly, KeepsSigned
  <2>5. CASE AttemptFails(r)
    <3>1. PICK retryable \in BOOLEAN : req' = [req EXCEPT ![r] = Retried(@, retryable)]
          BY <2>5 DEF AttemptFails
    <3> DEFINE m == Retried(req[r], retryable)
    <3>2. m \in {[req[r] EXCEPT !.tries = @ + 1], [req[r] EXCEPT !.url = @ + 1, !.tries = 1],
                 [req[r] EXCEPT !.step = "fail"]}
          BY DEF Retried
    <3>3. SameTrade(m, req[r]) /\ m.step \in {"send", "fail"}
          BY <1>2, <2>1, <3>2 DEF TradeType, SameTrade
    <3>4. req' = [req EXCEPT ![r] = m]  BY <3>1
    <3> HIDE DEF m
    <3>5. SignsOnce(r, m, logs')  BY <1>3, <2>1, <3>3 DEF SignsOnce, SameTrade, Early
    <3>6. QED  BY <2>4, <3>4, <3>5, SigningStep
  <2>6. CASE AttemptSucceeds(r)
    <3> DEFINE m == [req[r] EXCEPT !.step = "record", !.signature = Signature(r)]
    <3>1. req' = [req EXCEPT ![r] = m]
          BY <1>2, <2>6 DEF AttemptSucceeds, WalletInv, WalletTypeOK, TradeType
    <3>2. m.step = "record" /\ m.signature = <<r, 1>> /\ m.log = req[r].log
          BY <1>2, <2>2 DEF TradeType
    <3> HIDE DEF m
    <3>3. SignsOnce(r, m, logs')  BY <1>3, <2>1, <3>2 DEF SignsOnce, Early
    <3>4. QED  BY <2>4, <3>1, <3>3, SigningStep
  <2>7. QED  BY <1>10, <2>5, <2>6
<1>11. CASE Record(r)
  <2>1. PICK timed : UpdateLog(r, "PENDING", req[r].signature, timed)  BY <1>11 DEF Record
  <2>2. KeepsSigned
    <3>1. req[r].signature \in {None, <<r, 1>>}  BY <1>3 DEF SignsOnce
    <3>2. QED  BY <1>5, <1>11, <2>1, <3>1, RowsSigned DEF Record
  <2>3. \A s \in {"done", "fail"} : To(r, s) => SigningInv'
        BY <2>2, ToLeavesSigned DEF Early
  <2>4. QED  BY <1>11, <2>3 DEF Record
<1>12. CASE RecordFails(r)
  <2>1. KeepsSigned  BY <1>12, SameSigned DEF RecordFails, wallets, world
  <2>2. PICK timed : req' = [req EXCEPT ![r].step = "fail", ![r].timed = timed]
        BY <1>12 DEF RecordFails
  <2> DEFINE m == [req[r] EXCEPT !.step = "fail", !.timed = timed]
  <2>3. req' = [req EXCEPT ![r] = m]
        BY <1>2, <2>2 DEF WalletInv, WalletTypeOK, TradeType
  <2>4. SameTrade(m, req[r]) /\ m.step = "fail"  BY <1>2 DEF TradeType, SameTrade
  <2> HIDE DEF m
  <2>5. QED  BY <1>2, <2>1, <2>3, <2>4, LeavesSigned DEF Early
<1>13. CASE MarkFailed(r)
  <2>1. KeepsSigned
    <3>1. req[r].signature \in {None, <<r, 1>>}  BY <1>3 DEF SignsOnce
    <3>2. QED  BY <1>5, <1>13, <3>1, RowsSigned DEF MarkFailed
  <2>2. QED  BY <1>13, <2>1, ToLeavesSigned DEF MarkFailed, Early
<1>14. QED  BY <1>6, <1>7, <1>8, <1>9, <1>10, <1>11, <1>12, <1>13

\* The missing times are no signatures.
LEMMA BackfillSigns ==
    ASSUME WalletInv, SigningInv, NEW r \in Requests, ReadUntimed(r) \/ WriteTimes(r)
    PROVE  SigningInv'
<1>1. req[r].op = "backfill" /\ req[r] \in BackfillType
      BY IsLocal, OpByStep, LocalByOp DEF ReadUntimed, WriteTimes, At
<1>2. CASE ReadUntimed(r)
  <2> DEFINE rows == {i \in DOMAIN logs : logs[i].signature # None /\ ~ logs[i].timed}
             s == IF rows = {} THEN "done" ELSE "times"
             m == [req[r] EXCEPT !.rows = rows, !.step = s]
  <2>1. KeepsSigned  BY <1>2, SameSigned DEF ReadUntimed, wallets, world
  <2>2. req' = [req EXCEPT ![r].rows = rows, ![r].step = s]  BY <1>2 DEF ReadUntimed
  <2> HIDE DEF rows, s
  <2>3. req' = [req EXCEPT ![r] = m]
        BY <1>1, <2>2 DEF WalletInv, WalletTypeOK, BackfillType
  <2>4. m.op \notin Trading  BY <1>1 DEF BackfillType, Trading
  <2> HIDE DEF m
  <2>5. QED  BY <2>1, <2>3, <2>4, SigningStep
<1>3. CASE WriteTimes(r)
  <2> DEFINE f(l) == [l EXCEPT !.timed = TRUE, !.at = now]
  <2>1. PICK found : logs' = [i \in DOMAIN logs |-> IF i \in found THEN f(logs[i]) ELSE logs[i]]
        BY <1>3 DEF WriteTimes
  <2>2. \A i \in DOMAIN logs : logs[i] \in LogRow  BY Sizes
  <2>3. \A l \in LogRow : f(l).by = l.by /\ f(l).signature = l.signature  BY DEF LogRow
  <2> HIDE DEF f
  <2>4. /\ DOMAIN logs' = DOMAIN logs
        /\ \A i \in DOMAIN logs : logs'[i].by = logs[i].by /\ logs'[i].signature = logs[i].signature
        BY <2>1, <2>2, <2>3
  <2>5. KeepsSigned
        BY <1>3, <2>4 DEF WriteTimes, world, SigningInv, FirstOnly, KeepsSigned
  <2>6. QED  BY <1>1, <1>3, <2>5, ToLeavesSigned DEF WriteTimes, Trading
<1>4. QED  BY <1>2, <1>3

\* USDC from elsewhere; a request that nothing was known of.
LEMMA DepositSigns ==
    ASSUME WalletInv, SigningInv, NEW r \in Requests, Deposit(r)
    PROVE  SigningInv'
<1>1. PICK w \in Named : Begin(r, [op |-> "deposit", step |-> "done", wallet |-> w])
      BY DEF Deposit
<1>2. KeepsSigned  BY DEF Deposit, wallets, SigningInv, FirstOnly, KeepsSigned
<1>3. [op |-> "deposit", step |-> "done", wallet |-> w].op \notin Trading  BY DEF Trading
<1>4. QED  BY <1>1, <1>2, <1>3, BeginsUnsigned

\* No step has a trade sign twice.
LEMMA NextSigns == WalletInv /\ SigningInv /\ [Next]_vars => SigningInv'
<1> SUFFICES ASSUME WalletInv, SigningInv, [Next]_vars  PROVE SigningInv'
    OBVIOUS
<1>1. CASE \E r \in Requests : RegistryStep(r) /\ UNCHANGED <<wallets, world>>
      BY <1>1, RegistrySigns
<1>2. ASSUME NEW r \in Requests, WalletStep(r)  PROVE SigningInv'
  <2>1. CASE BeginWallets(r)  BY <2>1, BeginSigns
  <2>2. CASE \/ ImportKey(r) \/ ScanPhrase(r) \/ ImportNext(r) \/ FindAccount(r)
             \/ WriteAccount(r)
        BY <2>2, AccountSigns
  <2>3. CASE \/ ReadUsdc(r) \/ ReadTokens(r) \/ ReadFails(r)
             \/ LookUp(r) \/ Invalidate(r) \/ StoreSnapshot(r)
        BY <2>3, BalanceSigns
  <2>4. CASE CheckAccount(r) \/ ListCandidates(r) \/ Judge(r)  BY <2>4, PickSigns
  <2>5. CASE \/ CheckKey(r) \/ LoadKey(r) \/ DecimalsFail(r) \/ InsertLog(r) \/ Quote(r)
             \/ QuoteFails(r) \/ AttemptFails(r) \/ AttemptSucceeds(r)
             \/ Record(r) \/ RecordFails(r) \/ MarkFailed(r)
        BY <2>5, TradeSigns
  <2>6. CASE ReadUntimed(r) \/ WriteTimes(r)  BY <2>6, BackfillSigns
  <2>7. QED  BY <1>2, <2>1, <2>2, <2>3, <2>4, <2>5, <2>6 DEF WalletStep
<1>3. CASE \E r \in Requests : Deposit(r)  BY <1>3, DepositSigns
<1>4. CASE \E s \in sent : Land(s)
      BY <1>4 DEF Land, wallets, SigningInv, SignsOnce, FirstOnly
<1>5. CASE Tick \/ UNCHANGED vars
      BY <1>5 DEF Tick, vars, wallets, world, SigningInv, SignsOnce, FirstOnly
<1>6. QED  BY <1>1, <1>2, <1>3, <1>4, <1>5 DEF Next

-----------------------------------------------------------------------------
(* The theorems *)

\* The invariant holds at first.
LEMMA InitInv == Init => WalletInv
<1> SUFFICES ASSUME Init  PROVE WalletInv
    OBVIOUS
<1>1. accounts \in Seq(Account)
  <2>1. Len(StartAccounts) \in Nat /\ DOMAIN StartAccounts = 1..Len(StartAccounts)
        BY WalletAssumption
  <2>2. \A w \in Wallets : Row(w) \in Account  BY DEF Row, Account
  <2>3. \A i \in DOMAIN StartAccounts : StartAccounts[i] \in Wallets  BY WalletAssumption
  <2>4. accounts \in [1..Len(StartAccounts) -> Account]  BY <2>1, <2>2, <2>3 DEF Init
  <2>5. QED  BY <2>1, <2>4
<1>2. settings \in SettingsType  BY RegistryAssumption DEF Init, RegistryInit, SettingsType
<1>3. SharedTypeOK
      BY <1>1, <1>2, FS_EmptySet, RegistryAssumption, WalletAssumption
         DEF Init, RegistryInit, SharedTypeOK
<1>4. req = [r \in Requests |-> Idle]  BY DEF Init, RegistryInit
<1>5. req \in [Requests -> Locals]  BY <1>4 DEF Locals
<1>6. \A r \in Requests : Fits(r)
      BY <1>4 DEF Fits, ReadingFits, RefreshFits, TradeFits, DeleteFits, Idle
<1>7. LogsArePast  BY DEF Init, LogsArePast
<1>8. QED  BY <1>3, <1>5, <1>6, <1>7 DEF WalletInv, WalletTypeOK

\* Every step keeps the invariant.
LEMMA NextInv == WalletInv /\ [Next]_vars => WalletInv'
<1> SUFFICES ASSUME WalletInv, [Next]_vars  PROVE WalletInv'
    OBVIOUS
<1>1. CASE \E r \in Requests : RegistryStep(r) /\ UNCHANGED <<wallets, world>>
      BY <1>1, RegistryKeeps
<1>2. CASE \E r \in Requests : WalletStep(r) \/ Deposit(r)
      BY <1>2, WalletKeeps, DepositKeeps
<1>3. CASE \E s \in sent : Land(s)  BY <1>3, LandKeeps
<1>4. CASE Tick  BY <1>4, TickKeeps
<1>5. CASE UNCHANGED vars
  <2>1. SharedTypeOK' /\ LogsArePast' /\ Grows /\ settings' = settings
        BY <1>5, SharedStays DEF vars
  <2>2. QED  BY <1>5, <2>1, WorldKeeps DEF vars
<1>6. QED  BY <1>1, <1>2, <1>3, <1>4, <1>5 DEF Next

\* The invariant, of every reachable state.
THEOREM Invariant == Spec => []WalletInv
BY InitInv, NextInv, PTL DEF Spec

\* Every variable but the bounds' has its type (userStore.ts, tokenStore.ts, workerCore.ts).
THEOREM TypeCorrect == Spec => []WalletTypeOK
<1>1. WalletInv => WalletTypeOK  BY DEF WalletInv
<1>2. QED  BY <1>1, Invariant, PTL

\* A trade swaps once (solanaRpc, executeManagedTradeTask): the attempts go round
\* behind the statement that signs, for however many endpoints and attempts.
THEOREM TradeSwapsOnce == Spec => []SwapLandsOnce
<1>1. Init => SigningInv
  <2> SUFFICES ASSUME Init  PROVE SigningInv
      OBVIOUS
  <2>1. logs = <<>> /\ sent = {} /\ landed = {}  BY DEF Init
  <2>2. \A r \in Requests : req[r].op \notin Trading
        BY DEF Init, RegistryInit, Idle, Trading
  <2>3. QED  BY <2>1, <2>2 DEF SigningInv, FirstOnly
<1>2. WalletInv /\ SigningInv => SwapLandsOnce
  <2> SUFFICES ASSUME WalletInv, SigningInv  PROVE SwapLandsOnce
      OBVIOUS
  <2>1. FirstOnly  BY DEF SigningInv
  <2>2. ASSUME NEW r \in Requests  PROVE Cardinality({s \in landed : s[1] = r}) <= 1
    <3> DEFINE S == {s \in landed : s[1] = r}
    <3>1. S \subseteq {<<r, 1>>}  BY <2>1 DEF FirstOnly
    <3>2. IsFiniteSet({<<r, 1>>}) /\ Cardinality({<<r, 1>>}) = 1  BY FS_Singleton
    <3> HIDE DEF S
    <3>3. Cardinality(S) <= Cardinality({<<r, 1>>})  BY <3>1, <3>2, FS_Subset
    <3>4. QED  BY <3>2, <3>3 DEF S
  <2>3. ASSUME NEW i \in DOMAIN logs, logs[i].signature # None,
               NEW s \in landed, s[1] = logs[i].by
        PROVE  s = logs[i].signature
        BY <2>1, <2>3 DEF FirstOnly
  <2>4. QED  BY <2>2, <2>3 DEF SwapLandsOnce
<1>3. QED  BY <1>1, <1>2, Invariant, NextSigns, PTL DEF Spec

\* A wallet that a trade picked is judged by a balance of after its trades that
\* were over (getAvailableAccount, the cache of loadWalletBalance): a wallet has
\* to rest for longer than a balance may be kept.
THEOREM JudgedByOwnBalance == Spec => []BalanceFollowsTrades
<1>1. WalletInv => BalanceFollowsTrades
      BY DEF WalletInv, Fits, TradeFits, IsRecent, BalanceFollowsTrades
<1>2. QED  BY <1>1, Invariant, PTL

\* A refresh stores what was read after it began (handleManagedAccountBalance
\* with refresh): from where the cache is emptied to the read there is no step.
THEOREM RefreshReadsChain == Spec => []RefreshIsCurrent
<1>1. WalletInv => RefreshIsCurrent
      BY DEF WalletInv, Fits, RefreshFits, RefreshIsCurrent
<1>2. QED  BY <1>1, Invariant, PTL

\* A pair that was deleted does not stay active (handleDeleteTradableToken,
\* dbSaveActiveContractAddress), whatever other requests of the user do meanwhile.
THEOREM DeletedIsNotActive == Spec => []DeletedIsCleared
<1>1. WalletInv => DeletedIsCleared
      BY DEF WalletInv, Fits, DeleteFits, DeletedIsCleared
<1>2. QED  BY <1>1, Invariant, PTL
=============================================================================
