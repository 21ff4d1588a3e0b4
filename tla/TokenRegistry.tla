---------------------------- MODULE TokenRegistry ----------------------------
(***************************************************************************)
(* The tracked pairs, the active pair and the RPC endpoints of one user    *)
(* (tokenStore.ts, the settings of userStore.ts, api/settingsHandler.ts),  *)
(* and the requests that change them.  Each SQL statement a decision rests *)
(* on is a step of its own, a D1 batch is one step.  Pairs are rows that   *)
(* are never deleted, only marked.  The numbers in the settings, names and *)
(* AMM pools of the pairs, and the audit log are left out.                 *)
(*                                                                         *)
(* ManagedWallets adds the requests on wallets to the same table of        *)
(* requests.                                                               *)
(***************************************************************************)
EXTENDS Naturals, FiniteSets, Sequences

CONSTANTS
    MaxRequests,    \* bound: requests of the user, numbered as they begin
    None,           \* no mint, no wallet; '' in the code
    Bases, Usdc, Quotes,    \* mints of base and of quote tokens
    Urls,           \* RPC endpoints that may be saved
    StartTokens, StartSettings,     \* what is saved before
    Mixes           \* bounds: what is allowed in one behaviour

Requests == 1..MaxRequests
Pairs == Bases \X Quotes

ASSUME RegistryAssumption ==
    /\ MaxRequests \in Nat
    /\ Usdc \in Quotes /\ None \notin Bases \cup Quotes
    /\ StartTokens \in [Pairs -> {"none", "tracked", "deleted"}]
    /\ StartSettings \subseteq [base : Bases \cup {None}, quote : Quotes \cup {None}]
    /\ \A mix \in Mixes : {"ops", "atOnce", "deaths"} = DOMAIN mix

VARIABLES
    settings,   \* contractAddress and activeBaseTokenAddress, saved together; activeQuoteTokenAddress
    tokens,     \* tradable_tokens: no row, is_active = 1, is_active = 0
    endpoints,  \* rpc_endpoints
    req,        \* where each request is, and its local variables
    allowed     \* bound: the requests and deaths that may still come, and how
                \* many requests may be under way

registry == <<settings, tokens, endpoints>>

Idle == [op |-> "none", step |-> "idle"]
Ended == {"done", "failed", "dead"}
Began == {r \in Requests : req[r].op # "none"}
UnderWay == {r \in Began : req[r].step \notin Ended}

IsNext(r) == \A q \in Requests : (req[q].op = "none") = (q >= r)

Begin(r, loc) ==
    /\ loc.op \in DOMAIN allowed.ops /\ allowed.ops[loc.op] > 0
    /\ Cardinality(UnderWay) < allowed.atOnce
    /\ allowed' = [allowed EXCEPT !.ops[loc.op] = @ - 1]
    /\ req' = [req EXCEPT ![r] = loc]

At(r, step) == req[r].step = step
To(r, step) == req' = [req EXCEPT ![r].step = step]

-----------------------------------------------------------------------------
(* Reads *)

\* The pair that settings stand for.
NamedPair(to) == <<to.base, IF to.quote = None THEN Usdc ELSE to.quote>>

\* Mutant: the settings' quote as it is stored.
ActivePairRaw == <<settings.base, settings.quote>>

\* What a deletion takes for the active pair.
ActivePair == NamedPair(settings)

\* dbListTradableTokens with buildTrackedTokens: the mints a balance covers.
TrackedMints ==
    {p[1] : p \in {q \in Pairs : tokens[q] = "tracked"}} \cup ({settings.base} \ {None})

\* dbResolveTradableTokenId by base: also a pair that is not tracked any more.
HasTokenId(base) == \E p \in Pairs : p[1] = base /\ tokens[p] # "none"

-----------------------------------------------------------------------------
(* Saving the pair of a request: dbCreateTradableToken *)

\* What the request that creates a pair goes on with.
AfterCreate(r) == IF req[r].op = "save" THEN "save" ELSE "done"

Track(r) ==
    /\ tokens' = [tokens EXCEPT ![req[r].pair] = "tracked"]
    /\ To(r, AfterCreate(r))
    /\ UNCHANGED <<settings, endpoints, allowed>>

FindExisting(r) ==
    /\ At(r, "find")
    /\ To(r, IF tokens[req[r].pair] = "none" THEN "insert" ELSE "persist")
    /\ UNCHANGED <<registry, allowed>>

\* A row that another request inserted meanwhile is found and updated.
InsertToken(r) ==
    /\ At(r, "insert")
    /\ \/ tokens[req[r].pair] = "none" /\ Track(r)
       \/ tokens[req[r].pair] # "none" /\ To(r, "persist") /\ UNCHANGED <<registry, allowed>>

PersistToken(r) == At(r, "persist") /\ Track(r)

\* An error: activating a pair goes on without it.
CreateThrows(r) ==
    /\ req[r].step \in {"find", "insert", "persist"}
    /\ To(r, IF req[r].op = "activate" THEN "done" ELSE "failed")
    /\ UNCHANGED <<registry, allowed>>

-----------------------------------------------------------------------------
(* The settings *)

\* One batch.  History: the deletions of the pair that is saved are told.
PutSettings(r, to) ==
    /\ settings' = to
    /\ req' = [q \in Requests |->
                 IF q = r
                 THEN [req[r] EXCEPT !.step =
                         IF req[r].op = "activate" /\ to.base # None THEN "ensure" ELSE "done"]
                 ELSE IF req[q].op = "delete" /\ NamedPair(to) = req[q].pair
                 THEN [req[q] EXCEPT !.again = TRUE]
                 ELSE req[q]]
    /\ UNCHANGED <<tokens, endpoints, allowed>>

\* dbSaveSettings, dbSaveActiveContractAddress
SaveSettings(r) == At(r, "save") /\ PutSettings(r, req[r].to)

\* An activated pair gets a row if it has none.
EnsureToken(r) ==
    /\ At(r, "ensure")
    /\ To(r, IF tokens[req[r].pair] = "none" THEN "find" ELSE "done")
    /\ UNCHANGED <<registry, allowed>>

-----------------------------------------------------------------------------
(* Deleting a pair *)

ReadToken(r) ==
    /\ At(r, "read")
    /\ To(r, IF tokens[req[r].pair] = "tracked" THEN "untrack" ELSE "failed")
    /\ UNCHANGED <<registry, allowed>>

Untrack(r) ==
    /\ At(r, "untrack")
    /\ tokens' = [tokens EXCEPT ![req[r].pair] = "deleted"]
    /\ To(r, "active")
    /\ UNCHANGED <<settings, endpoints, allowed>>

\* Is it the active pair?
ReadActive(r) ==
    /\ At(r, "active")
    /\ To(r, IF ActivePair = req[r].pair THEN "clear" ELSE "done")
    /\ UNCHANGED <<registry, allowed>>

ClearActive(r) == At(r, "clear") /\ PutSettings(r, [base |-> None, quote |-> None])

-----------------------------------------------------------------------------
(* The RPC endpoints *)

AddEndpoint(r) ==
    /\ At(r, "add")
    /\ IF req[r].url \in endpoints
       THEN To(r, "failed") /\ UNCHANGED registry
       ELSE /\ endpoints' = endpoints \cup {req[r].url}
            /\ To(r, "done") /\ UNCHANGED <<settings, tokens>>
    /\ UNCHANGED allowed

ReadEndpoint(r) ==
    /\ At(r, "endpoint")
    /\ To(r, IF req[r].url \in endpoints THEN "drop" ELSE "failed")
    /\ UNCHANGED <<registry, allowed>>

DeleteEndpoint(r) ==
    /\ At(r, "drop")
    /\ endpoints' = endpoints \ {req[r].url}
    /\ To(r, "done")
    /\ UNCHANGED <<settings, tokens, allowed>>

\* dbResolveSolanaRpcUrls: the saved endpoints and the worker's own.
PoolSize == Cardinality(endpoints) + 1

-----------------------------------------------------------------------------

Savable == {to \in [base : Bases \cup {None}, quote : Quotes \cup {None}] :
                to.base = None => to.quote = None}

\* POST /api/settings: the pair with USDC is created first, whatever the quote.
BeginSave(r) ==
    \E to \in Savable :
        Begin(r, [op |-> "save", step |-> IF to.base = None THEN "save" ELSE "find",
                  pair |-> <<to.base, Usdc>>, to |-> to])

\* POST /api/settings/active-token
BeginActivate(r) ==
    \E to \in Savable :
        Begin(r, [op |-> "activate", step |-> "save", pair |-> NamedPair(to), to |-> to])

\* POST and DELETE /api/tradable-tokens
BeginCreate(r) ==
    \E p \in Pairs : Begin(r, [op |-> "create", step |-> "find", pair |-> p])
BeginDelete(r) ==
    \E p \in Pairs : Begin(r, [op |-> "delete", step |-> "read", pair |-> p, again |-> FALSE])

\* POST and DELETE /api/rpc-endpoints
BeginAddEndpoint(r) ==
    \E u \in Urls : Begin(r, [op |-> "addUrl", step |-> "add", url |-> u])
BeginDeleteEndpoint(r) ==
    \E u \in Urls : Begin(r, [op |-> "dropUrl", step |-> "endpoint", url |-> u])

BeginRegistry(r) ==
    /\ IsNext(r)
    /\ \/ BeginSave(r) \/ BeginActivate(r) \/ BeginCreate(r) \/ BeginDelete(r)
       \/ BeginAddEndpoint(r) \/ BeginDeleteEndpoint(r)
    /\ UNCHANGED registry

\* The worker dies between two statements.
Dies(r) ==
    /\ allowed.deaths > 0 /\ r \in UnderWay
    /\ allowed' = [allowed EXCEPT !.deaths = @ - 1]
    /\ To(r, "dead")
    /\ UNCHANGED registry

RegistryInit ==
    /\ settings \in StartSettings
    /\ tokens = StartTokens
    /\ endpoints = {}
    /\ req = [r \in Requests |-> Idle]
    /\ allowed \in Mixes

RegistryStep(r) ==
    \/ FindExisting(r) \/ InsertToken(r) \/ PersistToken(r) \/ CreateThrows(r)
    \/ SaveSettings(r) \/ EnsureToken(r)
    \/ ReadToken(r) \/ Untrack(r) \/ ReadActive(r) \/ ClearActive(r)
    \/ AddEndpoint(r) \/ ReadEndpoint(r) \/ DeleteEndpoint(r)
    \/ BeginRegistry(r) \/ Dies(r)
-----------------------------------------------------------------------------
(* Properties *)

\* A pair that was deleted is not left active, however the settings name its
\* quote, unless somebody made it active again since the deletion began.
DeletedIsCleared ==
    \A r \in Requests :
        req[r].op = "delete" /\ req[r].step = "done" =>
            NamedPair(settings) # req[r].pair \/ req[r].again
=============================================================================
