--------------------------- MODULE SignalPipeline ---------------------------
(***************************************************************************)
(* What becomes of one on-chain transaction that is reported several       *)
(* times, for one user and one token: by Alchemy's webhook, by the Rust    *)
(* node's webhook (api/webhookHandler.ts) and by a transaction log refresh *)
(* that reads it from the chain (services/signalStore.ts).  Each reporter  *)
(* has a row of its own in the table signals; all share one row of the     *)
(* table webhook_transaction_logs.                                         *)
(*                                                                         *)
(* A delivery runs one statement of the database at a time.  Its holder    *)
(* delta is in HolderSync, the engine's answer in StrategyEngineDO.        *)
(***************************************************************************)
EXTENDS Naturals, FiniteSets

CONSTANTS
    Deliveries,         \* times the transaction is reported
    Provider,           \* who reports it: "alchemy", "node" or "rpc"
    Key,                \* the row (source, external_id) of each delivery
    Events,             \* what Alchemy's payload names, and what the chain has:
                        \* records [payload, chain, atOnce]
    NoKey,              \* no row
    NoLog,              \* no row in the log
    MaxFaults           \* bound: errors thrown and workers that die

\* What deriveAlchemySignalsFromPayload finds of the transaction in an event:
\* its signature alone, or an activity or a log that gives its type or side,
\* or its wallets: by their accounts' owners, with or without the pool.
Payloads == {"signature", "hint", "owners", "pool", "wallets"}

Keys == {Key[d] : d \in Deliveries}

ASSUME DeliveryAssumption ==
    /\ Provider \in [Deliveries -> {"alchemy", "node", "rpc"}]
    /\ DOMAIN Key = Deliveries
    /\ Events \subseteq [payload : Payloads,
                         chain : {"trade", "transfer", "none", "failed"},
                         atOnce : Nat]
    /\ NoKey \notin Keys
    /\ MaxFaults \in Nat

VARIABLES
    signals,    \* processed of each row: 2 is claimed, 1 processed, 0 failed
    oldest,     \* the oldest row of the transaction
    event,      \* the transaction's event; bound: atOnce deliveries in progress
    log,        \* the log row
    handler,    \* each delivery's handler: where it is, the row it works on,
                \* the details it got, the log row as it saw it, no error yet
    holds,      \* deliveries that process a row they inserted or claimed
    abandoned,  \* history: rows whose worker died
    shared,     \* history: rows that a delivery worked on without a claim
    faults      \* errors and deaths so far

vars == <<event, signals, oldest, log, handler, holds, abandoned, shared, faults>>
tables == <<event, signals, oldest, log>>

RowStates == {"none", "failed", "claimed", "processed"}
Actions == {"none", "transfer", "trade"}
DetailSources == {"unknown", "payload", "rpc", "payload+rpc"}
Statuses == {"PENDING", "CONFIRMED", "FAILED"}
Details == [action : Actions, from : DetailSources, tx : Statuses]
LogRow == [details : Details, status : Statuses]

ASSUME LogAssumption == NoLog \notin LogRow

Pcs == {"find", "select", "insert", "claim", "enrich", "read", "write", "evaluate",
        "mark", "fail", "over"}
Handler == [pc : Pcs, row : Keys \cup {NoKey}, got : Details,
            seen : LogRow \cup {NoLog}, ok : BOOLEAN]

-----------------------------------------------------------------------------
(* Transaction details: what the payload says, what the chain says.         *)

Known(action, from, tx) == [action |-> action, from |-> from, tx |-> tx]

Nothing == Known("none", "unknown", "PENDING")

\* buildCompactAlchemyActivityPayload keeps only some names of the wallets of
\* a token transfer: where they are called owners, the stored payload names
\* none, and what is left says no more than the signature.
Compacted(f) == IF f = "owners" THEN "signature" ELSE f

\* extractWebhookTransactionDetailsFromPayload, of the stored payload: a type
\* or side says that the token was bought or sold, two wallets say that it
\* was transferred; a node's event is a trade.
Extracted(f) ==
    CASE f \in {"hint", "node"} -> "trade"
      [] f \in {"pool", "wallets"} -> "transfer"
      [] OTHER -> "none"

\* applyAmmPoolDirectionCorrection: the wallets in the payload have the last
\* word, whatever the chain says: with the pool one of them it is a trade,
\* without it a transfer.
Corrected(f, details) ==
    CASE f = "pool" -> [details EXCEPT !.action = "trade"]
      [] f = "wallets" -> [details EXCEPT !.action = "transfer"]
      [] OTHER -> details

\* shouldEnrichWebhookSignalDetails: complete are the details of a payload
\* that names both wallets, and an amount.
MayBeComplete(f) == f \in {"pool", "wallets"}

\* mergeStoredSignalTransactionDetails of two: an action that was read from
\* the chain comes before the payload's, and the last status counts, unless
\* one has failed.
Joined(p, s) ==
    Known(IF p.action = "none" \/ (s.action # "none" /\ s.from \in {"rpc", "payload+rpc"})
          THEN s.action ELSE p.action,
          IF p.from = "unknown" THEN s.from
          ELSE IF p.from = s.from THEN p.from ELSE "payload+rpc",
          IF p.tx = "FAILED" THEN p.tx ELSE s.tx)

\* A balance that changed makes a trade, or a transfer between two wallets;
\* a transaction that failed changed none.  Helius's transfers and the RPC's
\* balances are read alike.
FromBalances ==
    CASE event.chain = "failed" -> Known("none", "rpc", "FAILED")
      [] OTHER -> Known(event.chain, "rpc", "CONFIRMED")
FromHelius == FromBalances
FromMeta == FromBalances

\* What does not concern the token is skipped.
IsRelevant(details) == details.action # "none"

\* fetchSolanaWebhookTransactionDetailsFromRpc: what Helius says nothing of is
\* asked of the RPC; an error leaves nothing known.
Fetched == {details \in {FromHelius} : IsRelevant(details)} \cup {FromMeta, Nothing}

\* enrichWebhookSignalDetails
Enriched(f) ==
    LET said == Corrected(f, Known(Extracted(f), "payload", "PENDING")) IN
    (IF MayBeComplete(f) THEN {said} ELSE {})
        \cup {Corrected(f, Joined(said, fetched)) : fetched \in Fetched}

\* A refresh asks Alchemy for the token's transactions that succeeded; if that
\* fails or is not configured, Helius; if that fails too, for signatures
\* alone, each of which it then fetches.
ByAlchemy == {details \in {FromMeta} : details.tx # "FAILED"}
ByHelius == {FromHelius}
BySignature == Fetched
Discovered == ByAlchemy \cup ByHelius \cup BySignature

\* What a delivery's handler may find.
Outcomes(d) ==
    CASE Provider[d] = "rpc" -> {details \in Discovered : IsRelevant(details)}
      [] Provider[d] = "node" -> Enriched("node")
      [] OTHER -> Enriched(Compacted(event.payload))

SourceRank(from) ==
    CASE from = "unknown" -> 0 [] from = "payload" -> 1 [] from = "rpc" -> 2 [] OTHER -> 3
ActionRank(action) == CASE action = "trade" -> 3 [] action = "transfer" -> 2 [] OTHER -> 1
Score(details) == 10 * ActionRank(details.action) + SourceRank(details.from)

\* Mutant: the details that came last stay.
MergedLatest(existing, next) == next

\* mergeNormalizedWebhookTransactionDetails: the better one's action stays.
Merged(existing, next) ==
    LET primary == IF Score(next) >= Score(existing) THEN next ELSE existing
        secondary == IF primary = next THEN existing ELSE next
        joined == Joined(primary, secondary)
    IN  IF primary.action = "none" THEN joined ELSE [joined EXCEPT !.action = primary.action]

\* deriveWebhookTransactionLogStatus: processing that failed left an error.
LogStatus(details, processed) == IF processed THEN details.tx ELSE "FAILED"

\* The row that dbUpsertWebhookTransactionLog writes after reading old.
Logged(old, details, processed) ==
    LET merged == IF old = NoLog THEN details ELSE Merged(old.details, details)
    IN  [details |-> merged,
         status |-> LogStatus(merged, processed)]

-----------------------------------------------------------------------------

Start(d) ==
    [pc |-> "find", row |-> NoKey, seen |-> NoLog, ok |-> TRUE,
     got |-> IF Provider[d] = "node" THEN Known("trade", "payload", "PENDING") ELSE Nothing]

Init ==
    /\ event \in Events
    /\ signals = [k \in Keys |-> "none"]
    /\ oldest = NoKey
    /\ log = NoLog
    /\ handler = [d \in Deliveries |-> Start(d)]
    /\ holds = {}
    /\ abandoned = {}
    /\ shared = {}
    /\ faults = 0

pc(d) == handler[d].pc
row(d) == handler[d].row

InProgress == {d \in Deliveries : pc(d) \notin {"find", "over"}}
MayStart == Cardinality(InProgress) < event.atOnce

Goes(d, to) == handler' = [handler EXCEPT ![d].pc = to]
GoesOn(d, to, k) == handler' = [handler EXCEPT ![d].pc = to, ![d].row = k]
Ends(d) == handler' = [handler EXCEPT ![d] = [Start(d) EXCEPT !.pc = "over"]]
Becomes(k, state) == signals' = [signals EXCEPT ![k] = state]

\* dbFindSignalByUserTxSignature finds a row that another report made.
Elsewhere(d) == oldest \notin {NoKey, Key[d]}

\* resolveSignalStorageTarget: the oldest row of the transaction is taken when
\* another delivery made it.  The Alchemy handler works on it as it is, the
\* node's claims it unless it is processed.
Find(d) ==
    /\ pc(d) = "find" /\ Provider[d] # "rpc" /\ MayStart
    /\ IF ~Elsewhere(d) THEN GoesOn(d, "select", Key[d]) /\ UNCHANGED shared
       ELSE IF Provider[d] = "node" /\ signals[oldest] # "processed"
       THEN GoesOn(d, "claim", oldest) /\ UNCHANGED shared
       ELSE GoesOn(d, "enrich", oldest) /\ shared' = shared \cup {oldest}
    /\ UNCHANGED <<tables, holds, abandoned>>

\* dbSignalExistsForUserTxSignature: a refresh only asks whether there is a row.
Exists(d) ==
    /\ pc(d) = "find" /\ Provider[d] = "rpc" /\ MayStart
    /\ GoesOn(d, "enrich", IF oldest = NoKey THEN Key[d] ELSE NoKey)
    /\ UNCHANGED <<tables, holds, abandoned, shared>>

\* The first statement of dbCreateSignal.  A refresh marks the row processed
\* even if it is there by now.
Select(d) ==
    /\ pc(d) = "select"
    /\ CASE signals[row(d)] = "none" -> Goes(d, "insert")
         [] Provider[d] = "rpc" -> Goes(d, "mark")
         [] signals[row(d)] = "processed" -> Ends(d)
         [] OTHER -> Goes(d, "claim")
    /\ shared' = IF pc(d)' = "mark" THEN shared \cup {row(d)} ELSE shared
    /\ UNCHANGED <<tables, holds, abandoned>>

\* The second: a row that has appeared since violates the UNIQUE constraint,
\* and the error ends the delivery.
Insert(d) ==
    /\ pc(d) = "insert"
    /\ IF signals[row(d)] = "none"
       THEN /\ Becomes(row(d), "claimed")
            /\ oldest' = IF oldest = NoKey THEN row(d) ELSE oldest
            /\ holds' = holds \cup {d}
            /\ Goes(d, IF Provider[d] = "rpc" THEN "mark" ELSE "enrich")
       ELSE Ends(d) /\ UNCHANGED <<signals, oldest, holds>>
    /\ UNCHANGED <<event, log, abandoned, shared>>

ClaimIf(d, states) ==
    /\ pc(d) = "claim"
    /\ IF signals[row(d)] \in states
       THEN Becomes(row(d), "claimed") /\ holds' = holds \cup {d} /\ Goes(d, "enrich")
       ELSE Ends(d) /\ UNCHANGED <<signals, holds>>
    /\ UNCHANGED <<event, oldest, log, abandoned, shared>>
ClaimUnprocessed(d) == ClaimIf(d, {"failed", "claimed"})
\* UPDATE ... WHERE processed = 0 decides who works on the row.
Claim(d) == ClaimIf(d, {"failed"})

\* A refresh goes on with the next transaction.
Skip(d) ==
    /\ pc(d) = "enrich" /\ Provider[d] = "rpc"
    /\ \E details \in Discovered : ~IsRelevant(details)
    /\ Ends(d)
    /\ UNCHANGED <<tables, holds, abandoned, shared>>

\* The transaction's details are completed and stored with the signal.  The
\* node's row is then processed, the Alchemy handler's only after its log.
Enrich(d) ==
    /\ pc(d) = "enrich"
    /\ \E details \in Outcomes(d) :
          handler' = [handler EXCEPT
              ![d].got = details,
              ![d].pc = CASE Provider[d] = "alchemy" -> "read"
                          [] Provider[d] = "node" -> "mark"
                          [] OTHER -> IF row(d) = NoKey THEN "read" ELSE "select"]
    /\ UNCHANGED <<tables, holds, abandoned, shared>>

ReadLog(d) ==
    /\ pc(d) = "read"
    /\ handler' = [handler EXCEPT ![d].seen = log, ![d].pc = "write"]
    /\ UNCHANGED <<tables, holds, abandoned, shared>>

WriteLog(d) ==
    /\ pc(d) = "write"
    /\ log' = Logged(handler[d].seen, handler[d].got, handler[d].ok)
    /\ IF Provider[d] = "alchemy" /\ handler[d].ok
       THEN Goes(d, "evaluate") /\ UNCHANGED holds
       ELSE Ends(d) /\ holds' = holds \ {d}
    /\ UNCHANGED <<event, signals, oldest, abandoned, shared>>

\* The market is read again and the strategy evaluated, and the engine told of
\* a trade, by the action the payload gave; errors are only logged.
Evaluate(d) ==
    /\ pc(d) = "evaluate"
    /\ Goes(d, "mark")
    /\ UNCHANGED <<tables, holds, abandoned, shared>>

\* dbMarkSignalProcessed, whatever the row's state is.
Mark(d) ==
    /\ pc(d) = "mark"
    /\ Becomes(row(d), "processed")
    /\ IF Provider[d] = "alchemy" THEN Ends(d) /\ holds' = holds \ {d}
       ELSE Goes(d, "read") /\ UNCHANGED holds
    /\ UNCHANGED <<event, oldest, log, abandoned, shared>>

Fault == faults < MaxFaults /\ faults' = faults + 1

ThrowsTo(d, to) ==
    /\ pc(d) \in {"enrich", "read", "write", "mark"}
    /\ Provider[d] # "rpc" /\ handler[d].ok
    /\ Goes(d, to)
    /\ Fault
    /\ UNCHANGED <<tables, holds, abandoned, shared>>
ThrowsUnnoticed(d) == ThrowsTo(d, IF pc(d) \in {"read", "write"} THEN "mark" ELSE "fail")
\* A statement or a call inside the handler's try throws.
Throws(d) == ThrowsTo(d, "fail")

FailTo(d, state) ==
    /\ pc(d) = "fail"
    /\ Becomes(row(d), state)
    /\ holds' = holds \ {d}
    /\ handler' = [handler EXCEPT ![d].pc = "read", ![d].ok = FALSE,
                                  ![d].got = IF Provider[d] = "alchemy" THEN Nothing ELSE @]
    /\ UNCHANGED <<event, oldest, log, abandoned, shared>>
FailUnmarked(d) == FailTo(d, signals[row(d)])
\* Its catch: dbMarkSignalFailed, whatever the row's state is.  The log is
\* then told what the node's handler knew, or nothing.
Fail(d) == FailTo(d, "failed")

\* The worker dies, or a statement outside the try throws.
Dies(d) ==
    /\ pc(d) \notin {"find", "over"}
    /\ Ends(d)
    /\ holds' = holds \ {d}
    /\ abandoned' = IF d \in holds THEN abandoned \cup {row(d)} ELSE abandoned
    /\ Fault
    /\ UNCHANGED <<tables, shared>>

\* processTokenActivitySignal
ActivitySignal(d) ==
    /\ Provider[d] = "alchemy"
    /\ \/ Find(d) \/ Select(d) \/ Insert(d) \/ Claim(d) \/ Enrich(d)
       \/ ReadLog(d) \/ WriteLog(d) \/ Evaluate(d) \/ Mark(d) \/ Fail(d)

\* handleRustNodeWebhook, after it has forwarded the event to the engine.
RustNodeWebhook(d) ==
    /\ Provider[d] = "node"
    /\ \/ Find(d) \/ Select(d) \/ Insert(d) \/ Claim(d) \/ Enrich(d)
       \/ ReadLog(d) \/ WriteLog(d) \/ Mark(d) \/ Fail(d)

\* One transaction that reconcileTokenTransactionsFromRpc has discovered.
Reconcile(d) ==
    /\ Provider[d] = "rpc"
    /\ \/ Exists(d) \/ Skip(d) \/ Enrich(d) \/ Select(d) \/ Insert(d) \/ Mark(d)
       \/ ReadLog(d) \/ WriteLog(d)

Proceeds(d) == ActivitySignal(d) \/ RustNodeWebhook(d) \/ Reconcile(d)

Next ==
    \E d \in Deliveries :
        (Proceeds(d) /\ UNCHANGED faults) \/ Throws(d) \/ Dies(d)

Spec == Init /\ [][Next]_vars

-----------------------------------------------------------------------------
(* Properties.                                                              *)

\* A row is processed by one delivery at a time, unless a delivery that found
\* it by its transaction worked on it without a claim.
ProcessedOnce ==
    \A d, e \in holds : d # e /\ row(d) = row(e) => row(d) \in shared

\* A row that is processed, and that nobody works on any more, has its
\* transaction in the log, unless the worker died before it wrote it.
ProcessedIsLogged ==
    \A k \in Keys :
        signals[k] = "processed" /\ k \notin abandoned /\ (\A d \in holds : row(d) # k)
            => log # NoLog \/ k \in shared

\* The log keeps the best details it was given: a delivery that has read the
\* current row never replaces it by a poorer one.
LogKeepsDetail ==
    [][log # NoLog /\ log' # log
          => \/ Score(log'.details) >= Score(log.details)
             \/ \E d \in Deliveries : WriteLog(d) /\ handler[d].seen # log]_vars

\* An event in progress is being processed by a delivery, which will end it as
\* processed or as failed, to be retried, unless its worker has died.
ClaimHeld ==
    \A k \in Keys :
        signals[k] = "claimed" => k \in abandoned \/ \E d \in holds : row(d) = k
=============================================================================
