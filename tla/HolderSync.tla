----------------------------- MODULE HolderSync -----------------------------
(***************************************************************************)
(* The holders of one token (tokenHolders.ts,                              *)
(* services/tokenHolderSyncService.ts, and the transaction deltas of       *)
(* services/signalStore.ts): token_holder_addresses keeps each wallet's    *)
(* amount, and two writers keep it up to date.  A paged sync reads the     *)
(* wallets from the chain shard by shard, a few shards per refresh,        *)
(* through a staging table; webhooks apply each transfer as a delta.       *)
(*                                                                         *)
(* A sync starts in the background of a market refresh, whose lease ends   *)
(* while it still works (api/marketSnapshotHandler.ts), and tokens are     *)
(* shared between users, so several syncs of a token may overlap.          *)
(* Each SQL statement is a step of its own; a D1 batch is one step.  A     *)
(* statement fails only by a constraint or by its worker's death.  The     *)
(* derived row of token_holder_aggregates is left out.                     *)
(***************************************************************************)
EXTENDS Integers, FiniteSetsExt, Functions

CONSTANTS
    Wallets,      \* wallets that hold, or held, the token
    ShardOf,      \* the shard a wallet's address falls into
    TotalShards,  \* 512 in the code
    MaxShards,    \* shards per refresh, 4 in the code
    Syncs,        \* sync invocations; a new run takes its sync's name as id
    NoRun,        \* no run id
    Deliveries,   \* webhook deliveries of the one transfer that happens
    From, To,     \* its sender and its receiver
    Supply,       \* what the chain holds at first
    Tables        \* what token_holder_addresses may hold at first

ASSUME HolderAssumption ==
    /\ From \in Wallets /\ To \in Wallets
    /\ TotalShards \in Nat \ {0} /\ MaxShards \in Nat \ {0}
    /\ ShardOf \in [Wallets -> 0..(TotalShards - 1)]
    /\ NoRun \notin Syncs /\ Syncs \cap Deliveries = {}
    /\ Supply \in [Wallets -> Nat] /\ Supply[From] > 0
    /\ Tables \subseteq [Wallets -> Nat]

VARIABLES
    chain,        \* what each wallet holds on chain
    final,        \* token_holder_addresses: amount_holding
    stage,        \* token_holder_sync_stage: rows [run, wallet, amount]
    row,          \* token_holder_sync_states: status, run, next shard
    applied,      \* the transfer has its token_holder_transaction_deltas row
    pc,           \* where each sync and each delivery is
    loc,          \* the local variables of each sync
    overlapped,   \* history: runs two syncs worked in, or whose stage was lost
    moved         \* history: runs during which the table or the chain moved

vars == <<chain, final, stage, row, applied, pc, loc, overlapped, moved>>

Nothing == [w \in Wallets |-> 0]
Staged(r) == {x \in stage : x.run = r}
\* SUM(amount_holding) GROUP BY wallet, of a run's rows.
StageAmount(r) ==
    [w \in Wallets |-> MapThenSumSet(LAMBDA x : x.amount, {x \in Staged(r) : x.wallet = w})]
ShardRows(r, k) == {x \in Staged(r) : ShardOf[x.wallet] = k}

InFlight == {s \in Syncs : pc[s] \notin {"idle", "over"}}
RunsNow == {row.run} \cup {loc[s].run : s \in InFlight}
Goes(p, at) == pc' = [pc EXCEPT ![p] = at]
Sets(s, field, value) == loc' = [loc EXCEPT ![s][field] = value]
Fresh == [run |-> NoRun, next |-> 0, done |-> 0, snap |-> Nothing, prev |-> Nothing,
          empty |-> FALSE, listed |-> {}]
\* A sync ends, and its local variables with it.
Ends(s) == Goes(s, "over") /\ loc' = [loc EXCEPT ![s] = Fresh]

Init ==
    /\ chain = Supply
    /\ final \in Tables
    /\ stage = {}
    /\ row = [status |-> "none", run |-> NoRun, next |-> 0]
    /\ applied = FALSE
    /\ pc = [p \in Syncs \cup Deliveries |-> "idle"]
    /\ loc = [s \in Syncs |-> Fresh]
    /\ overlapped = {}
    /\ moved = {}

-----------------------------------------------------------------------------
(* dbStartOrResumeTokenHolderSync.                                          *)

\* The row is read: an unfinished run is resumed.
Begin(s) ==
    /\ pc[s] = "idle"
    /\ IF row.run # NoRun /\ row.status \in {"running", "failed"}
       THEN /\ Goes(s, "resume")
            /\ loc' = [loc EXCEPT ![s].run = row.run, ![s].next = row.next]
       ELSE Goes(s, "clear") /\ Sets(s, "run", s)
    /\ overlapped' = IF InFlight = {} THEN overlapped
                     ELSE overlapped \cup InFlight \cup {s} \cup (RunsNow \ {NoRun})
    /\ UNCHANGED <<chain, final, stage, row, applied, moved>>

\* dbPutTokenHolderSyncState: the whole row is written from the caller's copy.
Put(s, status, next) ==
    row' = [status |-> status, run |-> loc[s].run, next |-> next]

ResumeRun(s) ==
    /\ pc[s] = "resume"
    /\ Put(s, "running", loc[s].next)
    /\ Goes(s, "decimals")
    /\ UNCHANGED <<chain, final, stage, applied, loc, overlapped, moved>>

ClearStage(s) ==
    /\ pc[s] = "clear"
    /\ stage' = {}
    /\ Goes(s, "fresh")
    /\ UNCHANGED <<chain, final, row, applied, loc, overlapped, moved>>

FreshRun(s) ==
    /\ pc[s] = "fresh"
    /\ Put(s, "running", 0)
    /\ Goes(s, "decimals")
    /\ UNCHANGED <<chain, final, stage, applied, loc, overlapped, moved>>

-----------------------------------------------------------------------------
(* syncSolanaTokenHolderBalancesPaged.                                      *)

\* Without the token's decimals the sync fails.
Undecided(s) ==
    /\ pc[s] = "decimals"
    /\ Put(s, "failed", loc[s].next)
    /\ Ends(s)
    /\ UNCHANGED <<chain, final, stage, applied, overlapped, moved>>

\* fetchHeliusTokenHolderBalances: all the balances, page after page, or none
\* that count.
ByHelius == {chain} \ {Nothing}

\* Without Helius the balances are read by shards.
FetchAll(s) ==
    /\ pc[s] = "decimals"
    /\ \/ \E all \in ByHelius : Sets(s, "snap", all) /\ Goes(s, "write")
       \/ Goes(s, "fetch") /\ UNCHANGED loc
    /\ UNCHANGED <<chain, final, stage, row, applied, overlapped, moved>>

\* The loop's condition.
More(s) == loc[s].next < TotalShards /\ loc[s].done < MaxShards

\* The balances of the accounts whose owner's key begins with the shard's byte.
OfShard(f, k) == [w \in Wallets |-> IF ShardOf[w] = k THEN f[w] ELSE 0]

\* One shard: its balances, and the rows that the run has staged of it before.
\* An error breaks the refresh off.
FetchShard(s) ==
    /\ pc[s] = "fetch" /\ More(s)
    /\ \/ /\ loc' = [loc EXCEPT
               ![s].snap = OfShard(chain, loc[s].next),
               ![s].prev = OfShard(StageAmount(loc[s].run), loc[s].next)]
          /\ Goes(s, "delete")
       \/ Goes(s, "broken") /\ UNCHANGED loc
    /\ UNCHANGED <<chain, final, stage, row, applied, overlapped, moved>>

DeleteShard(s) ==
    /\ pc[s] = "delete"
    /\ stage' = stage \ ShardRows(loc[s].run, loc[s].next)
    /\ Goes(s, IF loc[s].snap = Nothing THEN "apply" ELSE "insert")
    /\ UNCHANGED <<chain, final, row, applied, loc, overlapped, moved>>

\* A row of the same run and wallet makes the insertion fail.
InsertShard(s) ==
    /\ pc[s] = "insert"
    /\ LET new == {w \in Wallets : loc[s].snap[w] > 0} IN
       IF \E x \in Staged(loc[s].run) : x.wallet \in new
       THEN Goes(s, "broken") /\ UNCHANGED stage
       ELSE /\ stage' = stage \cup
                  {[run |-> loc[s].run, wallet |-> w, amount |-> loc[s].snap[w]] : w \in new}
            /\ Goes(s, "apply")
    /\ UNCHANGED <<chain, final, row, applied, loc, overlapped, moved>>

\* What the shard changed against its earlier rows of this run is added to
\* the table, so that progress shows.  No wallet is staged with nothing, so
\* the UPDATE that would zero such wallets finds none.
ApplyShard(s) ==
    /\ pc[s] = "apply"
    /\ final' = [w \in Wallets |->
                    LET to == final[w] + loc[s].snap[w] - loc[s].prev[w] IN
                    IF to < 0 THEN 0 ELSE to]
    /\ Goes(s, "advance")
    /\ UNCHANGED <<chain, stage, row, applied, loc, overlapped, moved>>

Advance(s) ==
    /\ pc[s] = "advance"
    /\ Put(s, "running", loc[s].next + 1)
    /\ loc' = [loc EXCEPT ![s].next = @ + 1, ![s].done = @ + 1,
                          ![s].snap = Nothing, ![s].prev = Nothing]
    /\ Goes(s, "fetch")
    /\ UNCHANGED <<chain, final, stage, applied, overlapped, moved>>

BrokenRestarts(s) ==
    /\ pc[s] = "broken"
    /\ \E status \in {"running", "failed"} : Put(s, status, 0)
    /\ Ends(s)
    /\ UNCHANGED <<chain, final, stage, applied, overlapped, moved>>
\* The catch: a rate limit leaves the run running, another error failed.
Broken(s) ==
    /\ pc[s] = "broken"
    /\ \E status \in {"running", "failed"} : Put(s, status, loc[s].next)
    /\ Ends(s)
    /\ UNCHANGED <<chain, final, stage, applied, overlapped, moved>>

\* After the loop; the last shard's refresh goes on to finalise the run.
Settle(s) ==
    /\ pc[s] = "fetch" /\ ~More(s)
    /\ Put(s, "running", loc[s].next)
    /\ IF loc[s].next >= TotalShards THEN Goes(s, "upsert") /\ UNCHANGED loc ELSE Ends(s)
    /\ UNCHANGED <<chain, final, stage, applied, overlapped, moved>>

-----------------------------------------------------------------------------
(* dbFinalizePagedTokenHolderSync and completeTokenHolderBalanceSync: the    *)
(* table takes the amounts of the staged rows, or of the full fetch.         *)

\* activeHolderCount is counted first: none calls for a full sync at the end.
Upsert(s) ==
    /\ pc[s] = "upsert"
    /\ LET to == StageAmount(loc[s].run) IN
       /\ final' = [w \in Wallets |-> IF to[w] > 0 THEN to[w] ELSE final[w]]
       /\ Sets(s, "empty", to = Nothing)
    /\ Goes(s, "zero")
    /\ UNCHANGED <<chain, stage, row, applied, overlapped, moved>>

ZeroNone(s) ==
    /\ pc[s] = "zero"
    /\ Goes(s, "finish")
    /\ UNCHANGED <<chain, final, stage, row, applied, loc, overlapped, moved>>
Zero(s) ==
    /\ pc[s] = "zero"
    /\ final' = [w \in Wallets |->
                    IF StageAmount(loc[s].run)[w] > 0 THEN final[w] ELSE 0]
    /\ Goes(s, "finish")
    /\ UNCHANGED <<chain, stage, row, applied, loc, overlapped, moved>>

\* dbSyncTokenHolderBalances.
Write(s) ==
    /\ pc[s] = "write"
    /\ final' = loc[s].snap
    /\ Goes(s, "wipe")
    /\ UNCHANGED <<chain, stage, row, applied, loc, overlapped, moved>>

\* A full fetch deletes the stage before it completes the row, a paged sync
\* after it.
Wipe(s) ==
    /\ pc[s] = "wipe"
    /\ stage' = {}
    /\ Goes(s, "complete")
    /\ UNCHANGED <<chain, final, row, applied, loc, overlapped, moved>>

Complete(s) ==
    /\ pc[s] = "complete"
    /\ Put(s, "completed", TotalShards)
    /\ Ends(s)
    /\ UNCHANGED <<chain, final, stage, applied, overlapped, moved>>

Finish(s) ==
    /\ pc[s] = "finish"
    /\ Put(s, "completed", TotalShards)
    /\ Goes(s, "drop")
    /\ UNCHANGED <<chain, final, stage, applied, loc, overlapped, moved>>

Drop(s) ==
    /\ pc[s] = "drop"
    /\ stage' = stage \ Staged(loc[s].run)
    /\ IF loc[s].empty THEN Goes(s, "full") /\ UNCHANGED loc ELSE Ends(s)
    /\ UNCHANGED <<chain, final, row, applied, overlapped, moved>>

\* syncSolanaTokenHolderBalancesFull, when the run found no holder at all: it
\* takes the run of the row it reads.
FullSync(s) ==
    /\ pc[s] = "full"
    /\ \E all \in ByHelius \cup {Nothing} :
          /\ loc' = [loc EXCEPT ![s].run = row.run, ![s].next = row.next, ![s].snap = all]
          /\ IF all # Nothing THEN Goes(s, "write")
             ELSE Goes(s, "list") \/ Goes(s, "unfetched")
    /\ UNCHANGED <<chain, final, stage, row, applied, overlapped, moved>>

\* Without Helius the token's accounts are listed first.  They are asked of
\* both token programs, and the empty list of the other program will do.
ListAccounts(s) ==
    /\ pc[s] = "list"
    /\ \/ \E listed \in SUBSET Wallets :
             /\ {w \in Wallets : chain[w] > 0} \subseteq listed \/ listed = {}
             /\ Sets(s, "listed", listed) /\ Goes(s, "accounts")
       \/ Goes(s, "unfetched") /\ UNCHANGED loc
    /\ UNCHANGED <<chain, final, stage, row, applied, overlapped, moved>>

\* Then their balances are read, as they are by then.
ReadAccounts(s) ==
    /\ pc[s] = "accounts"
    /\ \/ /\ Sets(s, "snap", [w \in Wallets |-> IF w \in loc[s].listed THEN chain[w] ELSE 0])
          /\ Goes(s, "write")
       \/ Goes(s, "unfetched") /\ UNCHANGED loc
    /\ UNCHANGED <<chain, final, stage, row, applied, overlapped, moved>>

\* Its failure leaves that run failed at the shard it had reached, the last.
FullFails(s) ==
    /\ pc[s] = "unfetched"
    /\ Put(s, "failed", loc[s].next)
    /\ Ends(s)
    /\ UNCHANGED <<chain, final, stage, applied, overlapped, moved>>

-----------------------------------------------------------------------------
(* The chain, the deltas of its transfer, and the platform.                  *)

Transferred(f) ==
    [w \in Wallets |->
        (IF w = From THEN (IF f[w] > 0 THEN f[w] - 1 ELSE 0) ELSE f[w])
        + (IF w = To THEN 1 ELSE 0)]

\* From sends one token to To.
Transfer ==
    /\ chain = Supply
    /\ chain' = Transferred(chain)
    /\ moved' = moved \cup (RunsNow \ {NoRun})
    /\ UNCHANGED <<final, stage, row, applied, pc, loc, overlapped>>

\* dbApplyTokenHolderTransactionDelta looks for the transfer's row.
Delta(d) ==
    /\ pc[d] = "idle"
    /\ chain # Supply
    /\ Goes(d, IF applied THEN "over" ELSE "batch")
    /\ UNCHANGED <<chain, final, stage, row, applied, loc, overlapped, moved>>

BatchUnconstrained(d) ==
    /\ pc[d] = "batch"
    /\ final' = Transferred(final)
    /\ applied' = TRUE
    /\ moved' = moved \cup (RunsNow \ {NoRun})
    /\ Goes(d, "over")
    /\ UNCHANGED <<chain, stage, row, loc, overlapped>>
\* The batch moves the amount and inserts the row, UNIQUE(token, signature):
\* all or nothing.
Batch(d) ==
    /\ pc[d] = "batch"
    /\ IF applied
       THEN Goes(d, "over") /\ UNCHANGED <<final, applied, moved>>
       ELSE /\ final' = Transferred(final)
            /\ applied' = TRUE
            /\ moved' = moved \cup (RunsNow \ {NoRun})
            /\ Goes(d, "over")
    /\ UNCHANGED <<chain, stage, row, loc, overlapped>>

\* The worker of p dies; the rows stay as they are.
Dies(p) ==
    /\ pc[p] \notin {"idle", "over"}
    /\ Goes(p, "over")
    /\ loc' = IF p \in Syncs THEN [loc EXCEPT ![p] = Fresh] ELSE loc
    /\ overlapped' = overlapped \cup
           (IF p \in Syncs /\ pc[p] = "complete"
            THEN {loc[p].run} ELSE {})
    /\ UNCHANGED <<chain, final, stage, row, applied, moved>>

Sync(s) ==
    \/ Begin(s) \/ ResumeRun(s) \/ ClearStage(s) \/ FreshRun(s) \/ Undecided(s)
    \/ FetchAll(s) \/ FetchShard(s) \/ DeleteShard(s) \/ InsertShard(s)
    \/ ApplyShard(s) \/ Advance(s) \/ Broken(s) \/ Settle(s)
    \/ Upsert(s) \/ Zero(s) \/ Write(s) \/ Wipe(s) \/ Complete(s) \/ Finish(s) \/ Drop(s)
    \/ FullSync(s) \/ ListAccounts(s) \/ ReadAccounts(s) \/ FullFails(s)

Next ==
    \/ \E s \in Syncs : Sync(s)
    \/ Transfer
    \/ \E d \in Deliveries : Delta(d) \/ Batch(d)
    \/ \E p \in Syncs \cup Deliveries : Dies(p)

Spec == Init /\ [][Next]_vars
-----------------------------------------------------------------------------
(* Properties.                                                              *)

\* However often a transfer is delivered, and whichever deliveries race, the
\* table moves its amount once: with the row that says so.
DeltaMovesOnce ==
    (\A s \in Syncs : pc[s] = "idle") =>
        final \in (IF applied THEN {Transferred(t) : t \in Tables} ELSE Tables)

\* A run that completes leaves in the table what the chain holds: over any
\* number of refreshes, failed, rate limited and dead ones among them, and
\* whatever earlier runs left in the stage and in the table; provided that no
\* other sync worked beside it, and nothing was transferred meanwhile.
CompletesToChain ==
    [][(row.status # "completed" /\ row'.status = "completed"
          /\ row'.run \notin overlapped \cup moved) => final' = chain']_vars

\* A refresh goes on where the run's last one stopped: no shard is lost.
ProgressKept ==
    [][(row'.run = row.run /\ row.status \in {"running", "failed"}
          /\ row.run \notin overlapped) => row'.next >= row.next]_vars
=============================================================================
