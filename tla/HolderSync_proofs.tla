-------------------------- MODULE HolderSync_proofs --------------------------
(***************************************************************************)
(* What HolderSync promises of the table of holders: a transfer moves it   *)
(* once, a refresh goes on where the run's last one stopped, and a run     *)
(* that no other sync and no transfer touched leaves what the chain holds. *)
(***************************************************************************)
EXTENDS HolderSync, TLAPS

-----------------------------------------------------------------------------
(* The state.                                                               *)

Runs == Syncs \cup {NoRun}
Amounts == [Wallets -> Nat]
Places == {"idle", "resume", "clear", "fresh", "decimals", "fetch", "delete", "insert",
           "apply", "advance", "broken", "upsert", "zero", "write", "wipe", "complete",
           "finish", "drop", "full", "list", "accounts", "unfetched", "batch", "over"}
Locals == [run : Runs, next : 0 .. TotalShards, done : Nat, snap : Amounts,
           prev : Amounts, empty : BOOLEAN, listed : SUBSET Wallets]

\* A run has one row of a wallet.
OneRow == \A x, y \in stage : x.run = y.run /\ x.wallet = y.wallet => x = y

HolderTypes ==
    /\ chain \in Amounts /\ final \in Amounts
    /\ stage \subseteq [run : Runs, wallet : Wallets, amount : Nat] /\ OneRow
    /\ row \in [status : {"none", "running", "failed", "completed"}, run : Runs,
                next : 0 .. TotalShards]
    /\ pc \in [Syncs \cup Deliveries -> Places]
    /\ loc \in [Syncs -> Locals]

\* A sync under way has a run, and so has the row once it was written.
Named ==
    /\ row.status # "none" => row.run # NoRun
    /\ \A s \in Syncs : pc[s] = "idle" => loc[s] = Fresh
    /\ \A s \in InFlight :
          /\ loc[s].run # NoRun
          /\ pc[s] \in {"clear", "fresh"} => loc[s].next = 0
          /\ pc[s] \in {"delete", "insert", "apply", "advance"} => loc[s].next < TotalShards
          /\ pc[s] \in {"upsert", "zero", "finish", "drop"} => loc[s].next = TotalShards
          /\ pc[s] \notin {"clear", "fresh"} => row.run # NoRun

Alone(s) == \A t \in InFlight : t = s

\* The stage holds of run r what the chain holds in the first n shards.
Upto(r, n) == \A w \in Wallets : ShardOf[w] < n => StageAmount(r)[w] = chain[w]

\* The row is ahead of no sync that works on its run alone.
Ahead(s) ==
    pc[s] \notin {"clear", "fresh"} => row.run = loc[s].run /\ row.next <= loc[s].next

\* What a sync relies on that is alone, while nothing is transferred.
Relies(s) ==
    LET r == loc[s].run
        n == loc[s].next
    IN  /\ pc[s] \in {"resume", "decimals", "fetch", "delete", "insert", "apply",
                      "advance", "broken", "upsert", "zero", "finish"} => Upto(r, n)
        /\ pc[s] \in {"delete", "insert"} => loc[s].snap = OfShard(chain, n)
        /\ pc[s] = "insert" => ShardRows(r, n) = {}
        /\ pc[s] \in {"apply", "advance"} => Upto(r, n + 1)
        /\ pc[s] = "zero" => \A w \in Wallets : chain[w] > 0 => final[w] = chain[w]
        /\ pc[s] = "finish" => final = chain
        /\ pc[s] \in {"zero", "finish", "drop"} /\ loc[s].empty => chain = Nothing
        /\ pc[s] \in {"full", "list", "accounts", "unfetched"} =>
              chain = Nothing /\ Upto(r, TotalShards)
        /\ pc[s] \in {"drop", "full", "list", "accounts", "unfetched"} =>
              row.status = "completed"
        /\ pc[s] = "write" /\ row.status # "completed" => loc[s].snap = chain /\ Upto(r, n)
        /\ pc[s] = "wipe" /\ row.status # "completed" => final = chain /\ Upto(r, n)
        /\ pc[s] = "complete" /\ row.status # "completed" => final = chain

SyncSound(s) ==
    /\ loc[s].run \notin overlapped => Alone(s) /\ Ahead(s)
    /\ loc[s].run \notin overlapped \cup moved => Relies(s)

\* Who works on the row's run, and what its stage holds.
RowSound ==
    row.run \notin overlapped =>
        /\ \A s \in InFlight :
              /\ row.run # NoRun => Alone(s)
              /\ IF pc[s] \in {"clear", "fresh"}
                 THEN row.status \notin {"running", "failed"}
                 ELSE loc[s].run = row.run
        /\ row.run \notin moved /\ row.status \in {"running", "failed"}
             /\ (\A s \in InFlight : pc[s] # "complete")
              => Upto(row.run, row.next)

HolderInv ==
    HolderTypes /\ Named /\ RowSound /\ \A s \in InFlight : SyncSound(s)

-----------------------------------------------------------------------------
(* The sum of a wallet's staged rows, of which there is one or none.         *)

Sum(T, w) == MapThenSumSet(LAMBDA x : x.amount, {x \in T : x.wallet = w})

\* The sum of one row is its amount: the fold's function is the one that gives
\* nothing for no row and the amount for the one there is.
LEMMA SumOfOne ==
  ASSUME NEW x, x.amount \in Nat
  PROVE  MapThenSumSet(LAMBDA y : y.amount, {x}) = x.amount
<1> DEFINE pick(t) == CHOOSE y \in t : TRUE
           next(i) == [t \in SUBSET {x} |->
                         IF t = {} THEN 0 ELSE pick(t).amount + i[t \ {pick(t)}]]
           sum == CHOOSE i : i = next(i)
           known == [t \in SUBSET {x} |-> IF t = {} THEN 0 ELSE x.amount]
<1>1. MapThenSumSet(LAMBDA y : y.amount, {x}) = sum[{x}]
  BY Zenon DEF MapThenSumSet, MapThenFoldSet
<1>2. pick({x}) = x
  OBVIOUS
<1>3. next(known) = known
  <2>1. ASSUME NEW t \in SUBSET {x} PROVE next(known)[t] = known[t]
    <3>1. CASE t = {}
      BY <3>1
    <3>2. CASE t = {x}
      BY <3>2, <1>2
    <3> QED
      BY <3>1, <3>2
  <2> QED
    BY <2>1
<1>4. sum = next(sum)
  BY <1>3
<1>5. {x} \in SUBSET {x} /\ {} \in SUBSET {x} /\ {x} \ {x} = {}
  OBVIOUS
<1>6. next(sum)[{}] = 0
  BY <1>5
<1>7. next(sum)[{x}] = x.amount + sum[{}]
  BY <1>5, <1>2
<1> HIDE DEF sum, next, pick
<1> QED
  BY <1>1, <1>4, <1>6, <1>7

\* The sum of no row is nothing.
LEMMA SumOfNone == MapThenSumSet(LAMBDA y : y.amount, {}) = 0
<1> DEFINE pick(t) == CHOOSE y \in t : TRUE
           next(i) == [t \in SUBSET {} |->
                         IF t = {} THEN 0 ELSE pick(t).amount + i[t \ {pick(t)}]]
           sum == CHOOSE i : i = next(i)
<1>1. MapThenSumSet(LAMBDA y : y.amount, {}) = sum[{}]
  BY Zenon DEF MapThenSumSet, MapThenFoldSet
<1>2. next([t \in SUBSET {} |-> 0]) = [t \in SUBSET {} |-> 0]
  OBVIOUS
<1>3. sum = next(sum)
  BY <1>2
<1> QED
  BY <1>1, <1>3

\* What a table with one row for each wallet says of a wallet.
LEMMA RowsSum ==
  ASSUME NEW T, NEW w,
         \A x \in T : x.amount \in Nat,
         \A x, y \in T : x.wallet = y.wallet => x = y
  PROVE  /\ Sum(T, w) \in Nat
         /\ (\A x \in T : x.wallet # w) => Sum(T, w) = 0
         /\ \A x \in T : x.wallet = w => Sum(T, w) = x.amount
<1>1. CASE \A x \in T : x.wallet # w
  <2>1. {x \in T : x.wallet = w} = {}
    BY <1>1
  <2> QED
    BY <1>1, <2>1, SumOfNone DEF Sum
<1>2. CASE \E x \in T : x.wallet = w
  <2>1. PICK x \in T : x.wallet = w
    BY <1>2
  <2>2. {y \in T : y.wallet = w} = {x}
    BY <2>1
  <2>3. Sum(T, w) = x.amount
    BY <2>2, SumOfOne DEF Sum
  <2> QED
    BY <2>1, <2>3
<1> QED
  BY <1>1, <1>2

\* StageAmount adds up a run's rows for each wallet, now and after a step.
AddsUp == \A r : StageAmount(r) = [w \in Wallets |-> Sum(Staged(r), w)]

\* That is its definition.
LEMMA StageIsSum == AddsUp
  BY DEF AddsUp, StageAmount, Sum

\* The same after a step.
LEMMA StageIsSumNext ==
  ASSUME NEW r PROVE StageAmount(r)' = [w \in Wallets |-> Sum(Staged(r)', w)]
<1>1. AddsUp'
  BY StageIsSum, PTL
<1> QED
  BY <1>1 DEF AddsUp

\* What a run's rows of the stage say.
LEMMA StageSays ==
  ASSUME HolderTypes, NEW r
  PROVE  /\ StageAmount(r) \in Amounts
         /\ \A w \in Wallets :
               /\ (\A x \in Staged(r) : x.wallet # w) => StageAmount(r)[w] = 0
               /\ \A x \in Staged(r) : x.wallet = w => StageAmount(r)[w] = x.amount
<1>1. /\ \A x \in Staged(r) : x.amount \in Nat
      /\ \A x, y \in Staged(r) : x.wallet = y.wallet => x = y
  BY DEF HolderTypes, OneRow, Staged
<1>2. ASSUME NEW w \in Wallets
      PROVE  /\ Sum(Staged(r), w) \in Nat
             /\ (\A x \in Staged(r) : x.wallet # w) => Sum(Staged(r), w) = 0
             /\ \A x \in Staged(r) : x.wallet = w => Sum(Staged(r), w) = x.amount
  BY <1>1, RowsSum
<1> QED
  BY <1>2, StageIsSum DEF Amounts, AddsUp

\* The same after a step.
LEMMA StageSaysNext ==
  ASSUME HolderTypes', NEW r
  PROVE  \A w \in Wallets :
             /\ (\A x \in Staged(r)' : x.wallet # w) => StageAmount(r)'[w] = 0
             /\ \A x \in Staged(r)' : x.wallet = w => StageAmount(r)'[w] = x.amount
<1>1. /\ \A x \in Staged(r)' : x.amount \in Nat
      /\ \A x, y \in Staged(r)' : x.wallet = y.wallet => x = y
  BY DEF HolderTypes, OneRow, Staged
<1>2. ASSUME NEW w \in Wallets
      PROVE  /\ (\A x \in Staged(r)' : x.wallet # w) => Sum(Staged(r)', w) = 0
             /\ \A x \in Staged(r)' : x.wallet = w => Sum(Staged(r)', w) = x.amount
  BY <1>1, RowsSum
<1> QED
  BY <1>2, StageIsSumNext

\* The stage after a step says the same of a wallet whose rows have not changed.
LEMMA StageStays ==
  ASSUME NEW r, NEW w \in Wallets,
         \A x : x.wallet = w => (x \in Staged(r)' <=> x \in Staged(r))
  PROVE  StageAmount(r)'[w] = StageAmount(r)[w]
<1>1. {x \in Staged(r)' : x.wallet = w} = {x \in Staged(r) : x.wallet = w}
  OBVIOUS
<1>2. Sum(Staged(r)', w) = Sum(Staged(r), w)
  BY <1>1 DEF Sum
<1> QED
  BY <1>2, StageIsSum, StageIsSumNext DEF AddsUp

-----------------------------------------------------------------------------
(* Types.                                                                   *)

\* The types hold at first.
LEMMA InitTypes == Init => HolderTypes
  BY HolderAssumption DEF Init, HolderTypes, Amounts, Nothing, Runs, Places, Locals, Fresh, OneRow

\* The types of the operators that the steps are written with.
LEMMA OperatorTypes ==
  ASSUME HolderTypes
  PROVE  /\ Nothing \in Amounts
         /\ \A f \in Amounts : Transferred(f) \in Amounts
         /\ \A f \in Amounts, k \in Nat : OfShard(f, k) \in Amounts
         /\ Fresh \in Locals
<1>1. Nothing \in Amounts
  BY DEF Nothing, Amounts
<1>2. ASSUME NEW f \in Amounts PROVE Transferred(f) \in Amounts
  BY DEF Transferred, Amounts
<1>3. ASSUME NEW f \in Amounts, NEW k \in Nat PROVE OfShard(f, k) \in Amounts
  BY DEF OfShard, Amounts
<1>4. Fresh \in Locals
  BY <1>1, HolderAssumption DEF Fresh, Locals, Runs
<1> QED
  BY <1>1, <1>2, <1>3, <1>4

\* What a step may set of a sync's variables.
LEMMA LocalsTypes ==
  ASSUME NEW l \in Locals
  PROVE  /\ \A r \in Runs : [l EXCEPT !.run = r] \in Locals
         /\ \A n \in 0 .. TotalShards : [l EXCEPT !.next = n] \in Locals
         /\ \A n \in Nat : [l EXCEPT !.done = n] \in Locals
         /\ \A f \in Amounts : [l EXCEPT !.snap = f] \in Locals /\ [l EXCEPT !.prev = f] \in Locals
         /\ \A b \in BOOLEAN : [l EXCEPT !.empty = b] \in Locals
         /\ \A L \in SUBSET Wallets : [l EXCEPT !.listed = L] \in Locals
  BY DEF Locals

\* Only the stage's rows of one wallet and run may clash.
LEMMA TypesStep ==
  ASSUME HolderTypes, Named, Next
  PROVE  HolderTypes'
<1>0. /\ TotalShards \in Nat \ {0} /\ MaxShards \in Nat \ {0}
      /\ ShardOf \in [Wallets -> 0 .. (TotalShards - 1)]
      /\ NoRun \notin Syncs /\ Syncs \cap Deliveries = {}
  BY HolderAssumption
<1>1. ASSUME NEW s \in Syncs, Sync(s) PROVE HolderTypes'
  <2>1. /\ loc[s] \in Locals /\ loc[s].run \in Runs /\ loc[s].next \in 0 .. TotalShards
        /\ loc[s].done \in Nat /\ loc[s].snap \in Amounts /\ loc[s].prev \in Amounts
        /\ chain \in Amounts /\ final \in Amounts /\ loc[s].listed \in SUBSET Wallets
        /\ row.run \in Runs /\ row.next \in 0 .. TotalShards
    BY DEF HolderTypes, Locals
  <2>2. StageAmount(loc[s].run) \in Amounts
    BY StageSays
  <2>3. Fresh \in Locals /\ Nothing \in Amounts
    BY OperatorTypes
  <2>4. CASE Begin(s)
    <3>1. [[loc[s] EXCEPT !.run = row.run] EXCEPT !.next = row.next] \in Locals
          /\ [loc[s] EXCEPT !.run = s] \in Locals
      BY <2>1, LocalsTypes DEF Runs
    <3> QED
      BY <2>4, <3>1 DEF Begin, HolderTypes, Goes, Sets, Places, OneRow
  <2>5. CASE ResumeRun(s)
    BY <2>5, <2>1 DEF ResumeRun, HolderTypes, Goes, Put, Places, OneRow
  <2>6. CASE ClearStage(s)
    BY <2>6, <2>1 DEF ClearStage, HolderTypes, Goes, Places, OneRow
  <2>7. CASE FreshRun(s)
    BY <2>7, <2>1, <1>0 DEF FreshRun, HolderTypes, Goes, Put, Places, OneRow
  <2>8. CASE Undecided(s)
    BY <2>8, <2>1, <2>3 DEF Undecided, HolderTypes, Goes, Put, Ends, Places, OneRow
  <2>9. CASE FetchAll(s)
    <3>1. \A f \in Amounts : [loc[s] EXCEPT !.snap = f] \in Locals
      BY <2>1, LocalsTypes
    <3>2. ByHelius \subseteq Amounts
      BY <2>1 DEF ByHelius
    <3>3. loc' \in [Syncs -> Locals]
      BY <2>9, <3>1, <3>2 DEF FetchAll, Sets, HolderTypes
    <3> QED
      BY <2>9, <3>3 DEF FetchAll, HolderTypes, Goes, Places, OneRow
  <2>10. CASE FetchShard(s)
    <3>1. loc[s].next \in Nat
      BY <2>1, <1>0
    <3>2. /\ OfShard(chain, loc[s].next) \in Amounts
          /\ OfShard(StageAmount(loc[s].run), loc[s].next) \in Amounts
      BY <2>1, <2>2, <3>1, OperatorTypes
    <3>3. [[loc[s] EXCEPT !.snap = OfShard(chain, loc[s].next)]
             EXCEPT !.prev = OfShard(StageAmount(loc[s].run), loc[s].next)] \in Locals
      BY <2>1, <3>2, LocalsTypes
    <3> QED
      BY <2>10, <3>3 DEF FetchShard, HolderTypes, Goes, Places, OneRow
  <2>11. CASE DeleteShard(s)
    BY <2>11, <2>1 DEF DeleteShard, HolderTypes, Goes, Places, OneRow
  <2>12. CASE InsertShard(s)
    <3> DEFINE new == {w \in Wallets : loc[s].snap[w] > 0}
               added == {[run |-> loc[s].run, wallet |-> w, amount |-> loc[s].snap[w]] : w \in new}
    <3>1. CASE \E x \in Staged(loc[s].run) : x.wallet \in new
      BY <2>12, <3>1, <2>1 DEF InsertShard, HolderTypes, Goes, Places, OneRow
    <3>2. CASE ~ \E x \in Staged(loc[s].run) : x.wallet \in new
      <4>1. stage' = stage \cup added
        BY <2>12, <3>2 DEF InsertShard
      <4>2. added \subseteq [run : Runs, wallet : Wallets, amount : Nat]
        BY <2>1 DEF Amounts
      <4>3. \A x \in stage, y \in added : ~(x.run = y.run /\ x.wallet = y.wallet)
        BY <3>2 DEF Staged
      <4>4. OneRow'
        BY <4>1, <4>3 DEF OneRow, HolderTypes
      <4> QED
        BY <2>12, <2>1, <4>1, <4>2, <4>4 DEF InsertShard, HolderTypes, Goes, Places
    <3> QED
      BY <3>1, <3>2
  <2>13. CASE ApplyShard(s)
    <3>1. \A w \in Wallets : /\ final[w] \in Nat /\ loc[s].snap[w] \in Nat
                             /\ loc[s].prev[w] \in Nat
      BY <2>1 DEF Amounts
    <3>2. final' \in Amounts
      BY <2>13, <3>1 DEF ApplyShard, Amounts
    <3> QED
      BY <2>13, <3>2 DEF ApplyShard, HolderTypes, Goes, Places, OneRow
  <2>14. CASE Advance(s)
    <3>1. loc[s].next < TotalShards
      BY <2>14 DEF Advance, Named, InFlight
    <3>2. loc[s].next + 1 \in 0 .. TotalShards /\ loc[s].done + 1 \in Nat
      BY <3>1, <2>1, <1>0
    <3>3. [[[[loc[s] EXCEPT !.next = loc[s].next + 1] EXCEPT !.done = loc[s].done + 1]
              EXCEPT !.snap = Nothing] EXCEPT !.prev = Nothing] \in Locals
      BY <2>1, <2>3, <3>2, LocalsTypes
    <3>4. loc' = [loc EXCEPT ![s] =
                    [[[[loc[s] EXCEPT !.next = loc[s].next + 1] EXCEPT !.done = loc[s].done + 1]
                        EXCEPT !.snap = Nothing] EXCEPT !.prev = Nothing]]
      BY <2>14, <2>1 DEF Advance, HolderTypes, Locals
    <3> QED
      BY <2>14, <2>1, <3>2, <3>3, <3>4 DEF Advance, HolderTypes, Goes, Put, Places, OneRow
  <2>15. CASE Broken(s)
    BY <2>15, <2>1, <2>3 DEF Broken, HolderTypes, Goes, Put, Ends, Places, OneRow
  <2>16. CASE Settle(s)
    BY <2>16, <2>1, <2>3 DEF Settle, HolderTypes, Goes, Put, Ends, Places, OneRow
  <2>17. CASE Upsert(s)
    <3>1. final' \in Amounts
      BY <2>17, <2>1, <2>2 DEF Upsert, Amounts
    <3>2. loc' \in [Syncs -> Locals]
      BY <2>17, <2>1, LocalsTypes DEF Upsert, Sets, HolderTypes
    <3> QED
      BY <2>17, <3>1, <3>2 DEF Upsert, HolderTypes, Goes, Places, OneRow
  <2>18. CASE Zero(s)
    <3>1. final' \in Amounts
      BY <2>18, <2>1 DEF Zero, Amounts
    <3> QED
      BY <2>18, <3>1 DEF Zero, HolderTypes, Goes, Places, OneRow
  <2>19. CASE Write(s)
    BY <2>19, <2>1 DEF Write, HolderTypes, Goes, Places, OneRow
  <2>20. CASE Wipe(s)
    BY <2>20 DEF Wipe, HolderTypes, Goes, Places, OneRow
  <2>21. CASE Complete(s)
    BY <2>21, <2>1, <2>3, <1>0 DEF Complete, HolderTypes, Goes, Put, Ends, Places, OneRow
  <2>22. CASE Finish(s)
    BY <2>22, <2>1, <1>0 DEF Finish, HolderTypes, Goes, Put, Places, OneRow
  <2>23. CASE Drop(s)
    BY <2>23, <2>3 DEF Drop, HolderTypes, Goes, Ends, Places, OneRow
  <2>24. CASE FullSync(s)
    <3>1. PICK all \in ByHelius \cup {Nothing} :
             loc' = [loc EXCEPT ![s].run = row.run, ![s].next = row.next, ![s].snap = all]
      BY <2>24 DEF FullSync
    <3>2. all \in Amounts
      BY <2>1, <2>3 DEF ByHelius
    <3>3. [[[loc[s] EXCEPT !.run = row.run] EXCEPT !.next = row.next] EXCEPT !.snap = all]
             \in Locals
      BY <2>1, <3>2, LocalsTypes
    <3>4. loc' = [loc EXCEPT ![s] = [[[loc[s] EXCEPT !.run = row.run] EXCEPT !.next = row.next]
                                        EXCEPT !.snap = all]]
      BY <3>1, <2>1 DEF HolderTypes, Locals
    <3>5. loc' \in [Syncs -> Locals]
      BY <3>3, <3>4 DEF HolderTypes
    <3> QED
      BY <2>24, <3>5 DEF FullSync, HolderTypes, Goes, Places, OneRow
  <2>25. CASE ListAccounts(s)
    BY <2>25, <2>1, LocalsTypes DEF ListAccounts, HolderTypes, Goes, Sets, Places, OneRow
  <2>26. CASE ReadAccounts(s)
    <3>1. [w \in Wallets |-> IF w \in loc[s].listed THEN chain[w] ELSE 0] \in Amounts
      BY <2>1 DEF Amounts
    <3>2. \A f \in Amounts : [loc[s] EXCEPT !.snap = f] \in Locals
      BY <2>1, LocalsTypes
    <3>3. loc' \in [Syncs -> Locals]
      BY <2>26, <3>1, <3>2 DEF ReadAccounts, Sets, HolderTypes
    <3> QED
      BY <2>26, <3>3 DEF ReadAccounts, HolderTypes, Goes, Places, OneRow
  <2>27. CASE FullFails(s)
    BY <2>27, <2>1, <2>3 DEF FullFails, HolderTypes, Goes, Put, Ends, Places, OneRow
  <2> QED
    BY <1>1, <2>4, <2>5, <2>6, <2>7, <2>8, <2>9, <2>10, <2>11, <2>12, <2>13, <2>14, <2>15,
       <2>16, <2>17, <2>18, <2>19, <2>20, <2>21, <2>22, <2>23, <2>24, <2>25, <2>26, <2>27
       DEF Sync
<1>2. CASE Transfer
  BY <1>2, OperatorTypes DEF Transfer, HolderTypes, OneRow
<1>3. ASSUME NEW d \in Deliveries, Delta(d) \/ Batch(d) PROVE HolderTypes'
  BY <1>3, OperatorTypes DEF Delta, Batch, HolderTypes, Goes, Places, OneRow
<1>4. ASSUME NEW p \in Syncs \cup Deliveries, Dies(p) PROVE HolderTypes'
  BY <1>4, OperatorTypes DEF Dies, HolderTypes, Goes, Places, OneRow
<1> QED
  BY <1>1, <1>2, <1>3, <1>4 DEF Next

-----------------------------------------------------------------------------
(* Who is under way where.                                                  *)

\* What a step of s leaves of the other syncs.
Others(s) ==
    \A t \in Syncs \ {s} : pc'[t] = pc[t] /\ loc'[t] = loc[t]

\* A sync's step moves only its own variables, and not to idle.
LEMMA OwnStep ==
  ASSUME HolderTypes, NEW s \in Syncs, Sync(s)
  PROVE  /\ Others(s) /\ pc[s] # "over" /\ pc'[s] # "idle"
         /\ pc[s] # "idle" => s \in InFlight /\ UNCHANGED <<overlapped, moved>>
         /\ chain' = chain /\ applied' = applied
<1>1. /\ loc \in [Syncs -> Locals] /\ pc \in [Syncs \cup Deliveries -> Places]
  BY DEF HolderTypes
<1>2. CASE Begin(s)
  BY <1>1, <1>2 DEF Begin, Others, InFlight, Goes, Sets, Ends
<1>3. CASE ResumeRun(s)
  BY <1>1, <1>3 DEF ResumeRun, Others, InFlight, Goes, Sets, Ends
<1>4. CASE ClearStage(s)
  BY <1>1, <1>4 DEF ClearStage, Others, InFlight, Goes, Sets, Ends
<1>5. CASE FreshRun(s)
  BY <1>1, <1>5 DEF FreshRun, Others, InFlight, Goes, Sets, Ends
<1>6. CASE Undecided(s)
  BY <1>1, <1>6 DEF Undecided, Others, InFlight, Goes, Sets, Ends
<1>7. CASE FetchAll(s)
  BY <1>1, <1>7 DEF FetchAll, Others, InFlight, Goes, Sets, Ends
<1>8. CASE FetchShard(s)
  BY <1>1, <1>8 DEF FetchShard, Others, InFlight, Goes, Sets, Ends
<1>9. CASE DeleteShard(s)
  BY <1>1, <1>9 DEF DeleteShard, Others, InFlight, Goes, Sets, Ends
<1>10. CASE InsertShard(s)
  BY <1>1, <1>10 DEF InsertShard, Others, InFlight, Goes, Sets, Ends
<1>11. CASE ApplyShard(s)
  BY <1>1, <1>11 DEF ApplyShard, Others, InFlight, Goes, Sets, Ends
<1>12. CASE Advance(s)
  BY <1>1, <1>12 DEF Advance, Others, InFlight, Goes, Sets, Ends
<1>13. CASE Broken(s)
  BY <1>1, <1>13 DEF Broken, Others, InFlight, Goes, Sets, Ends
<1>14. CASE Settle(s)
  BY <1>1, <1>14 DEF Settle, Others, InFlight, Goes, Sets, Ends
<1>15. CASE Upsert(s)
  BY <1>1, <1>15 DEF Upsert, Others, InFlight, Goes, Sets, Ends
<1>16. CASE Zero(s)
  BY <1>1, <1>16 DEF Zero, Others, InFlight, Goes, Sets, Ends
<1>17. CASE Write(s)
  BY <1>1, <1>17 DEF Write, Others, InFlight, Goes, Sets, Ends
<1>18. CASE Wipe(s)
  BY <1>1, <1>18 DEF Wipe, Others, InFlight, Goes, Sets, Ends
<1>19. CASE Complete(s)
  BY <1>1, <1>19 DEF Complete, Others, InFlight, Goes, Sets, Ends
<1>20. CASE Finish(s)
  BY <1>1, <1>20 DEF Finish, Others, InFlight, Goes, Sets, Ends
<1>21. CASE Drop(s)
  BY <1>1, <1>21 DEF Drop, Others, InFlight, Goes, Sets, Ends
<1>22. CASE FullSync(s)
  BY <1>1, <1>22 DEF FullSync, Others, InFlight, Goes, Sets, Ends
<1>23. CASE ListAccounts(s)
  BY <1>1, <1>23 DEF ListAccounts, Others, InFlight, Goes, Sets, Ends
<1>24. CASE ReadAccounts(s)
  BY <1>1, <1>24 DEF ReadAccounts, Others, InFlight, Goes, Sets, Ends
<1>25. CASE FullFails(s)
  BY <1>1, <1>25 DEF FullFails, Others, InFlight, Goes, Sets, Ends
<1> QED
  BY <1>2, <1>3, <1>4, <1>5, <1>6, <1>7, <1>8, <1>9, <1>10, <1>11, <1>12, <1>13, <1>14, <1>15,
     <1>16, <1>17, <1>18, <1>19, <1>20, <1>21, <1>22, <1>23, <1>24, <1>25 DEF Sync

\* The names stay right when s has taken a step that keeps its own.
LEMMA NamedOwn ==
  ASSUME Named, NEW s \in Syncs, Others(s), pc'[s] # "idle",
         \/ UNCHANGED row
         \/ row'.run # NoRun,
         s \in InFlight' =>
            /\ loc'[s].run # NoRun
            /\ pc'[s] \in {"clear", "fresh"} => loc'[s].next = 0
            /\ pc'[s] \in {"delete", "insert", "apply", "advance"} => loc'[s].next < TotalShards
            /\ pc'[s] \in {"upsert", "zero", "finish", "drop"} => loc'[s].next = TotalShards
            /\ pc'[s] \notin {"clear", "fresh"} => row'.run # NoRun
  PROVE  Named'
  BY DEF Named, Others, InFlight

\* Every step keeps the names.
LEMMA NamedStep ==
  ASSUME HolderTypes, Named, Next
  PROVE  Named'
<1>0. /\ loc \in [Syncs -> Locals] /\ pc \in [Syncs \cup Deliveries -> Places]
      /\ TotalShards \in Nat \ {0} /\ NoRun \notin Syncs /\ Syncs \cap Deliveries = {}
  BY HolderAssumption DEF HolderTypes
<1>1. ASSUME NEW s \in Syncs, Sync(s) PROVE Named'
  <2>1. Others(s) /\ pc'[s] # "idle" /\ (pc[s] # "idle" => s \in InFlight)
    BY <1>1, OwnStep
  <2>2. loc[s] \in Locals /\ loc[s].next \in 0 .. TotalShards
    BY <1>0 DEF Locals
  <2>3. CASE Begin(s)
    <3>1. CASE row.run # NoRun /\ row.status \in {"running", "failed"}
      <4>1. pc'[s] = "resume" /\ row' = row /\ loc'[s].run = row.run
        BY <1>0, <2>2, <2>3, <3>1 DEF Begin, Goes, Locals
      <4> QED
        BY <2>1, <3>1, <4>1, NamedOwn
    <3>2. CASE ~(row.run # NoRun /\ row.status \in {"running", "failed"})
      <4>1. loc[s].next = 0
        BY <2>3 DEF Begin, Named, Fresh
      <4>2. pc'[s] = "clear" /\ row' = row /\ loc'[s].run = s /\ loc'[s].next = 0
        BY <1>0, <2>2, <2>3, <3>2, <4>1 DEF Begin, Goes, Sets, Locals
      <4> QED
        BY <1>0, <2>1, <4>2, NamedOwn
    <3> QED
      BY <3>1, <3>2
  <2>4. CASE ResumeRun(s)
    BY <1>0, <2>1, <2>2, <2>4, NamedOwn DEF ResumeRun, Goes, Sets, Put, Ends, Named, InFlight,
       Locals
  <2>5. CASE ClearStage(s)
    BY <1>0, <2>1, <2>2, <2>5, NamedOwn DEF ClearStage, Goes, Sets, Put, Ends, Named, InFlight,
       Locals
  <2>6. CASE FreshRun(s)
    BY <1>0, <2>1, <2>2, <2>6, NamedOwn DEF FreshRun, Goes, Sets, Put, Ends, Named, InFlight,
       Locals
  <2>7. CASE Undecided(s)
    BY <1>0, <2>1, <2>2, <2>7, NamedOwn DEF Undecided, Goes, Sets, Put, Ends, Named, InFlight,
       Locals
  <2>8. CASE FetchAll(s)
    BY <1>0, <2>1, <2>2, <2>8, NamedOwn DEF FetchAll, Goes, Sets, Put, Ends, Named, InFlight,
       Locals
  <2>9. CASE FetchShard(s)
    BY <1>0, <2>1, <2>2, <2>9, NamedOwn DEF FetchShard, Goes, Sets, Put, Ends, Named, InFlight,
       Locals, More
  <2>10. CASE DeleteShard(s)
    BY <1>0, <2>1, <2>2, <2>10, NamedOwn DEF DeleteShard, Goes, Sets, Put, Ends, Named,
       InFlight, Locals
  <2>11. CASE InsertShard(s)
    BY <1>0, <2>1, <2>2, <2>11, NamedOwn DEF InsertShard, Goes, Sets, Put, Ends, Named,
       InFlight, Locals
  <2>12. CASE ApplyShard(s)
    BY <1>0, <2>1, <2>2, <2>12, NamedOwn DEF ApplyShard, Goes, Sets, Put, Ends, Named, InFlight,
       Locals
  <2>13. CASE Advance(s)
    BY <1>0, <2>1, <2>2, <2>13, NamedOwn DEF Advance, Goes, Sets, Put, Ends, Named, InFlight,
       Locals
  <2>14. CASE Broken(s)
    BY <1>0, <2>1, <2>2, <2>14, NamedOwn DEF Broken, Goes, Sets, Put, Ends, Named, InFlight, Locals
  <2>15. CASE Settle(s)
    <3>1. row'.run # NoRun /\ loc[s].run # NoRun
      BY <2>1, <2>15 DEF Settle, Put, Named
    <3>2. CASE loc[s].next >= TotalShards
      <4>1. loc[s].next = TotalShards
        BY <1>0, <2>2, <3>2
      <4>2. pc'[s] = "upsert" /\ loc'[s] = loc[s]
        BY <1>0, <2>15, <3>2 DEF Settle, Goes
      <4> QED
        BY <2>1, <3>1, <4>1, <4>2, NamedOwn
    <3>3. CASE ~(loc[s].next >= TotalShards)
      <4>1. pc'[s] = "over"
        BY <1>0, <2>15, <3>3 DEF Settle, Ends, Goes
      <4> QED
        BY <2>1, <3>1, <4>1, NamedOwn DEF InFlight
    <3> QED
      BY <3>2, <3>3
  <2>16. CASE Upsert(s)
    BY <1>0, <2>1, <2>2, <2>16, NamedOwn DEF Upsert, Goes, Sets, Put, Ends, Named, InFlight, Locals
  <2>17. CASE Zero(s)
    BY <1>0, <2>1, <2>2, <2>17, NamedOwn DEF Zero, Goes, Sets, Put, Ends, Named, InFlight, Locals
  <2>18. CASE Write(s)
    BY <1>0, <2>1, <2>2, <2>18, NamedOwn DEF Write, Goes, Sets, Put, Ends, Named, InFlight, Locals
  <2>19. CASE Wipe(s)
    BY <1>0, <2>1, <2>2, <2>19, NamedOwn DEF Wipe, Goes, Sets, Put, Ends, Named, InFlight, Locals
  <2>20. CASE Complete(s)
    BY <1>0, <2>1, <2>2, <2>20, NamedOwn DEF Complete, Goes, Sets, Put, Ends, Named, InFlight,
       Locals
  <2>21. CASE Finish(s)
    BY <1>0, <2>1, <2>2, <2>21, NamedOwn DEF Finish, Goes, Sets, Put, Ends, Named, InFlight, Locals
  <2>22. CASE Drop(s)
    BY <1>0, <2>1, <2>2, <2>22, NamedOwn DEF Drop, Goes, Sets, Put, Ends, Named, InFlight, Locals
  <2>23. CASE FullSync(s)
    BY <1>0, <2>1, <2>2, <2>23, NamedOwn DEF FullSync, Goes, Sets, Put, Ends, Named, InFlight,
       Locals
  <2>24. CASE ListAccounts(s)
    BY <1>0, <2>1, <2>2, <2>24, NamedOwn DEF ListAccounts, Goes, Sets, Put, Ends, Named,
       InFlight, Locals
  <2>25. CASE ReadAccounts(s)
    BY <1>0, <2>1, <2>2, <2>25, NamedOwn DEF ReadAccounts, Goes, Sets, Put, Ends, Named,
       InFlight, Locals
  <2>26. CASE FullFails(s)
    BY <1>0, <2>1, <2>2, <2>26, NamedOwn DEF FullFails, Goes, Sets, Put, Ends, Named, InFlight,
       Locals
  <2> QED
    BY <1>1, <2>3, <2>4, <2>5, <2>6, <2>7, <2>8, <2>9, <2>10, <2>11, <2>12, <2>13, <2>14, <2>15,
       <2>16, <2>17, <2>18, <2>19, <2>20, <2>21, <2>22, <2>23, <2>24, <2>25, <2>26 DEF Sync
<1>2. CASE Transfer
  BY <1>2 DEF Transfer, Named, InFlight
<1>3. ASSUME NEW d \in Deliveries, Delta(d) \/ Batch(d) PROVE Named'
  BY <1>0, <1>3 DEF Delta, Batch, Goes, Named, InFlight
<1>4. ASSUME NEW p \in Syncs \cup Deliveries, Dies(p) PROVE Named'
  BY <1>0, <1>4 DEF Dies, Goes, Named, InFlight
<1> QED
  BY <1>1, <1>2, <1>3, <1>4 DEF Next
-----------------------------------------------------------------------------
(* How a step keeps what the syncs rely on.                                  *)

\* A step that leaves the stage and the chain leaves what the stage holds of
\* a run.
LEMMA UptoStays ==
  ASSUME UNCHANGED <<stage, chain>>
  PROVE  /\ \A r : StageAmount(r)' = StageAmount(r)
         /\ \A r, n : Upto(r, n)' <=> Upto(r, n)
<1>1. ASSUME NEW r PROVE StageAmount(r)' = StageAmount(r)
  <2>1. Staged(r)' = Staged(r)
    BY DEF Staged
  <2> QED
    BY <2>1, StageIsSum, StageIsSumNext DEF AddsUp, Sum
<1> QED
  BY <1>1 DEF Upto

\* While the row names no run, no sync works on it, and none has reached it.
LEMMA RowOfNoRun ==
  ASSUME Named', row'.run = NoRun
  PROVE  RowSound'
  BY DEF Named, RowSound, InFlight

\* A sync that does not work alone, or whose run another sync has worked in,
\* leaves nothing to keep.
LEMMA SpoiltStep ==
  ASSUME HolderInv, NEW s \in InFlight, loc[s].run \in overlapped,
         pc[s] \notin {"clear", "fresh"}, Others(s), UNCHANGED overlapped,
         row'.run \in {row.run, loc[s].run},
         s \in InFlight' => loc'[s].run \in {row.run, loc[s].run}
  PROVE  RowSound' /\ \A t \in InFlight' : SyncSound(t)'
<1>1. row.run \in overlapped
  BY DEF HolderInv, RowSound
<1>2. RowSound'
  BY <1>1 DEF RowSound
<1>3. ASSUME NEW t \in InFlight' PROVE loc'[t].run \in overlapped'
  <2>1. CASE t = s
    BY <1>1, <2>1
  <2>2. CASE t # s
    <3>1. t \in InFlight /\ loc'[t] = loc[t]
      BY <2>2 DEF InFlight, Others
    <3>2. loc[t].run \in overlapped
      BY <2>2, <3>1 DEF HolderInv, SyncSound, Alone
    <3> QED
      BY <3>1, <3>2
  <2> QED
    BY <2>1, <2>2
<1> QED
  BY <1>2, <1>3 DEF SyncSound

\* What a sync knows that works on its run alone.
LEMMA CleanRun ==
  ASSUME HolderInv, NEW s \in InFlight, loc[s].run \notin overlapped
  PROVE  /\ InFlight = {s} /\ loc[s].run # NoRun
         /\ pc[s] \notin {"clear", "fresh"} => row.run = loc[s].run /\ row.next <= loc[s].next
         /\ loc[s].run \notin moved => Relies(s)
  BY DEF HolderInv, SyncSound, Alone, Ahead, Named

\* What such a sync's step has to keep.
LEMMA CleanStep ==
  ASSUME HolderInv, NEW s \in InFlight, loc[s].run \notin overlapped,
         Others(s), UNCHANGED <<overlapped, moved>>, row'.run = loc[s].run,
         s \in InFlight' => /\ loc'[s].run = loc[s].run
                            /\ pc'[s] \notin {"clear", "fresh"}
                            /\ row'.next <= loc'[s].next,
         loc[s].run \notin moved =>
            /\ s \in InFlight' => Relies(s)'
            /\ row'.status \in {"running", "failed"} /\ pc'[s] # "complete"
                  => Upto(row.run, row.next)'
  PROVE  RowSound' /\ \A t \in InFlight' : SyncSound(t)'
<1>1. InFlight = {s} /\ loc[s].run # NoRun
  BY CleanRun
<1>2. \A t \in InFlight' : t = s
  BY <1>1 DEF InFlight, Others
<1>3. RowSound'
  <2>1. s \in InFlight' =>
           /\ Alone(s)'
           /\ pc'[s] \notin {"clear", "fresh"} /\ loc'[s].run = row'.run
    BY <1>2 DEF Alone
  <2>2. row'.run \notin moved' /\ row'.status \in {"running", "failed"}
          /\ (\A t \in InFlight' : pc'[t] # "complete") => Upto(row.run, row.next)'
    <3>1. pc'[s] = "complete" => s \in InFlight'
      BY DEF InFlight
    <3> QED
      BY <3>1
  <2> QED
    BY <1>2, <2>1, <2>2 DEF RowSound
<1>4. ASSUME s \in InFlight' PROVE SyncSound(s)'
  <2>1. Alone(s)' /\ Ahead(s)'
    BY <1>2, <1>4 DEF Alone, Ahead
  <2> QED
    BY <1>4, <2>1 DEF SyncSound
<1> QED
  BY <1>2, <1>3, <1>4
\* The same, as a step of s keeps it.
CleanKept(s) ==
    /\ row'.run = loc[s].run
    /\ s \in InFlight' => /\ loc'[s].run = loc[s].run
                          /\ pc'[s] \notin {"clear", "fresh"}
                          /\ row'.next <= loc'[s].next
    /\ loc[s].run \notin moved =>
          /\ s \in InFlight' => Relies(s)'
          /\ row'.status \in {"running", "failed"} /\ pc'[s] # "complete"
                => Upto(row.run, row.next)'

\* The steps that leave the stage.
LEMMA RowSteps ==
  ASSUME HolderInv, NEW s \in InFlight, loc[s].run \notin overlapped,
         \/ ResumeRun(s) \/ Undecided(s) \/ FetchAll(s) \/ FetchShard(s) \/ ApplyShard(s)
         \/ Advance(s) \/ Broken(s) \/ Settle(s) \/ Upsert(s) \/ Zero(s) \/ Write(s)
         \/ Complete(s) \/ Finish(s) \/ FullSync(s) \/ ListAccounts(s) \/ ReadAccounts(s)
         \/ FullFails(s)
  PROVE  CleanKept(s)
<1>1. /\ loc \in [Syncs -> Locals] /\ pc \in [Syncs \cup Deliveries -> Places] /\ s \in Syncs
      /\ loc[s] \in Locals /\ loc[s].next \in 0 .. TotalShards /\ row.next \in 0 .. TotalShards
      /\ chain \in Amounts /\ final \in Amounts /\ StageAmount(loc[s].run) \in Amounts
      /\ TotalShards \in Nat \ {0} /\ ShardOf \in [Wallets -> 0 .. (TotalShards - 1)]
  BY HolderAssumption, StageSays DEF HolderInv, HolderTypes, Locals, InFlight
<1>2. /\ pc[s] \notin {"clear", "fresh"} /\ UNCHANGED <<stage, chain>>
  BY DEF ResumeRun, Undecided, FetchAll, FetchShard, ApplyShard, Advance, Broken, Settle, Upsert,
         Zero, Write, Complete, Finish, FullSync, ListAccounts, ReadAccounts, FullFails
<1>3. /\ row.run = loc[s].run /\ row.next <= loc[s].next
      /\ loc[s].run \notin moved => Relies(s)
  BY <1>2, CleanRun
<1>4. /\ \A r : StageAmount(r)' = StageAmount(r)
      /\ \A r, n : Upto(r, n)' <=> Upto(r, n)
  BY <1>2, UptoStays
<1>5. loc[s].run \notin moved /\ row.status \in {"running", "failed"} /\ pc[s] # "complete"
        => Upto(row.run, row.next)
  BY <1>3, CleanRun DEF HolderInv, RowSound
<1>6. loc[s].run \notin moved /\ pc[s] \in {"upsert", "zero"} =>
         StageAmount(loc[s].run) = chain
  <2> SUFFICES ASSUME loc[s].run \notin moved, pc[s] \in {"upsert", "zero"}
               PROVE  StageAmount(loc[s].run) = chain
    OBVIOUS
  <2>1. Upto(loc[s].run, loc[s].next) /\ loc[s].next = TotalShards
    BY <1>3 DEF Relies, HolderInv, Named
  <2> QED
    BY <1>1, <2>1 DEF Upto, Amounts
<1>7. CASE ResumeRun(s)
  BY <1>1, <1>3, <1>4, <1>7 DEF ResumeRun, CleanKept, Relies, Put, Goes, InFlight
<1>8. CASE Undecided(s)
  BY <1>1, <1>3, <1>4, <1>8 DEF Undecided, CleanKept, Relies, Put, Goes, Ends, InFlight
<1>9. CASE FetchAll(s)
  BY <1>1, <1>3, <1>4, <1>5, <1>9
     DEF FetchAll, ByHelius, CleanKept, Relies, Goes, Sets, InFlight, Locals
<1>10. CASE FetchShard(s)
  BY <1>1, <1>3, <1>4, <1>5, <1>10
     DEF FetchShard, CleanKept, Relies, Goes, InFlight, Locals
<1>11. CASE ApplyShard(s)
  BY <1>1, <1>3, <1>4, <1>5, <1>11 DEF ApplyShard, CleanKept, Relies, Goes, InFlight
<1>12. CASE Advance(s)
  BY <1>1, <1>3, <1>4, <1>12 DEF Advance, CleanKept, Relies, Put, Goes, InFlight, Locals
<1>13. CASE Broken(s)
  BY <1>1, <1>3, <1>4, <1>13 DEF Broken, CleanKept, Relies, Put, Goes, Ends, InFlight
<1>14. CASE Settle(s)
  BY <1>1, <1>3, <1>4, <1>14 DEF Settle, CleanKept, Relies, Put, Goes, Ends, InFlight
<1>15. CASE Upsert(s)
  BY <1>1, <1>3, <1>4, <1>5, <1>6, <1>15
     DEF Upsert, CleanKept, Relies, Goes, Sets, InFlight, Locals, Amounts
<1>16. CASE Zero(s)
  BY <1>1, <1>3, <1>4, <1>5, <1>6, <1>16 DEF Zero, CleanKept, Relies, Goes, InFlight, Amounts
<1>17. CASE Write(s)
  BY <1>1, <1>3, <1>4, <1>5, <1>17 DEF Write, CleanKept, Relies, Goes, InFlight
<1>18. CASE Complete(s)
  BY <1>1, <1>3, <1>4, <1>18 DEF Complete, CleanKept, Put, Goes, Ends, InFlight
<1>19. CASE Finish(s)
  BY <1>1, <1>3, <1>4, <1>19 DEF Finish, CleanKept, Relies, Put, Goes, InFlight, HolderInv, Named
<1>20. CASE FullSync(s)
  <2>1. PICK all \in ByHelius \cup {Nothing} :
           /\ loc' = [loc EXCEPT ![s].run = row.run, ![s].next = row.next, ![s].snap = all]
           /\ IF all # Nothing THEN Goes(s, "write") ELSE Goes(s, "list") \/ Goes(s, "unfetched")
    BY <1>20 DEF FullSync
  <2>2. loc'[s].run = row.run /\ loc'[s].next = row.next
    BY <1>1, <2>1 DEF Locals
  <2>3. row' = row /\ final' = final /\ pc[s] = "full"
    BY <1>20 DEF FullSync
  <2>4. pc'[s] \in {"write", "list", "unfetched"}
    BY <1>1, <2>1 DEF Goes
  <2>5. loc[s].run \notin moved =>
           chain = Nothing /\ Upto(loc[s].run, TotalShards) /\ row.status = "completed"
    BY <1>3, <2>3 DEF Relies
  <2>6. loc[s].run \notin moved => Relies(s)'
    BY <1>2, <1>3, <1>4, <2>2, <2>3, <2>4, <2>5 DEF Relies
  <2> QED
    BY <1>1, <1>3, <1>4, <2>2, <2>3, <2>4, <2>5, <2>6 DEF CleanKept
<1>21. CASE ListAccounts(s)
  BY <1>1, <1>3, <1>4, <1>5, <1>21 DEF ListAccounts, CleanKept, Relies, Goes, Sets, InFlight,
     Locals
<1>22. CASE ReadAccounts(s)
  BY <1>1, <1>3, <1>4, <1>5, <1>22 DEF ReadAccounts, CleanKept, Relies, Goes, Sets, InFlight,
     Locals
<1>23. CASE FullFails(s)
  BY <1>1, <1>3, <1>4, <1>23 DEF FullFails, CleanKept, Relies, Upto, Put, Goes, Ends, InFlight
<1> QED
  BY <1>7, <1>8, <1>9, <1>10, <1>11, <1>12, <1>13, <1>14, <1>15, <1>16, <1>17, <1>18, <1>19,
     <1>20, <1>21, <1>22, <1>23
\* The steps that write the stage.
LEMMA StageSteps ==
  ASSUME HolderInv, HolderTypes', NEW s \in InFlight, loc[s].run \notin overlapped,
         DeleteShard(s) \/ InsertShard(s) \/ Wipe(s) \/ Drop(s)
  PROVE  CleanKept(s)
<1>1. /\ loc \in [Syncs -> Locals] /\ pc \in [Syncs \cup Deliveries -> Places] /\ s \in Syncs
      /\ loc[s] \in Locals /\ loc[s].next \in 0 .. TotalShards /\ row.next \in 0 .. TotalShards
      /\ chain \in Amounts /\ StageAmount(loc[s].run) \in Amounts /\ loc[s].snap \in Amounts
      /\ TotalShards \in Nat \ {0} /\ ShardOf \in [Wallets -> 0 .. (TotalShards - 1)]
  BY HolderAssumption, StageSays DEF HolderInv, HolderTypes, Locals, InFlight
<1>2. /\ pc[s] \notin {"clear", "fresh"} /\ UNCHANGED <<chain, row, final>>
  BY DEF DeleteShard, InsertShard, Wipe, Drop
<1>3. /\ row.run = loc[s].run /\ row.next <= loc[s].next
      /\ loc[s].run \notin moved => Relies(s)
  BY <1>2, CleanRun
<1>4. PICK r : r = loc[s].run
  OBVIOUS
<1>5. PICK n \in 0 .. TotalShards : n = loc[s].next
  BY <1>1
<1>6. CASE DeleteShard(s)
  <2>1. /\ pc[s] = "delete" /\ stage' = stage \ ShardRows(r, n) /\ loc' = loc
        /\ pc'[s] = IF loc[s].snap = Nothing THEN "apply" ELSE "insert"
    BY <1>1, <1>4, <1>5, <1>6 DEF DeleteShard, Goes
  <2>2. ASSUME r \notin moved
        PROVE  /\ Upto(r, n)' /\ ShardRows(r, n)' = {} /\ loc[s].snap = OfShard(chain, n)
               /\ loc[s].snap = Nothing => Upto(r, n + 1)'
    <3>1. Upto(r, n) /\ loc[s].snap = OfShard(chain, n)
      BY <1>3, <1>4, <1>5, <2>1, <2>2 DEF Relies
    <3>2. Staged(r)' = Staged(r) \ ShardRows(r, n)
      BY <2>1 DEF Staged
    <3>3. \A w \in Wallets : ShardOf[w] # n => StageAmount(r)'[w] = StageAmount(r)[w]
      BY <3>2, StageStays DEF ShardRows
    <3>4. \A w \in Wallets : ShardOf[w] = n => StageAmount(r)'[w] = 0
      BY <3>2, StageSaysNext DEF ShardRows
    <3>5. Upto(r, n)'
      BY <1>1, <1>2, <3>1, <3>3 DEF Upto
    <3>6. ASSUME loc[s].snap = Nothing, NEW w \in Wallets, ShardOf[w] = n PROVE chain[w] = 0
      <4>1. OfShard(chain, n)[w] = 0
        BY <3>1, <3>6 DEF Nothing
      <4> QED
        BY <3>6, <4>1 DEF OfShard
    <3>7. loc[s].snap = Nothing => Upto(r, n + 1)'
      BY <1>1, <1>2, <3>4, <3>5, <3>6 DEF Upto
    <3>8. ShardRows(r, n)' = {}
      BY <3>2 DEF ShardRows
    <3> QED
      BY <3>1, <3>5, <3>7, <3>8
  <2>3. r \notin moved => Relies(s)'
    BY <1>2, <1>4, <1>5, <2>1, <2>2 DEF Relies
  <2>4. r \notin moved => Upto(row.run, row.next)'
    BY <1>1, <1>2, <1>3, <1>4, <1>5, <2>2 DEF Upto
  <2> QED
    BY <1>2, <1>3, <1>4, <2>1, <2>3, <2>4 DEF CleanKept
<1>7. CASE InsertShard(s)
  <2> DEFINE new == {w \in Wallets : loc[s].snap[w] > 0}
             added == {[run |-> r, wallet |-> w, amount |-> loc[s].snap[w]] : w \in new}
  <2>1. pc[s] = "insert" /\ loc' = loc
    BY <1>7 DEF InsertShard
  <2>2. CASE \E x \in Staged(r) : x.wallet \in new
    <3>1. pc'[s] = "broken" /\ stage' = stage
      BY <1>1, <1>4, <1>7, <2>2 DEF InsertShard, Goes
    <3>2. \A q, k : Upto(q, k)' <=> Upto(q, k)
      BY <1>2, <3>1, UptoStays
    <3>3. r \notin moved => Upto(r, n)
      BY <1>3, <1>4, <1>5, <2>1 DEF Relies
    <3>4. r \notin moved => Relies(s)'
      BY <1>2, <1>4, <1>5, <2>1, <3>1, <3>2, <3>3 DEF Relies
    <3>5. r \notin moved => Upto(row.run, row.next)'
      BY <1>1, <1>2, <1>3, <1>4, <1>5, <3>2, <3>3 DEF Upto
    <3> QED
      BY <1>2, <1>3, <1>4, <2>1, <3>1, <3>4, <3>5 DEF CleanKept
  <2>3. CASE ~ \E x \in Staged(r) : x.wallet \in new
    <3>1. pc'[s] = "apply" /\ stage' = stage \cup added
      BY <1>1, <1>4, <1>7, <2>3 DEF InsertShard, Goes
    <3>2. ASSUME r \notin moved PROVE Upto(r, n + 1)'
      <4>1. /\ Upto(r, n) /\ loc[s].snap = OfShard(chain, n) /\ ShardRows(r, n) = {}
        BY <1>3, <1>4, <1>5, <2>1, <3>2 DEF Relies
      <4>2. Staged(r)' = Staged(r) \cup added
        BY <3>1 DEF Staged
      <4>3. \A w \in new : ShardOf[w] = n
        BY <4>1 DEF OfShard
      <4>4. ASSUME NEW w \in Wallets, ShardOf[w] < n PROVE StageAmount(r)'[w] = chain'[w]
        <5>1. StageAmount(r)'[w] = StageAmount(r)[w]
          BY <1>1, <4>2, <4>3, <4>4, StageStays
        <5> QED
          BY <1>2, <4>1, <4>4, <5>1 DEF Upto
      <4>5. ASSUME NEW w \in Wallets, ShardOf[w] = n PROVE StageAmount(r)'[w] = chain'[w]
        <5>1. loc[s].snap[w] = chain[w] /\ chain[w] \in Nat
          BY <1>1, <4>1, <4>5 DEF OfShard, Amounts
        <5>2. CASE w \in new
          <6> DEFINE x == [run |-> r, wallet |-> w, amount |-> loc[s].snap[w]]
          <6>1. x \in Staged(r)'
            BY <4>2, <5>2
          <6>2. StageAmount(r)'[w] = x.amount
            BY <6>1, StageSaysNext
          <6> QED
            BY <1>2, <5>1, <6>2
        <5>3. CASE w \notin new
          <6>1. \A x \in Staged(r)' : x.wallet # w
            BY <4>1, <4>2, <4>5, <5>3 DEF ShardRows
          <6>2. StageAmount(r)'[w] = 0
            BY <6>1, StageSaysNext
          <6>3. chain[w] = 0
            BY <5>1, <5>3
          <6> QED
            BY <1>2, <6>2, <6>3
        <5> QED
          BY <5>2, <5>3
      <4> QED
        BY <1>1, <4>4, <4>5 DEF Upto
    <3>3. r \notin moved => Relies(s)'
      <4>1. r \notin moved => Upto(r, n)'
        BY <1>1, <1>5, <3>2 DEF Upto
      <4> QED
        BY <1>2, <1>4, <1>5, <2>1, <3>1, <3>2, <4>1 DEF Relies
    <3>4. r \notin moved => Upto(row.run, row.next)'
      BY <1>1, <1>2, <1>3, <1>4, <1>5, <3>2 DEF Upto
    <3> QED
      BY <1>2, <1>3, <1>4, <2>1, <3>1, <3>3, <3>4 DEF CleanKept
  <2> QED
    BY <2>2, <2>3
<1>8. CASE Wipe(s)
  <2>1. pc[s] = "wipe" /\ pc'[s] = "complete" /\ loc' = loc
    BY <1>1, <1>8 DEF Wipe, Goes
  <2>2. r \notin moved => Relies(s)'
    BY <1>2, <1>3, <1>4, <2>1 DEF Relies
  <2> QED
    BY <1>2, <1>3, <1>4, <2>1, <2>2 DEF CleanKept
<1>9. CASE Drop(s)
  <2>1. pc[s] = "drop" /\ stage' = stage \ Staged(r)
    BY <1>4, <1>9 DEF Drop
  <2>2. r \notin moved => row.status = "completed" /\ (loc[s].empty => chain = Nothing)
    BY <1>3, <1>4, <2>1 DEF Relies
  <2>3. CASE loc[s].empty
    <3>1. pc'[s] = "full" /\ loc' = loc
      BY <1>1, <1>9, <2>3 DEF Drop, Goes
    <3>2. ASSUME r \notin moved PROVE Upto(r, TotalShards)'
      <4>1. Staged(r)' = {}
        BY <2>1 DEF Staged
      <4>2. \A w \in Wallets : StageAmount(r)'[w] = 0
        BY <4>1, StageSaysNext
      <4> QED
        BY <1>2, <2>2, <2>3, <3>2, <4>2 DEF Upto, Nothing
    <3>3. r \notin moved => Relies(s)'
      BY <1>2, <1>4, <2>2, <2>3, <3>1, <3>2 DEF Relies
    <3> QED
      BY <1>2, <1>3, <1>4, <2>2, <3>1, <3>3 DEF CleanKept
  <2>4. CASE ~loc[s].empty
    <3>1. s \notin InFlight'
      BY <1>1, <1>9, <2>4 DEF Drop, Ends, Goes, InFlight
    <3> QED
      BY <1>2, <1>3, <1>4, <2>2, <3>1 DEF CleanKept
  <2> QED
    BY <2>3, <2>4
<1> QED
  BY <1>6, <1>7, <1>8, <1>9
-----------------------------------------------------------------------------
(* The invariant.                                                            *)

\* What a step leaves that moves nothing a sync relies on.
LEMMA StillStep ==
  ASSUME HolderInv, UNCHANGED <<chain, final, stage, row, loc, overlapped, moved>>,
         \A s \in Syncs : pc'[s] = pc[s]
  PROVE  RowSound' /\ \A s \in InFlight' : SyncSound(s)'
<1>1. InFlight' = InFlight
  BY DEF InFlight
<1>2. \A r, n : Upto(r, n)' <=> Upto(r, n)
  BY UptoStays
<1>3. RowSound'
  BY <1>1, <1>2 DEF HolderInv, RowSound, Alone, InFlight
<1>4. ASSUME NEW s \in InFlight PROVE SyncSound(s)'
  <2>1. pc'[s] = pc[s] /\ SyncSound(s)
    BY DEF HolderInv, InFlight
  <2>2. \A r, n : ShardRows(r, n)' = ShardRows(r, n)
    BY DEF ShardRows, Staged
  <2>3. Relies(s) => Relies(s)'
    BY <1>2, <2>1, <2>2 DEF Relies
  <2>4. (Alone(s) /\ Ahead(s))' <=> (Alone(s) /\ Ahead(s))
    BY <1>1, <2>1 DEF Alone, Ahead
  <2> QED
    BY <2>1, <2>3, <2>4 DEF SyncSound
<1> QED
  BY <1>1, <1>3, <1>4

\* A transfer or a delta spoils the runs that are under way.
LEMMA MovedStep ==
  ASSUME HolderInv, UNCHANGED <<row, loc, overlapped>>, \A s \in Syncs : pc'[s] = pc[s],
         moved' = moved \cup (RunsNow \ {NoRun})
  PROVE  RowSound' /\ \A s \in InFlight' : SyncSound(s)'
<1>1. InFlight' = InFlight
  BY DEF InFlight
<1>2. \A s \in InFlight : loc[s].run \in moved'
  BY DEF RunsNow, HolderInv, Named
<1>3. row.run = NoRun => row.status = "none"
  BY DEF HolderInv, Named, HolderTypes
<1>4. row.run = NoRun \/ row.run \in moved'
  BY DEF RunsNow
<1>5. RowSound'
  BY <1>1, <1>3, <1>4 DEF HolderInv, RowSound, Alone, InFlight
<1>6. ASSUME NEW s \in InFlight PROVE SyncSound(s)'
  <2>1. pc'[s] = pc[s] /\ SyncSound(s)
    BY DEF HolderInv, InFlight
  <2>2. (Alone(s) /\ Ahead(s))' <=> (Alone(s) /\ Ahead(s))
    BY <1>1, <2>1 DEF Alone, Ahead
  <2> QED
    BY <1>2, <2>1, <2>2 DEF SyncSound
<1> QED
  BY <1>1, <1>5, <1>6

\* A sync begins: alone on the row's run, alone on a run of its own, or beside
\* others, which spoils them all.
LEMMA BeginStep ==
  ASSUME HolderInv, NEW s \in Syncs, Begin(s), Others(s)
  PROVE  RowSound' /\ \A t \in InFlight' : SyncSound(t)'
<1>1. /\ loc[s] \in Locals /\ pc[s] = "idle" /\ row \in [status : {"none", "running", "failed",
         "completed"}, run : Runs, next : 0 .. TotalShards] /\ s \notin InFlight
      /\ UNCHANGED <<chain, stage, row, moved>> /\ NoRun \notin Syncs
      /\ loc \in [Syncs -> Locals] /\ pc \in [Syncs \cup Deliveries -> Places]
  BY HolderAssumption DEF HolderInv, HolderTypes, Begin, InFlight
<1>2. \/ /\ row.run # NoRun /\ row.status \in {"running", "failed"} /\ pc'[s] = "resume"
         /\ loc'[s].run = row.run /\ loc'[s].next = row.next
      \/ /\ ~(row.run # NoRun /\ row.status \in {"running", "failed"}) /\ pc'[s] = "clear"
         /\ loc'[s].run = s
  BY <1>1 DEF Begin, Goes, Sets, Locals
<1>3. InFlight' = InFlight \cup {s}
  BY <1>1, <1>2 DEF InFlight, Others
<1>4. row.run = NoRun => row.status = "none"
  BY <1>1 DEF HolderInv, Named
<1>5. CASE InFlight = {}
  <2>1. overlapped' = overlapped
    BY <1>5 DEF Begin
  <2>2. \A r, n : Upto(r, n)' <=> Upto(r, n)
    BY <1>1, UptoStays
  <2>3. row.run \notin overlapped \cup moved /\ row.status \in {"running", "failed"}
          => Upto(row.run, row.next)
    BY <1>5 DEF HolderInv, RowSound
  <2>4. Alone(s)'
    BY <1>3, <1>5 DEF Alone
  <2>5. RowSound'
    BY <1>1, <1>2, <1>3, <1>4, <1>5, <2>1, <2>2, <2>3, <2>4 DEF RowSound
  <2>6. SyncSound(s)'
    <3>1. CASE pc'[s] = "clear"
      BY <2>4, <3>1 DEF SyncSound, Ahead, Relies
    <3>2. CASE pc'[s] = "resume"
      <4>1. loc'[s].run = row.run /\ loc'[s].next = row.next /\ row.status \in {"running", "failed"}
        BY <1>2, <3>2
      <4>2. loc'[s].run \notin overlapped' \cup moved' => Relies(s)'
        BY <1>1, <2>1, <2>2, <2>3, <3>2, <4>1 DEF Relies
      <4>3. row'.next <= loc'[s].next
        BY <1>1, <4>1
      <4> QED
        BY <1>1, <2>4, <3>2, <4>1, <4>2, <4>3 DEF SyncSound, Ahead
    <3> QED
      BY <1>2, <3>1, <3>2
  <2> QED
    BY <1>3, <1>5, <2>5, <2>6
<1>6. CASE InFlight # {}
  <2>1. overlapped' = overlapped \cup InFlight \cup {s} \cup (RunsNow \ {NoRun})
    BY <1>6 DEF Begin
  <2>2. row.run = NoRun \/ row.run \in overlapped'
    BY <2>1 DEF RunsNow
  <2>3. ASSUME NEW t \in InFlight' PROVE loc'[t].run \in overlapped'
    <3>1. CASE t = s
      BY <1>2, <2>1, <2>2, <3>1
    <3>2. CASE t # s
      <4>1. t \in InFlight /\ loc'[t] = loc[t]
        BY <1>3, <3>2 DEF Others, InFlight
      <4> QED
        BY <2>1, <4>1 DEF RunsNow, HolderInv, Named
    <3> QED
      BY <3>1, <3>2
  <2>4. RowSound'
    <3>1. CASE row.run \in overlapped'
      BY <1>1, <3>1 DEF RowSound
    <3>2. CASE row.run = NoRun
      <4>1. \A t \in InFlight' : pc'[t] \in {"clear", "fresh"}
        BY <1>2, <1>3, <3>2 DEF HolderInv, Named, Others, InFlight
      <4> QED
        BY <1>1, <1>4, <3>2, <4>1 DEF RowSound
    <3> QED
      BY <2>2, <3>1, <3>2
  <2> QED
    BY <2>3, <2>4 DEF SyncSound
<1> QED
  BY <1>5, <1>6

\* A new run empties the stage, then writes its row.
LEMMA NewRunStep ==
  ASSUME HolderInv, HolderTypes', Named', NEW s \in Syncs, ClearStage(s) \/ FreshRun(s), Others(s),
         UNCHANGED <<overlapped, moved, chain>>
  PROVE  RowSound' /\ \A t \in InFlight' : SyncSound(t)'
<1>1. /\ loc' = loc /\ s \in InFlight /\ loc[s].next = 0 /\ loc[s].run # NoRun
      /\ pc \in [Syncs \cup Deliveries -> Places]
      /\ ShardOf \in [Wallets -> 0 .. (TotalShards - 1)] /\ TotalShards \in Nat \ {0}
  BY HolderAssumption DEF HolderInv, HolderTypes, Named, InFlight, ClearStage, FreshRun
<1>2. InFlight' = InFlight
  BY <1>1 DEF Others, InFlight, ClearStage, FreshRun, Goes
<1>3. loc[s].run \notin overlapped => Alone(s)
  BY <1>1 DEF HolderInv, SyncSound
<1>4. ASSUME NEW t \in InFlight, t # s PROVE loc[t].run \in overlapped
  BY <1>1, <1>4 DEF HolderInv, SyncSound, Alone
<1>5. CASE ClearStage(s)
  <2>1. pc[s] = "clear" /\ pc'[s] = "fresh" /\ row' = row
    BY <1>1, <1>5 DEF ClearStage, Goes
  <2>2. row.run \notin overlapped => row.status \notin {"running", "failed"}
    BY <1>1, <2>1 DEF HolderInv, RowSound
  <2>3. RowSound'
    BY <1>1, <1>2, <2>1, <2>2 DEF HolderInv, RowSound, Alone, Others, InFlight
  <2>4. SyncSound(s)'
    BY <1>1, <1>2, <1>3, <2>1 DEF SyncSound, Alone, Ahead, Relies
  <2> QED
    BY <1>1, <1>2, <1>4, <2>3, <2>4 DEF SyncSound
<1>6. CASE FreshRun(s)
  <2>1. /\ pc'[s] = "decimals" /\ row'.run = loc[s].run /\ row'.next = 0
    BY <1>1, <1>6 DEF FreshRun, Goes, Put
  <2>2. Upto(row.run, row.next)' /\ Upto(loc[s].run, loc[s].next)'
    BY <1>1, <2>1 DEF Upto
  <2>3. RowSound'
    BY <1>1, <1>2, <1>3, <2>1, <2>2 DEF RowSound, Alone
  <2>4. SyncSound(s)'
    <3>1. Relies(s)'
      BY <1>1, <2>1, <2>2 DEF Relies
    <3> QED
      BY <1>1, <1>2, <1>3, <2>1, <3>1 DEF SyncSound, Alone, Ahead
  <2> QED
    BY <1>1, <1>2, <1>4, <2>3, <2>4 DEF SyncSound
<1> QED
  BY <1>5, <1>6

\* A worker dies.  One that had emptied the stage, and had still to complete
\* the row, leaves a run whose stage is lost.
LEMMA DiesStep ==
  ASSUME HolderInv, NEW p \in Syncs, Dies(p)
  PROVE  RowSound' /\ \A t \in InFlight' : SyncSound(t)'
<1>1. /\ loc \in [Syncs -> Locals] /\ pc \in [Syncs \cup Deliveries -> Places]
      /\ UNCHANGED <<chain, final, stage, row, moved>> /\ overlapped \subseteq overlapped'
      /\ p \in InFlight /\ Others(p)
  BY DEF HolderInv, HolderTypes, Dies, Goes, Others, InFlight
<1>2. InFlight' = InFlight \ {p}
  BY <1>1 DEF InFlight, Others, Dies, Goes
<1>3. ASSUME NEW t \in InFlight' PROVE loc'[t].run \in overlapped'
  BY <1>1, <1>2 DEF HolderInv, SyncSound, Alone, Others, InFlight
<1>4. RowSound'
  <2> SUFFICES ASSUME row.run \notin overlapped'
               PROVE  RowSound'
    BY <1>1 DEF RowSound
  <2>1. \A r, n : Upto(r, n)' <=> Upto(r, n)
    BY <1>1, UptoStays
  <2>2. pc[p] # "complete"
    BY <1>1 DEF HolderInv, RowSound, Dies
  <2>3. \A t \in InFlight' : Alone(t) => Alone(t)'
    BY <1>2 DEF Alone
  <2> QED
    BY <1>1, <1>2, <2>1, <2>2, <2>3 DEF HolderInv, RowSound, Others, InFlight
<1> QED
  BY <1>3, <1>4 DEF SyncSound
\* A sync goes on with its run, or takes the row's.
LEMMA OwnRun ==
  ASSUME HolderTypes, NEW s \in Syncs, s \in InFlight',
         \/ ResumeRun(s) \/ Undecided(s) \/ FetchAll(s) \/ FetchShard(s) \/ ApplyShard(s)
         \/ Advance(s) \/ Broken(s) \/ Settle(s) \/ Upsert(s) \/ Zero(s) \/ Write(s)
         \/ Complete(s) \/ Finish(s) \/ FullSync(s) \/ ListAccounts(s) \/ ReadAccounts(s)
         \/ FullFails(s)
         \/ DeleteShard(s) \/ InsertShard(s) \/ Wipe(s) \/ Drop(s)
  PROVE  loc'[s].run \in {row.run, loc[s].run}
<1>1. /\ loc[s] \in Locals /\ loc \in [Syncs -> Locals] /\ pc \in [Syncs \cup Deliveries -> Places]
  BY DEF HolderTypes
<1>2. CASE loc' = loc
  BY <1>2
<1>3. CASE Ends(s)
  BY <1>1, <1>3 DEF Ends, Goes, InFlight
<1>4. CASE FetchAll(s) \/ FetchShard(s) \/ Upsert(s) \/ ListAccounts(s) \/ ReadAccounts(s)
  BY <1>1, <1>4 DEF FetchAll, FetchShard, Upsert, ListAccounts, ReadAccounts, Sets, Locals
<1>5. CASE Advance(s)
  BY <1>1, <1>5 DEF Advance, Locals
<1>6. CASE FullSync(s)
  BY <1>1, <1>6 DEF FullSync, Locals
<1> QED
  BY <1>2, <1>3, <1>4, <1>5, <1>6 DEF ResumeRun, Undecided, FetchAll, FetchShard, ApplyShard,
     Advance, Broken, Settle, Upsert, Zero, Write, Complete, Finish, FullSync, ListAccounts,
     ReadAccounts, FullFails, DeleteShard, InsertShard, Wipe, Drop

\* Every step keeps the invariant.
LEMMA InvStep ==
  ASSUME HolderInv, Next
  PROVE  HolderInv'
<1>1. HolderTypes' /\ Named'
  BY TypesStep, NamedStep DEF HolderInv
<1>2. /\ loc \in [Syncs -> Locals] /\ pc \in [Syncs \cup Deliveries -> Places]
      /\ Syncs \cap Deliveries = {}
  BY HolderAssumption DEF HolderInv, HolderTypes
<1>3. ASSUME NEW s \in Syncs, Sync(s)
      PROVE  RowSound' /\ \A t \in InFlight' : SyncSound(t)'
  <2>1. /\ Others(s) /\ chain' = chain /\ (pc[s] # "idle" => s \in InFlight)
        /\ pc[s] # "idle" => UNCHANGED <<overlapped, moved>>
    BY <1>3, OwnStep DEF HolderInv
  <2>2. CASE Begin(s)
    BY <2>1, <2>2, BeginStep
  <2>3. CASE ClearStage(s) \/ FreshRun(s)
    <3>1. pc[s] # "idle"
      BY <2>3 DEF ClearStage, FreshRun
    <3> QED
      BY <1>1, <2>1, <2>3, <3>1, NewRunStep
  <2>4. CASE ~(Begin(s) \/ ClearStage(s) \/ FreshRun(s))
    <3>1. \/ ResumeRun(s) \/ Undecided(s) \/ FetchAll(s) \/ FetchShard(s) \/ ApplyShard(s)
          \/ Advance(s) \/ Broken(s) \/ Settle(s) \/ Upsert(s) \/ Zero(s) \/ Write(s)
          \/ Complete(s) \/ Finish(s) \/ FullSync(s) \/ ListAccounts(s) \/ ReadAccounts(s)
          \/ FullFails(s)
          \/ DeleteShard(s) \/ InsertShard(s) \/ Wipe(s) \/ Drop(s)
      BY <1>3, <2>4 DEF Sync
    <3>2. pc[s] \notin {"idle", "clear", "fresh"}
      BY <3>1 DEF ResumeRun, Undecided, FetchAll, FetchShard, ApplyShard, Advance, Broken, Settle,
         Upsert, Zero, Write, Complete, Finish, FullSync, ListAccounts, ReadAccounts, FullFails,
         DeleteShard, InsertShard, Wipe, Drop
    <3>3. CASE loc[s].run \notin overlapped
      <4>1. CleanKept(s)
        BY <1>1, <2>1, <3>1, <3>2, <3>3, RowSteps, StageSteps
      <4> QED
        BY <2>1, <3>2, <3>3, <4>1, CleanStep DEF CleanKept
    <3>4. CASE loc[s].run \in overlapped
      <4>1. row'.run \in {row.run, loc[s].run}
        BY <3>1 DEF ResumeRun, Undecided, FetchAll, FetchShard, ApplyShard, Advance, Broken,
           Settle, Upsert, Zero, Write, Complete, Finish, FullSync, ListAccounts, ReadAccounts,
           FullFails, DeleteShard, InsertShard, Wipe, Drop, Put
      <4>2. s \in InFlight' => loc'[s].run \in {row.run, loc[s].run}
        BY <1>2, <3>1, OwnRun DEF HolderInv
      <4> QED
        BY <2>1, <3>2, <3>4, <4>1, <4>2, SpoiltStep
    <3> QED
      BY <3>3, <3>4
  <2> QED
    BY <2>2, <2>3, <2>4
<1>4. CASE Transfer
  <2>1. RowSound' /\ \A t \in InFlight' : SyncSound(t)'
    BY <1>4, MovedStep DEF Transfer
  <2> QED
    BY <1>1, <2>1 DEF HolderInv
<1>5. ASSUME NEW d \in Deliveries, Delta(d) \/ Batch(d)
      PROVE  RowSound' /\ \A t \in InFlight' : SyncSound(t)'
  <2>1. \A s \in Syncs : pc'[s] = pc[s]
    BY <1>2, <1>5 DEF Delta, Batch, Goes
  <2>2. \/ UNCHANGED <<chain, final, stage, row, loc, overlapped, moved>>
        \/ UNCHANGED <<row, loc, overlapped>> /\ moved' = moved \cup (RunsNow \ {NoRun})
    BY <1>5 DEF Delta, Batch
  <2> QED
    BY <2>1, <2>2, StillStep, MovedStep
<1>6. ASSUME NEW p \in Syncs \cup Deliveries, Dies(p)
      PROVE  RowSound' /\ \A t \in InFlight' : SyncSound(t)'
  <2>1. CASE p \in Syncs
    BY <1>6, <2>1, DiesStep
  <2>2. CASE p \notin Syncs
    BY <1>2, <1>6, <2>2, StillStep DEF Dies, Goes
  <2> QED
    BY <2>1, <2>2
<1> QED
  BY <1>1, <1>3, <1>4, <1>5, <1>6 DEF Next, HolderInv
\* A step that changes nothing keeps it too.
LEMMA InvStutters ==
  ASSUME HolderInv, UNCHANGED vars
  PROVE  HolderInv'
<1>1. RowSound' /\ \A s \in InFlight' : SyncSound(s)'
  BY StillStep DEF vars
<1>2. HolderTypes' /\ Named'
  BY DEF vars, HolderInv, HolderTypes, OneRow, Named, InFlight
<1> QED
  BY <1>1, <1>2 DEF HolderInv

\* In every state a run that no other sync has worked in belongs to one sync
\* at most, which is not behind the row; and while nothing was transferred the
\* stage holds of it what the chain holds, up to the shard it has reached.
THEOREM Invariant == Spec => []HolderInv
<1>1. Init => HolderInv
  <2> SUFFICES ASSUME Init PROVE HolderInv
    OBVIOUS
  <2>1. InFlight = {}
    BY DEF Init, InFlight
  <2>2. Named
    BY <2>1 DEF Init, Named
  <2>3. RowSound
    BY <2>1 DEF Init, RowSound
  <2> QED
    BY <2>1, <2>2, <2>3, InitTypes DEF HolderInv
<1>2. HolderInv /\ [Next]_vars => HolderInv'
  BY InvStep, InvStutters
<1> QED
  BY <1>1, <1>2, PTL DEF Spec

\* However often a transfer is delivered, and whichever deliveries race, the
\* table moves its amount once: with the row that says so
\* (dbApplyTokenHolderTransactionDelta and its batch).
THEOREM TransferMovesOnce == Spec => []DeltaMovesOnce
<1>1. Init => DeltaMovesOnce
  BY DEF Init, DeltaMovesOnce
<1>2. HolderInv /\ DeltaMovesOnce /\ [Next]_vars => DeltaMovesOnce'
  <2> SUFFICES ASSUME HolderInv, DeltaMovesOnce, [Next]_vars,
                      \A s \in Syncs : pc'[s] = "idle"
               PROVE  final' \in (IF applied' THEN {Transferred(t) : t \in Tables} ELSE Tables)
    BY DEF DeltaMovesOnce
  <2>1. /\ pc \in [Syncs \cup Deliveries -> Places] /\ Syncs \cap Deliveries = {}
    BY HolderAssumption DEF HolderInv, HolderTypes
  <2>2. CASE UNCHANGED vars
    BY <2>2 DEF vars, DeltaMovesOnce
  <2>3. ASSUME NEW s \in Syncs, Sync(s) PROVE FALSE
    BY <2>3, OwnStep DEF HolderInv
  <2>4. CASE Transfer
    BY <2>4 DEF Transfer, DeltaMovesOnce
  <2>5. ASSUME NEW d \in Deliveries, Delta(d) \/ Batch(d)
        PROVE  final' \in (IF applied' THEN {Transferred(t) : t \in Tables} ELSE Tables)
    <3>1. \A s \in Syncs : pc[s] = "idle"
      BY <2>1, <2>5 DEF Delta, Batch, Goes
    <3>2. final \in (IF applied THEN {Transferred(t) : t \in Tables} ELSE Tables)
      BY <3>1 DEF DeltaMovesOnce
    <3>3. CASE final' = final /\ applied' = applied
      BY <3>2, <3>3
    <3>4. CASE ~applied /\ final' = Transferred(final) /\ applied'
      BY <3>2, <3>4
    <3> QED
      BY <2>5, <3>3, <3>4 DEF Delta, Batch
  <2>6. ASSUME NEW p \in Syncs \cup Deliveries, Dies(p)
        PROVE  final' \in (IF applied' THEN {Transferred(t) : t \in Tables} ELSE Tables)
    <3>1. p \notin Syncs
      BY <2>1, <2>6 DEF Dies, Goes
    <3>2. \A s \in Syncs : pc[s] = "idle"
      BY <2>1, <2>6, <3>1 DEF Dies, Goes
    <3> QED
      BY <2>6, <3>2 DEF Dies, DeltaMovesOnce
  <2> QED
    BY <2>2, <2>3, <2>4, <2>5, <2>6 DEF Next
<1> QED
  BY <1>1, <1>2, Invariant, PTL DEF Spec

\* A refresh goes on where the run's last one stopped, whether that one ended,
\* failed or died: no shard of a run that one sync at a time works in is lost
\* (dbStartOrResumeTokenHolderSync and the rows the loop puts).
THEOREM ProgressIsKept == Spec => ProgressKept
<1>1. ASSUME HolderInv, Next, row'.run = row.run, row.status \in {"running", "failed"},
             row.run \notin overlapped
      PROVE  row'.next >= row.next
  <2>1. row.next \in 0 .. TotalShards /\ TotalShards \in Nat \ {0}
    BY <1>1, HolderAssumption DEF HolderInv, HolderTypes
  <2>2. CASE row' = row
    BY <2>1, <2>2
  <2>3. ASSUME NEW s \in Syncs, Sync(s), row' # row
        PROVE  row'.next >= row.next
    <3>1. pc[s] # "idle" /\ s \in InFlight
      <4>1. pc[s] # "idle"
        BY <2>3 DEF Sync, Begin, ResumeRun, ClearStage, FreshRun, Undecided, FetchAll,
         FetchShard, DeleteShard, InsertShard, ApplyShard, Advance, Broken, Settle, Upsert, Zero,
         Write, Wipe, Complete, Finish, Drop, FullSync, ListAccounts, ReadAccounts, FullFails
      <4> QED
        BY <1>1, <2>3, <4>1, OwnStep DEF HolderInv
    <3>2. loc[s].next \in 0 .. TotalShards
      BY <1>1, <3>1 DEF HolderInv, HolderTypes, Locals, InFlight
    <3>3. pc[s] \notin {"clear", "fresh"}
      BY <1>1, <3>1 DEF HolderInv, RowSound
    <3>4. row.next <= loc[s].next
      BY <1>1, <3>1, <3>3, CleanRun DEF HolderInv, RowSound
    <3>5. row'.next \in {loc[s].next, loc[s].next + 1, TotalShards}
      BY <2>3, <3>3 DEF Sync, Begin, ResumeRun, ClearStage, FreshRun, Undecided, FetchAll,
         FetchShard, DeleteShard, InsertShard, ApplyShard, Advance, Broken, Settle, Upsert, Zero,
         Write, Wipe, Complete, Finish, Drop, FullSync, ListAccounts, ReadAccounts, FullFails, Put
    <3> QED
      BY <2>1, <3>2, <3>4, <3>5
  <2> QED
    BY <1>1, <2>2, <2>3 DEF Next, Transfer, Delta, Batch, Dies
<1>2. HolderInv /\ [Next]_vars =>
        [row'.run = row.run /\ row.status \in {"running", "failed"} /\ row.run \notin overlapped
           => row'.next >= row.next]_vars
  BY <1>1
<1> QED
  BY <1>2, Invariant, PTL DEF Spec, ProgressKept

\* A run that completes leaves in the table what the chain holds, provided that
\* no other sync worked in it and that nothing was transferred meanwhile: over
\* any number of refreshes, failed, rate limited and dead ones among them, and
\* whatever was in the stage and in the table before (dbFinalizePagedTokenHolderSync,
\* completeTokenHolderBalanceSync).
THEOREM CompletedIsChain == Spec => CompletesToChain
<1>1. ASSUME HolderInv, Next, row.status # "completed", row'.status = "completed",
             row'.run \notin overlapped \cup moved
      PROVE  final' = chain'
  <2>1. PICK s \in Syncs : Complete(s) \/ Finish(s)
    <3>1. row' # row
      BY <1>1
    <3>2. PICK s \in Syncs : Sync(s)
      BY <1>1, <3>1 DEF Next, Transfer, Delta, Batch, Dies
    <3>3. Complete(s) \/ Finish(s)
      BY <1>1, <3>1, <3>2 DEF Sync, Begin, ResumeRun, ClearStage, FreshRun, Undecided, FetchAll,
         FetchShard, DeleteShard, InsertShard, ApplyShard, Advance, Broken, Settle, Upsert, Zero,
         Write, Wipe, Drop, FullSync, ListAccounts, ReadAccounts, FullFails, Put
    <3> QED
      BY <3>3
  <2>2. /\ pc[s] \in {"complete", "finish"} /\ row'.run = loc[s].run /\ s \in InFlight
        /\ final' = final /\ chain' = chain
    BY <2>1 DEF Complete, Finish, Put, InFlight
  <2>3. Relies(s)
    BY <1>1, <2>2, CleanRun
  <2> QED
    BY <1>1, <2>2, <2>3 DEF Relies
<1>2. HolderInv /\ [Next]_vars =>
        [row.status # "completed" /\ row'.status = "completed"
           /\ row'.run \notin overlapped \cup moved => final' = chain']_vars
  BY <1>1
<1> QED
  BY <1>2, Invariant, PTL DEF Spec, CompletesToChain
=============================================================================
