------------------------------ MODULE OrderPlan ------------------------------
(***************************************************************************)
(* How a strategy's volume becomes an ordered list of trades, each of one  *)
(* account (planner.ts, plannerMath.ts), and the check the deploy route    *)
(* repeats on the list the user reviewed (validateReviewedPlan).           *)
(*                                                                         *)
(* The planner is one synchronous function.  It is cut into steps where it *)
(* draws random numbers: the orders it tries, the amounts it gives to each *)
(* account and the sequence it puts the orders in are choices here.        *)
(*                                                                         *)
(* Volumes are whole units, far larger than the epsilon of 1e-6.  The       *)
(* planner rounds what an account has to six decimals, possibly up, and    *)
(* tolerates the epsilon; the deploy route compares the balances as they   *)
(* are.  So the planner's figures are exact here, and the route may find a *)
(* figure short by less than any unit.  Requests and order sizes are even  *)
(* where the code halves them.                                             *)
(***************************************************************************)
EXTENDS Integers, Sequences, FiniteSets, SequencesExt, FiniteSetsExt

CONSTANTS
    Accounts,       \* managed accounts compatible with the pair
    MinOrder,       \* parameters.minOrderUsd
    MaxOrder,       \* parameters.maxOrderUsd
    MaxCount,       \* parameters.maxTransactions
    Requests,       \* what may be asked for: objective, volumes, count, reserve
    Balances,       \* what an account may hold: quote, base (in USD), and which
                    \* of the two is a little less than the planner's figure
    NoOrders        \* allocateAccountOrders returned null

ASSUME SizeAssumption ==
    /\ MinOrder \in Nat \ {0}
    /\ MaxOrder \in Nat /\ MaxOrder >= MinOrder
    /\ MaxCount \in Nat \ {0}

ASSUME AccountAssumption ==
    /\ IsFiniteSet(Accounts)
    /\ Balances \subseteq [quote : Nat, base : Nat, short : SUBSET {"quote", "base"}]
    /\ \A b \in Balances : \A s \in b.short : b[s] > 0

\* Where volumes are halved they are even.
ASSUME RequestAssumption ==
    \A r \in Requests :
        /\ r.objective \in {"accumulation", "shakeout", "distribution"}
        /\ r.count \in Nat \ {0} /\ r.gross \in Nat \ {0} /\ r.net \in Nat
        /\ r.leastSell \in Nat /\ r.leastSell >= MinOrder
        /\ r.reserve \in Nat
        /\ (r.gross - r.net) % 2 = 0
        /\ r.objective = "distribution" =>
               MinOrder % 2 = 0 /\ MaxOrder % 2 = 0 /\ r.net % 2 = 0

VARIABLES
    request,        \* what is planned
    account,        \* what each account holds: the figures of the planner
    step,           \* where the planner is
    specs,          \* volume and count of each side: StrategyPlannerTaskSpec
    tries,          \* pairs of a sell and a buy count not yet tried
    sells, buys,    \* orders not yet in the plan, by account
    slices,         \* slices of a one-sided plan not yet allocated
    plan,           \* the tasks in the order of their times
    unallocated     \* volume no account could take

vars == <<request, account, step, specs, tries, sells, buys, slices, plan,
          unallocated>>

-----------------------------------------------------------------------------
(* Totals and counts *)

AtLeast(x, y) == IF x > y THEN x ELSE y
AtMost(x, y) == IF x < y THEN x ELSE y
CeilDiv(x, y) == (x + y - 1) \div y
Round(x, y) == (2 * x + y) \div (2 * y)

\* Sum of f over S.
Total(f, S) == SumFunctionOnSet(f, S)
SeqSum(s) == SumFunction(s)

\* The orders that can make up a volume.
CountBounds(v) ==
    IF v = 0 THEN [least |-> 0, most |-> 0]
    ELSE [least |-> AtLeast(1, CeilDiv(v, MaxOrder)), most |-> v \div MinOrder]

\* Mutant: the share of buys is not held within the bounds of either side.
TradeCountsUnclamped(count, buy, sell) ==
    LET b == CountBounds(buy)
        s == CountBounds(sell)
        most == AtMost(MaxCount, b.most + s.most)
        total == AtLeast(count, b.least + s.least)
        buys0 == Round(total * buy, buy + sell)
    IN  IF \/ b.least > b.most \/ s.least > s.most
           \/ b.least + s.least > most \/ count > most
        THEN [feasible |-> FALSE]
        ELSE [feasible |-> TRUE, buy |-> buys0, sell |-> total - buys0]

\* calculateFeasibleTradeCounts: how many buys and sells, or none possible.
TradeCounts(count, buy, sell) ==
    LET b == CountBounds(buy)
        s == CountBounds(sell)
        most == AtMost(MaxCount, b.most + s.most)
        total == AtLeast(count, b.least + s.least)
        buys0 == AtMost(AtMost(b.most, total - s.least),
                        AtLeast(AtLeast(b.least, total - s.most),
                                Round(total * buy, buy + sell)))
    IN  IF \/ b.least > b.most \/ s.least > s.most
           \/ b.least + s.least > most \/ count > most
        THEN [feasible |-> FALSE]
        ELSE [feasible |-> TRUE, buy |-> buys0, sell |-> total - buys0]

\* Buying more than is sold: the gross volume grows until a sell fits in.
SelfCyclingTotals(gross, net, leastSell) ==
    LET sell == AtLeast(leastSell,
                        (AtLeast(gross, net + 2 * leastSell) - net) \div 2)
    IN  [buy |-> net + sell, sell |-> sell]

\* Selling more than is bought.
DistributionTotals(gross, net) ==
    LET buy == (AtLeast(gross, net) - net) \div 2
    IN  [buy |-> buy,
         sell |-> IF buy > 0 THEN net + buy ELSE AtLeast(gross, net)]

\* The least volume a count of orders can be cut from: the number of buys is
\* tried from none upwards.
DistributionVolume(r) ==
    LET floor == AtLeast(AtLeast(r.gross, r.net), r.count * MinOrder)
        Needed(b) ==
            LET s == r.count - b
            IN  AtLeast(AtLeast(floor,
                    IF b > 0 THEN r.net + 2 * b * MinOrder ELSE 0),
                    IF s > 0 THEN 2 * s * MinOrder - r.net ELSE 0)
        Fits(b) ==
            LET s == r.count - b
                t == DistributionTotals(Needed(b), r.net)
            IN  /\ Needed(b) <= r.net + 2 * b * MaxOrder
                /\ s > 0 => Needed(b) <= 2 * s * MaxOrder - r.net
                /\ TradeCounts(r.count, t.buy, t.sell).feasible
        fitting == {b \in 0..r.count : Fits(b)}
    IN  IF r.gross < r.net \/ fitting = {} THEN floor ELSE Needed(Min(fitting))

\* What to sell and to buy in all.
Totals(r) ==
    IF r.objective = "distribution"
    THEN LET v == DistributionVolume(r)
         IN  DistributionTotals(v, IF r.gross < r.net THEN v ELSE r.net)
    ELSE SelfCyclingTotals(r.gross, r.net,
                           IF r.net >= r.gross THEN 0 ELSE r.leastSell)

\* The counts, those of calculateFeasibleTradeCounts or a guess.
SpecCounts(r, t) ==
    LET c == TradeCounts(r.count, t.buy, t.sell)
        volume == IF r.objective = "distribution" THEN DistributionVolume(r)
                                                  ELSE r.gross
        guess == AtLeast(1, Round(r.count * t.sell, volume))
        sell == IF r.objective = "distribution" THEN guess
                                                ELSE AtMost(r.count - 1, guess)
    IN  IF c.feasible THEN c
        ELSE [sell |-> sell, buy |-> AtLeast(0, r.count - sell)]

\* buildStrategyPlanTaskSpecs: the sell side, then the buy side.
TaskSpecs(r) ==
    LET t == Totals(r)
        c == SpecCounts(r, t)
        sell == <<[side |-> "sell", volume |-> t.sell, count |-> c.sell]>>
        buy == <<[side |-> "buy", volume |-> t.buy, count |-> c.buy]>>
    IN  (IF r.objective = "distribution" \/ (t.sell > 0 /\ c.sell > 0)
         THEN sell ELSE <<>>)
        \o (IF t.buy > 0 /\ c.buy > 0 THEN buy ELSE <<>>)

\* buildAccountAwareSelfCyclingTasks takes a sell and a buy side, nothing else.
TwoSided == Len(specs) = 2

-----------------------------------------------------------------------------
(* The orders of a side, each of one account *)

Volumes == MinOrder..MaxOrder

\* The ways to cut an amount into orders.
Splits(amount) ==
    {s \in BoundedSeq(Volumes, amount \div MinOrder) :
        SeqSum(s) = amount /\ IsSorted(s, <=)}

\* Accounts are taken while their least amounts fit into the target.
Chosen(order, least, target, n) ==
    LET Add(got, a) ==
            IF \/ Cardinality(got.accounts) >= AtMost(n, target \div MinOrder)
               \/ got.least + least[a] > target
            THEN got
            ELSE [accounts |-> got.accounts \cup {a}, least |-> got.least + least[a]]
        chosen[i \in 0..Len(order)] ==
            IF i = 0 THEN [accounts |-> {}, least |-> 0]
            ELSE Add(chosen[i - 1], order[i])
    IN  chosen[Len(order)].accounts

\* Mutant: an account's capacity is not a bound.
AmountsOverCapacity(S, least, cap, target) ==
    {f \in [S -> MinOrder..target] :
        (\A a \in S : f[a] >= least[a]) /\ Total(f, S) = target}

\* What each of the chosen accounts trades.
Amounts(S, least, cap, target) ==
    {f \in [S -> MinOrder..target] :
        /\ \A a \in S : f[a] >= least[a] /\ f[a] <= cap[a]
        /\ Total(f, S) = target}

\* n orders that trade the amounts.
Cuts(f, n) ==
    {g \in [DOMAIN f -> UNION {Splits(f[a]) : a \in DOMAIN f}] :
        /\ \A a \in DOMAIN f : g[a] \in Splits(f[a])
        /\ Total([a \in DOMAIN f |-> Len(g[a])], DOMAIN f) = n}

\* allocateAccountOrders: every result its random numbers can lead to.  Accounts
\* come by priority, then in any order.
AllocateAccountOrders(C, cap, priority, least, target, n) ==
    LET Result(f) == IF Cuts(f, n) = {} THEN {NoOrders} ELSE Cuts(f, n)
        From(S) == IF Total(cap, S) < target THEN {NoOrders}
                   ELSE UNION {Result(f) : f \in Amounts(S, least, cap, target)}
    IN  UNION {From(Chosen(o, least, target, n)) :
                   o \in {p \in SetToSeqs(C) :
                              IsSorted(p, LAMBDA a, b : priority[a] >= priority[b])}}

\* execution.minimumQuoteReserveUsd
Reserve == request.reserve

\* How far an account is below the reserve.
Deficit(a) == AtLeast(0, Reserve - account[a].quote)

\* What an account may spend after it sold for the given amount.
Spendable(a, sold) == AtLeast(0, account[a].quote + sold - Reserve)

Sold(g, a) == IF a \in DOMAIN g THEN SeqSum(g[a]) ELSE 0

\* An account below the reserve comes first and sells at least what it lacks.
SellOrders(n) ==
    LET cap == [a \in Accounts |-> account[a].base]
    IN  AllocateAccountOrders(
            {a \in Accounts : cap[a] >= MinOrder}, cap,
            [a \in Accounts |-> Deficit(a)],
            [a \in Accounts |-> AtMost(cap[a], AtLeast(MinOrder, Deficit(a)))],
            specs[1].volume, n)

\* Mutant: every account may spend what all of them sell.
BuyOrdersPooled(g, n) ==
    LET cap == [a \in Accounts |->
                    Spendable(a, Total([b \in Accounts |-> Sold(g, b)], Accounts))]
    IN  AllocateAccountOrders({a \in Accounts : cap[a] >= MinOrder}, cap,
                              [a \in Accounts |-> 0],
                              [a \in Accounts |-> MinOrder],
                              specs[2].volume, n)

\* Buys may spend what the account's own sells bring in.  A shakeout prefers the
\* accounts that can buy before any sell, when these suffice.
BuyOrders(g, n) ==
    LET cap == [a \in Accounts |-> Spendable(a, Sold(g, a))]
        funded == {a \in Accounts : Spendable(a, 0) >= MinOrder}
        spendable == Total([a \in funded |-> Spendable(a, 0)], funded)
        C == IF request.objective = "shakeout" /\ spendable >= specs[2].volume
             THEN funded ELSE {a \in Accounts : cap[a] >= MinOrder}
    IN  AllocateAccountOrders(C, cap, [a \in Accounts |-> 0],
                              [a \in Accounts |-> MinOrder],
                              specs[2].volume, n)

\* The counts tried, by the bounds of both loops.
Candidates(sp) ==
    {p \in (0..MaxCount) \X (0..MaxCount) :
        /\ p[1] + p[2] \in request.count..MaxCount
        /\ \A i \in 1..2 :
               /\ p[i] >= AtLeast(sp[i].count, CeilDiv(sp[i].volume, MaxOrder))
               /\ p[i] <= sp[i].volume \div MinOrder}

-----------------------------------------------------------------------------
(* The tasks *)

Parts(t) == {t.parts[i] : i \in DOMAIN t.parts}
Volume(t) == SumFunction([i \in DOMAIN t.parts |-> t.parts[i].volume])

\* What account a gains in quote by task t.
Gain(t, a) ==
    LET v == SumFunction([i \in DOMAIN t.parts |->
                             IF t.parts[i].account = a THEN t.parts[i].volume ELSE 0])
    IN  IF t.side = "sell" THEN v ELSE 0 - v

Gained(tasks, a) == SumFunction([i \in DOMAIN tasks |-> Gain(tasks[i], a)])
QuoteAfter(tasks, a) == account[a].quote + Gained(tasks, a)
BaseAfter(tasks, a) == account[a].base - Gained(tasks, a)

Task(side, a, v) == [side |-> side, parts |-> <<[account |-> a, volume |-> v]>>]

\* The orders that are not in the plan yet.
Waiting(side) ==
    LET g == IF side = "sell" THEN sells ELSE buys
    IN  UNION {{Task(side, a, v) : v \in ToSet(g[a])} : a \in DOMAIN g}

\* Mutant: a buy does not wait.
ExecutableAny == Waiting("sell") \cup Waiting("buy")

\* A buy waits until its account has the quote for it.
Executable ==
    Waiting("sell") \cup
    {t \in Waiting("buy") :
        QuoteAfter(plan, t.parts[1].account) >= t.parts[1].volume}

\* After two orders of one side comes one of the other, when there is one.
Alternating(S) ==
    LET n == Len(plan)
        other == {t \in S : t.side # plan[n].side}
    IN  IF n >= 2 /\ plan[n].side = plan[n - 1].side /\ other # {}
        THEN other ELSE S

\* A shakeout sells first, the largest orders first, then buys.
NextOfShakeout ==
    IF Waiting("sell") # {}
    THEN {t \in Waiting("sell") :
            \A u \in Waiting("sell") : Volume(t) >= Volume(u)}
    ELSE Waiting("buy")

Eligible ==
    IF request.objective = "shakeout" THEN NextOfShakeout ELSE Alternating(Executable)

-----------------------------------------------------------------------------
(* One-sided plans: slices spread over accounts *)

\* resolveConstrainedOrderCount with a strict count.
SliceCount(v, n) ==
    LET b == CountBounds(v)
    IN  IF v < MinOrder THEN 0
        ELSE IF b.least > AtLeast(1, b.most) THEN 1
        ELSE AtMost(AtLeast(1, b.most), AtLeast(b.least, n))

\* buildConstrainedVolumes: a single slice takes the volume whatever its size.
SliceVolumes(v, n) ==
    LET k == SliceCount(v, n)
    IN  IF k = 1 THEN {<<v>>}
        ELSE {s \in [1..k -> Volumes] : k > 0 => SeqSum(s) = v}

\* What an account can still take of a slice: what it may spend, or the rest of
\* what it could sell when it could sell an order at all.
Capacity(side, a) ==
    IF side = "buy" THEN AtLeast(0, QuoteAfter(plan, a) - Reserve)
    ELSE IF account[a].base >= MinOrder THEN AtLeast(0, BaseAfter(plan, a))
    ELSE 0

\* Mutant: the volume left over counts the cut that was meant for the next order.
TakeUncut(cap, r, a) ==
    LET v == AtMost(cap[a], r.left)
        rest == r.left - v
        less == v - (MinOrder - rest)
        w == IF rest > 0 /\ rest < MinOrder /\ less >= MinOrder THEN less ELSE v
    IN  IF r.left < MinOrder \/ w < MinOrder THEN r
        ELSE [left |-> rest,
              parts |-> Append(r.parts, [account |-> a, volume |-> w])]

\* One account's turn: what it can take, a little less where the rest would be
\* too small for an order.
Take(cap, r, a) ==
    LET v == AtMost(cap[a], r.left)
        rest == r.left - v
        less == v - (MinOrder - rest)
        w == IF rest > 0 /\ rest < MinOrder /\ less >= MinOrder THEN less ELSE v
    IN  IF r.left < MinOrder \/ w < MinOrder THEN r
        ELSE [left |-> r.left - w,
              parts |-> Append(r.parts, [account |-> a, volume |-> w])]

\* allocateBoundedOrderVolume: the accounts that can take an order, in any order
\* (score, rotation or chance), take turns.
AllocateBoundedOrderVolume(cap, v) ==
    LET InTurn(o) ==
            LET taken[i \in 0..Len(o)] ==
                    IF i = 0 THEN [left |-> v, parts |-> <<>>]
                    ELSE Take(cap, taken[i - 1], o[i])
            IN  taken[Len(o)]
    IN  {InTurn(o) : o \in SetToSeqs({a \in Accounts : cap[a] >= MinOrder})}

-----------------------------------------------------------------------------
(* The planner *)

Init ==
    /\ request \in Requests
    /\ account \in [Accounts -> Balances]
    /\ step = "specify"
    /\ specs = <<>> /\ tries = {}
    /\ sells = NoOrders /\ buys = NoOrders
    /\ slices = <<>> /\ plan = <<>> /\ unallocated = 0

\* The sides are known: slices are cut for one side, counts listed for two.
Specify ==
    /\ step = "specify"
    /\ specs' = TaskSpecs(request)
    /\ IF Len(specs') = 2
       THEN /\ tries' = Candidates(specs')
            /\ step' = "allocate"
            /\ UNCHANGED slices
       ELSE /\ slices' \in SliceVolumes(specs'[1].volume, specs'[1].count)
            /\ step' = "slice"
            /\ UNCHANGED tries
    /\ UNCHANGED <<request, account, sells, buys, plan, unallocated>>

\* Orders for one pair of counts: both sides found, or the next pair.
Allocate ==
    /\ step = "allocate"
    /\ \E p \in tries : \E g \in SellOrders(p[1]) :
           \E h \in IF g = NoOrders THEN {NoOrders} ELSE BuyOrders(g, p[2]) :
               IF h = NoOrders
               THEN /\ tries' = tries \ {p}
                    /\ UNCHANGED <<step, sells, buys>>
               ELSE /\ sells' = g /\ buys' = h
                    /\ step' = "sequence" /\ tries' = {}
    /\ UNCHANGED <<request, account, specs, slices, plan, unallocated>>

\* The sides' volumes, all of them unallocated when there is no plan.
Unplanned == specs[1].volume + specs[2].volume

\* No pair of counts works: an empty plan.
GiveUp ==
    /\ step = "allocate" /\ tries = {}
    /\ step' = "done" /\ unallocated' = Unplanned
    /\ UNCHANGED <<request, account, specs, tries, sells, buys, slices, plan>>

Without(g, t) ==
    [g EXCEPT ![t.parts[1].account] = RemoveFirst(@, t.parts[1].volume)]

\* The next order gets its place in the sequence.
Place ==
    /\ step = "sequence"
    /\ \E t \in Eligible :
           /\ plan' = Append(plan, t)
           /\ IF t.side = "sell"
              THEN sells' = Without(sells, t) /\ UNCHANGED buys
              ELSE buys' = Without(buys, t) /\ UNCHANGED sells
    /\ UNCHANGED <<request, account, step, specs, tries, slices, unallocated>>

\* Every order has its place, or none of those left can be executed.
EndSequence ==
    /\ step = "sequence" /\ Eligible = {}
    /\ step' = "done"
    /\ IF Waiting("sell") \cup Waiting("buy") = {}
       THEN UNCHANGED <<plan, unallocated>>
       ELSE plan' = <<>> /\ unallocated' = Unplanned
    /\ UNCHANGED <<request, account, specs, tries, sells, buys, slices>>

\* The next slice is spread over the accounts; what none takes is left over.
Slice ==
    /\ step = "slice" /\ slices # <<>>
    /\ slices' = Tail(slices)
    /\ \E r \in AllocateBoundedOrderVolume(
                  [a \in Accounts |-> Capacity(specs[1].side, a)], Head(slices)) :
           /\ unallocated' = unallocated + r.left
           /\ plan' = IF r.parts = <<>> THEN plan
                      ELSE Append(plan, [side |-> specs[1].side, parts |-> r.parts])
    /\ UNCHANGED <<request, account, step, specs, tries, sells, buys>>

EndSlices ==
    /\ step = "slice" /\ slices = <<>>
    /\ step' = "done"
    /\ UNCHANGED <<request, account, specs, tries, sells, buys, slices, plan,
                   unallocated>>

Next ==
    \/ Specify \/ Allocate \/ GiveUp \/ Place \/ EndSequence \/ Slice \/ EndSlices

Spec == Init /\ [][Next]_vars

\* StrategyPlannerResult.isExecutable
IsExecutable ==
    /\ Len(plan) >= SumFunction([i \in DOMAIN specs |-> specs[i].count])
    /\ Len(plan) <= MaxCount
    /\ unallocated = 0

-----------------------------------------------------------------------------
(* The check of the deploy route *)

SideVolume(side) ==
    SumFunction([i \in DOMAIN plan |->
                    IF plan[i].side = side THEN Volume(plan[i]) ELSE 0])
SpecVolume(side) ==
    SumFunction([i \in DOMAIN specs |->
                    IF specs[i].side = side THEN specs[i].volume ELSE 0])

\* The quote that must be there before the first task.
RequiredQuote ==
    IF request.objective = "distribution" THEN SpecVolume("buy") ELSE request.net

\* The route compares without an epsilon: all of a short figure is too much.
Enough(has, needed, short) == has >= needed /\ (short => has > needed)

IsShort(a, s) == s \in account[a].short

\* One task of the reviewed plan, after those before it.
Reviewed(i) ==
    LET t == plan[i]
        done == SubSeq(plan, 1, i - 1)
        a == t.parts[1].account
    IN  /\ Len(t.parts) = 1 /\ Volume(t) \in Volumes
        /\ IF t.side = "sell" THEN Enough(BaseAfter(done, a), Volume(t), IsShort(a, "base"))
           ELSE /\ Enough(QuoteAfter(done, a), Volume(t), IsShort(a, "quote"))
                /\ Reserve > 0 => QuoteAfter(done, a) - Volume(t) >= Reserve

Traded == UNION {{p.account : p \in Parts(plan[i])} : i \in DOMAIN plan}

\* validateReviewedPlan and the check of the quote before it.
Accepted ==
    /\ Enough(SumFunction([a \in Accounts |-> account[a].quote]), RequiredQuote,
              \E a \in Accounts : IsShort(a, "quote"))
    /\ Len(plan) \in request.count..MaxCount
    /\ \A i \in DOMAIN plan : Reviewed(i)
    /\ \A side \in {"buy", "sell"} : SideVolume(side) = SpecVolume(side)
    /\ Reserve > 0 => \A a \in Traded : QuoteAfter(plan, a) >= Reserve

-----------------------------------------------------------------------------
(* Properties *)

\* The counts of calculateFeasibleTradeCounts exist exactly when some pair of
\* counts, within the bounds asked for, can carry both volumes in orders of legal
\* size, and they are such a pair.
CountsAreFeasible ==
    LET t == Totals(request)
        c == TradeCounts(request.count, t.buy, t.sell)
        Carries(n, v) == n * MinOrder <= v /\ v <= n * MaxOrder
    IN  IF c.feasible
        THEN /\ Carries(c.buy, t.buy) /\ Carries(c.sell, t.sell)
             /\ c.buy + c.sell \in request.count..MaxCount
        ELSE \A b, s \in 0..MaxCount :
                 b + s \in request.count..MaxCount =>
                     ~ (Carries(b, t.buy) /\ Carries(s, t.sell))

\* A finished plan accounts for the whole volume asked for: what it trades and
\* what it reports unallocated (unallocatedVolumeUsd).
VolumeIsConserved ==
    step = "done" =>
        \/ SideVolume("buy") + SideVolume("sell") + unallocated
               = SpecVolume("buy") + SpecVolume("sell")
        \/ ~ TwoSided /\ specs[1].volume < MinOrder

\* The sequence never gets stuck: whatever was placed before, some order can be
\* executed next, so the empty result of the loop is never taken.
NeverStuck ==
    step = "sequence" /\ Waiting("sell") \cup Waiting("buy") # {} => Eligible # {}

\* Executed in its order a plan never spends quote an account does not have yet,
\* nor sells more than it held, by the planner's figures (to the epsilon the code
\* tolerates): every buyback comes after its funding sell.
NeverOverdrawn ==
    \A n \in 0..Len(plan), a \in Accounts :
        LET done == SubSeq(plan, 1, n)
        IN  QuoteAfter(done, a) >= 0 /\ BaseAfter(done, a) >= 0

\* What the planner shows as executable and the route is to take:
\* a plan of two sides that buys more than it sells, without a reserve.
Shown ==
    /\ step = "done" /\ IsExecutable
    /\ TwoSided /\ Reserve = 0 /\ request.objective # "distribution"

\* The plan spends or sells the whole of a figure that is short.
TakesAllOfShort ==
    \E n \in 1..Len(plan), a \in Accounts :
        LET done == SubSeq(plan, 1, n)
        IN  \/ IsShort(a, "quote") /\ QuoteAfter(done, a) = 0
            \/ IsShort(a, "base") /\ BaseAfter(done, a) = 0

\* A plan that is shown as executable passes the check of the deploy route on
\* unchanged balances, unless it takes the whole of what the planner rounded up.
ExecutableIsAccepted == Shown /\ ~ TakesAllOfShort => Accepted

\* What the interface says of the plan ("Executable Plan"): it passes the check of
\* the deploy route on unchanged balances.  The code breaks this with plans that
\* take the whole of what the planner rounded up.
ExecutablePlan == Shown => Accepted

=============================================================================
