---------------------------- MODULE LegacyPlanner ----------------------------
(***************************************************************************)
(* How the Rust back end turns a target into orders of managed accounts    *)
(* (rust-backend/src/planner.rs, TradePlanner).  Amounts are whole units;  *)
(* a unit is at least the floor of 1 of an order and far larger than the   *)
(* 1e-6 at which cycling stops.  Totals are such that what cycles is even. *)
(***************************************************************************)
EXTENDS Integers, Sequences, FiniteSets, SequencesExt

CONSTANTS
    Pool,           \* available accounts, newest first: [base, quote] each
    MaxMicroTasks   \* max_micro_tasks

ASSUME PoolAssumption ==
    /\ \A i \in DOMAIN Pool : Pool[i].base \in Nat /\ Pool[i].quote \in Nat
    /\ MaxMicroTasks \in Nat \ {0}

\* The planner returned an error.
NoPlan == <<[type |-> "error"]>>

Least(x, y) == IF x < y THEN x ELSE y
Most(x, y) == IF x > y THEN x ELSE y

\* normalized_hint
Hint(input) == Most(input.hint, 1)

\* slice_target_volume: whole hints, then what is left.
SliceTargetVolume(volume, hint) ==
    LET rest == volume % hint
    IN  [i \in 1..(volume \div hint) |-> hint] \o (IF rest > 0 THEN <<rest>> ELSE <<>>)

\* AccountSnapshot::can_fund
CanFund(i, side, amount) ==
    IF side = "Buy" THEN Pool[i].quote >= amount ELSE Pool[i].base >= amount

\* select_account_for_side: the first that can, whatever it was given before.
Selected(side, amount) ==
    {i \in DOMAIN Pool : CanFund(i, side, amount)
                         /\ \A j \in 1..(i - 1) : ~ CanFund(j, side, amount)}

\* The net orders of one side.
NetIntents(side, slices) ==
    [n \in DOMAIN slices |->
        [type |-> "NetPosition", side |-> side, amount |-> slices[n],
         account |-> CHOOSE i \in Selected(side, slices[n]) : TRUE]]

\* One pair of cycling orders, of one account that holds both or of two.
\* w: what is free in each account, what remains, the orders so far.
Cycle(w, hint) ==
    LET both == {i \in DOMAIN Pool : w.base[i] > 0 /\ w.quote[i] > 0}
        buyers == {i \in DOMAIN Pool : w.quote[i] > 0}
        sellers == {i \in DOMAIN Pool : w.base[i] > 0}
        First(S) == CHOOSE i \in S : \A j \in S : i <= j
        buyer == First(IF both # {} THEN both ELSE buyers)
        seller == First(IF both # {} THEN both ELSE sellers)
        type == IF both # {} THEN "VolumeCyclingSelf" ELSE "VolumeCyclingHedge"
        amount == Least(Least(w.remaining \div 2, hint),
                        Least(w.quote[buyer], w.base[seller]))
        order(side, i) ==
            [type |-> type, side |-> side, amount |-> amount, account |-> i]
    IN  IF w.remaining = 0 \/ w.failed THEN w
        ELSE IF \/ Len(w.intents) + 2 > MaxMicroTasks
                \/ buyers = {} \/ sellers = {}
        THEN [w EXCEPT !.failed = TRUE]
        ELSE [w EXCEPT !.quote[buyer] = @ - amount, !.base[seller] = @ - amount,
                       !.remaining = @ - 2 * amount,
                       !.intents = @ \o <<order("Buy", buyer), order("Sell", seller)>>]

\* build_volume_cycling_intents: each account starts with all it holds.
CyclingIntents(gap, hint) ==
    LET start == [base |-> [i \in DOMAIN Pool |-> Pool[i].base],
                  quote |-> [i \in DOMAIN Pool |-> Pool[i].quote],
                  remaining |-> gap, failed |-> FALSE, intents |-> <<>>]
        round[n \in 0..(MaxMicroTasks + 1)] ==
            IF n = 0 THEN start ELSE Cycle(round[n - 1], hint)
        end == round[MaxMicroTasks + 1]
    IN  IF end.failed THEN NoPlan ELSE end.intents

\* generate_plan: the net orders, then pairs up to the total volume.
GeneratePlan(input) ==
    LET buys == SliceTargetVolume(input.buy, Hint(input))
        sells == SliceTargetVolume(input.sell, Hint(input))
        net == NetIntents("Buy", buys) \o NetIntents("Sell", sells)
        cycles == CyclingIntents(input.total - input.buy - input.sell, Hint(input))
    IN  IF \/ Pool = <<>> \/ cycles = NoPlan
           \/ Len(buys) > MaxMicroTasks \/ Len(sells) > MaxMicroTasks
           \/ input.total < input.buy + input.sell
           \/ \E n \in DOMAIN buys : Selected("Buy", buys[n]) = {}
           \/ \E n \in DOMAIN sells : Selected("Sell", sells[n]) = {}
        THEN NoPlan ELSE net \o cycles
=============================================================================
