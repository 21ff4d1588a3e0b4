---------------------------- MODULE MCOrderPlan -----------------------------
(***************************************************************************)
(* Instances of OrderPlan for TLC.                                         *)
(***************************************************************************)
EXTENDS OrderPlan, TLC

Request(o, g, n, c, r) ==
    [objective |-> o, gross |-> g, net |-> n, leastSell |-> 2, count |-> c,
     reserve |-> r]

\* Requests of each objective: two-sided, one-sided, a minimum of orders that
\* is possible or not, and volumes whose shares round to impossible counts.
AllRequests ==
    {Request(o, 8, n, c, r) : o \in {"accumulation", "shakeout", "distribution"},
                              n \in {0, 4, 8}, c \in {2, 3}, r \in {0, 2}}
    \cup {Request("accumulation", 17, 7, 2, 2), Request("distribution", 4, 8, 2, 0)}

Exact(q, b) == [quote |-> q, base |-> b, short |-> {}]

\* Balances by the planner's figures, one of them short of both.
Small == {Exact(q, b) : q \in {0, 3, 6}, b \in {0, 4}}
             \cup {[quote |-> 6, base |-> 4, short |-> {"quote", "base"}]}

Same == Permutations(Accounts)
=============================================================================
