-------------------------- MODULE MCManagedWallets --------------------------
(***************************************************************************)
(* Instances of ManagedWallets for TLC.                                    *)
(***************************************************************************)
EXTENDS ManagedWallets

CONSTANTS b1, b2, usdc, w1, w2, w3

TwoBases == {b1, b2}
OneQuote == {usdc}
OneWallet == {w1}
ThreeWallets == {w1, w2, w3}
Phrase == <<w1, w2, w3>>

\* Two wallets: one that can buy once, one that can sell once.
TwoImported == <<w1, w2>>
Holdings == [w \in ThreeWallets |-> [m \in {b1, b2, usdc} |->
                IF <<w, m>> \in {<<w1, usdc>>, <<w2, b1>>} THEN 1 ELSE 0]]

\* The second wallet is for b1 only.
ForPair == [w \in ThreeWallets |-> IF w = w2 THEN <<b1, usdc>> ELSE None]

\* b1 is tracked; b2 may be activated before anybody tracks it.
Tracked == [p \in {<<b1, usdc>>, <<b2, usdc>>} |-> IF p[1] = b1 THEN "tracked" ELSE "none"]
\* The active pair, its quote left out.
ActiveB == {[base |-> b1, quote |-> None]}

\* What the requests of one behaviour are.
Mix(ops, atOnce, dying) == [ops |-> ops, atOnce |-> atOnce, deaths |-> dying]
SomeMixes ==
    {Mix([controlled |-> 1], 1, 0), Mix([trade |-> 2], 1, 0),
     Mix([trade |-> 1, balance |-> 1], 2, 0),
     Mix([trade |-> 1, backfill |-> 1], 2, 0), Mix([trade |-> 1, account |-> 1], 2, 1),
     Mix([trade |-> 1, delete |-> 1], 2, 0), Mix([trade |-> 1, activate |-> 1], 1, 0),
     Mix([trade |-> 1, addUrl |-> 1], 2, 0),
     Mix([balance |-> 1, refresh |-> 1, deposit |-> 1], 2, 0),
     Mix([account |-> 1, import |-> 1, key |-> 1], 2, 1),
     Mix([delete |-> 1, activate |-> 1, save |-> 1], 2, 1),
     Mix([delete |-> 1, create |-> 2], 2, 1),
     Mix([addUrl |-> 2, dropUrl |-> 1], 2, 1)}
=============================================================================
