--------------------------- MODULE MCLegacyBackend ---------------------------
(***************************************************************************)
(* Instances of LegacyBackend for TLC.                                     *)
(***************************************************************************)
EXTENDS LegacyBackend, TLC

\* Two accounts that can trade with themselves, or only with each other.
TwoAccounts == <<[base |-> 2, quote |-> 1], [base |-> 0, quote |-> 3]>>

Trade(b, s, t, d) == [buy |-> b, sell |-> s, total |-> t, hint |-> 2, delayed |-> d]
SomeTrades == {Trade(3, 0, 3, FALSE), Trade(0, 2, 2, TRUE)}

Settings(contract, objective, max, volume) ==
    [contract |-> contract, objective |-> objective, threshold |-> 1, min |-> 1,
     max |-> max, absorb |-> 1, follow |-> 1, dump |-> 1, volume |-> volume,
     net |-> 0]

Unset == Settings("", "accumulation", 25, 0)

\* A shakeout with a volume of its own.
SomeSettings == {Settings("c", "shakeout", 2, 2)}

Event(side, contract) ==
    [contract |-> contract, side |-> side, amount |-> 2, lossCut |-> side = "Sell",
     execute |-> TRUE]
SomeEvents == {Event("Buy", ""), Event("Sell", "c")}
=============================================================================
