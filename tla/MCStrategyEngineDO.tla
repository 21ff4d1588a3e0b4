------------------------- MODULE MCStrategyEngineDO -------------------------
(***************************************************************************)
(* Instances of StrategyEngineDO for TLC.                                  *)
(***************************************************************************)
EXTENDS StrategyEngineDO, TLC

CONSTANTS x1, x2

\* A buy of one unit and a sell large enough to fill in part.
TwoTasks == <<[side |-> "buy", amt |-> 1], [side |-> "sell", amt |-> 2]>>
OneTask == <<[side |-> "buy", amt |-> 1]>>

OneUnit == [x \in Txs |-> 1]
NoEvents == [x \in Txs |-> "observe"]
Dip == [x \in Txs |-> "buy_the_dip"]
Pausing == [x \in Txs |-> "pause_strategy"]
DipAndReduction == (x1 :> "buy_the_dip") @@ (x2 :> "reduce_target")
=============================================================================
