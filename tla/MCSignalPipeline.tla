-------------------------- MODULE MCSignalPipeline --------------------------
(***************************************************************************)
(* Instances of SignalPipeline for TLC.                                    *)
(***************************************************************************)
EXTENDS SignalPipeline, TLC

CONSTANTS a1, a2, n1, r1, ka, kn, kr

\* Alchemy reports the transaction twice, the node and a refresh once.
Providers ==
    [d \in Deliveries |-> CASE d = n1 -> "node" [] d = r1 -> "rpc" [] OTHER -> "alchemy"]
OwnKeys == [d \in Deliveries |-> CASE d = n1 -> kn [] d = r1 -> kr [] OTHER -> ka]

Case(payload, chain, atOnce) == [payload |-> payload, chain |-> chain, atOnce |-> atOnce]
McEvents ==
    {Case("signature", "trade", 3), Case("wallets", "trade", 2), Case("owners", "transfer", 2),
     Case("hint", "failed", 2), Case("pool", "none", 2)}

Same == Permutations({a1, a2})
=============================================================================
