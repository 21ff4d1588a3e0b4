--------------------------- MODULE MCStrategyQueue ---------------------------
(***************************************************************************)
(* Instances of StrategyQueue for TLC.                                     *)
(***************************************************************************)
EXTENDS StrategyQueue, TLC

CONSTANTS d1, d2, d3, o1, o2

\* Two documents of one token and one of another.
TwoTokens == [d \in Docs |-> IF d = d3 THEN o2 ELSE o1]
\* The first deploy brings the document of one token, the others any.
InTurn == <<{d1}, Docs, Docs>>
AnyOfTwo == <<Docs, Docs>>
TwoRuns == 1 .. 2
ThreeRuns == 1 .. 3
=============================================================================
