---------------------------- MODULE MCHolderSync ----------------------------
(***************************************************************************)
(* The instance of HolderSync for TLC: two shards of one wallet each, and  *)
(* a table from before the second wallet sold to the first.                *)
(***************************************************************************)
EXTENDS HolderSync, TLC

McShardOf == "a" :> 0 @@ "b" :> 1
McSupply == "a" :> 2 @@ "b" :> 0
McTables == {"a" :> 1 @@ "b" :> 1}
Symmetry == Permutations(Syncs) \cup Permutations(Deliveries)
=============================================================================
