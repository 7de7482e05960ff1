---------------------------- MODULE MCLifecycle ----------------------------
(* A small instance of Lifecycle for TLC: two positions of one mint. *)
EXTENDS Lifecycle, TLC

MCMintOf == [p \in Positions |-> CHOOSE m \in Mints : TRUE]
Symmetry == Permutations(Positions)
=============================================================================
