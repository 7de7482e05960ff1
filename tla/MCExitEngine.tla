---------------------------- MODULE MCExitEngine ----------------------------
(* Small instances of ExitEngine for TLC. *)
EXTENDS ExitEngine, TLC

\* A take-profit of half the position, a protective exit of all of it, and
\* the emergency exit of a position whose amount is not known yet.
TakeHalf(m) == [mint |-> m, amount |-> Lot, all |-> FALSE,
                reason |-> "TakeProfit1", cost |-> Cost]
SellAll(m) == [mint |-> m, amount |-> Lot, all |-> TRUE,
               reason |-> "Protective", cost |-> Cost]
Unsized(m) == [mint |-> m, amount |-> 0, all |-> TRUE,
               reason |-> "Protective", cost |-> Cost]

AllInputs == UNION {{TakeHalf(m), SellAll(m), Unsized(m)} : m \in Mints}
SizedInputs == UNION {{TakeHalf(m), SellAll(m)} : m \in Mints}
FullInputs == {SellAll(m) : m \in Mints}

\* Tasks and mints are interchangeable; used where no liveness is checked.
Symmetry == Permutations(Tasks) \cup Permutations(Mints)
=============================================================================
