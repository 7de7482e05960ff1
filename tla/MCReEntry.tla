----------------------------- MODULE MCReEntry -----------------------------
(* Small instances of ReEntry, and of BuyPath within it, for TLC. *)
EXTENDS ReEntry, TLC

MCResults == {-1, 0}

\* Model values of one kind are interchangeable; no temporal property is
\* checked under this set.
Symmetry == Permutations(Buyers) \cup Permutations(Mints)
              \cup Permutations(RowIds)
=============================================================================
