---------------------------- MODULE MCDetection ----------------------------
(* Small instances of Detection for TLC. *)
EXTENDS Detection, TLC

CONSTANTS m1, m2, m3, c1, c2, label
\* The first two mints have the same label and creator; the third has none of
\* the label's characters and another creator.
MCLabelOf(m) == IF m = m3 THEN NoLabel ELSE label
MCCreatorOf(m) == IF m = m3 THEN c2 ELSE c1
Symmetry == Permutations({m1, m2})
=============================================================================
