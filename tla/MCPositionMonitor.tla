-------------------------- MODULE MCPositionMonitor --------------------------
(* Small instances of PositionMonitor for TLC. *)
EXTENDS PositionMonitor, TLC

\* Tasks are interchangeable.
Symmetry == Permutations(Tasks)
=============================================================================
