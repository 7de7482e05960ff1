--------------------------- MODULE MCFundingPoll ---------------------------
(* Small instances of FundingPoll for TLC. *)
EXTENDS FundingPoll, TLC

CONSTANTS p1, p2, c1
MCRosters == {{p1}, {p1, p2}}
MCOneRoster == {{p1, p2}}
MCNoChildren == {<<>>}
\* A child of an earlier run whose watch of 2 ends at time 1.
MCEarlier == {c1 :> [parent |-> p1, seen |-> -1]}
=============================================================================
