----------------------------- MODULE MCMoonbag -----------------------------
(* A small instance of Moonbag for TLC. *)
EXTENDS Moonbag

\* moonbag_trailing_early, _early, _expanding and _confirmed.
MCTrailing == [s \in States |-> IF s <= 1 THEN 45 ELSE 55]
MCHoldCap == [s \in States |-> IF s <= 1 THEN 1 ELSE 2]
Command(peak, state, fast, dust) ==
  [peak |-> peak, state |-> state, fast |-> fast, dust |-> dust]
\* A position of little attention, one of much, a fast runner, and dust.
MCCommands == {Command(13, 1, FALSE, FALSE), Command(26, 2, FALSE, FALSE),
               Command(26, 0, TRUE, FALSE), Command(26, 1, FALSE, TRUE)}
=============================================================================
