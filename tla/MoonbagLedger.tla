--------------------------- MODULE MoonbagLedger ---------------------------
(***************************************************************************)
(* What the moonbag tracker promises to whom it takes positions from: a    *)
(* promoted position is either refused at once or held, at most            *)
(* MaxConcurrent of them at a time, and a position that is held is sold    *)
(* once.  How long it is held, and at what price it is sold, is not said   *)
(* here.                                                                   *)
(***************************************************************************)
EXTENDS Naturals, FiniteSets

CONSTANTS Positions, MaxConcurrent

VARIABLES
  held,           \* positions the tracker answers for
  refused,        \* promotions it did not take
  sold            \* positions it has sent an exit for

ledgerVars == <<held, refused, sold>>

LedgerInit == held = {} /\ refused = {} /\ sold = {}

Fresh(p) == p \in Positions \ (held \cup refused \cup sold)

Hold(p) ==
  /\ Fresh(p) /\ Cardinality(held) < MaxConcurrent
  /\ held' = held \cup {p} /\ UNCHANGED <<refused, sold>>

Refuse(p) ==
  /\ Fresh(p) /\ refused' = refused \cup {p} /\ UNCHANGED <<held, sold>>

\* One turn of the tracker may sell several positions.
Sell(S) ==
  /\ S # {} /\ S \subseteq held
  /\ held' = held \ S /\ sold' = sold \cup S /\ UNCHANGED refused

LedgerNext ==
  \/ \E p \in Positions : Hold(p) \/ Refuse(p)
  \/ \E S \in SUBSET held : Sell(S)

LedgerSpec == LedgerInit /\ [][LedgerNext]_ledgerVars
=============================================================================
