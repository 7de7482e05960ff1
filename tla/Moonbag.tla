------------------------------- MODULE Moonbag -------------------------------
(***************************************************************************)
(* The moonbag tracker (monitoring/moonbag.rs): one loop that takes        *)
(* promotions from a channel and, every five seconds, looks at each        *)
(* position it holds: at its background check, its age, its price, its     *)
(* floor and its trailing stop.  What is to be sold is collected during    *)
(* the turn as an index into the list and removed at its end.              *)
(*                                                                         *)
(* A price is a multiple of the entry price in tenths, 0 when the request  *)
(* failed; ages are in units of the model and stop at AgeCap.  The rows of *)
(* the table are written by tasks of their own, and Lifecycle has them.    *)
(***************************************************************************)
EXTENDS Naturals, SequencesExt

CONSTANTS
  LastPosition,   \* bound of the model: positions that are promoted
  None,
  Commands,       \* promotions there may be: peak, state, fast, dust
  MaxConcurrent,  \* moonbag_max_concurrent
  MaxQueue,       \* bound of the model: promotions on their way
  Prices,         \* what a request for a price may give, 0 among them
  Floor,          \* moonbag_floor_multiplier, in tenths
  Gate,           \* moonbag_profit_gate_multiplier, in tenths
  Trailing,       \* state |-> moonbag_trailing_..., in percent
  HoldCap,        \* state |-> moonbag_max_hold_..., in units
  SlowPoll,       \* units between two prices of a position that is not new
  Grace           \* units in which a fast runner is not stopped out

Positions == 1..LastPosition
States == 0..3    \* NarrativeState, in its order
Reasons == {"max_hold_expired", "floor_hit", "trailing_stop"}
ConfirmedCap == HoldCap[3]
AgeCap == ConfirmedCap + 2

ASSUME MoonbagAssumption ==
  /\ LastPosition \in Nat
  /\ Commands \subseteq [peak : Nat, state : States, fast : BOOLEAN, dust : BOOLEAN]
  /\ \A c \in Commands : c.peak > 10
  /\ MaxConcurrent \in Nat \ {0} /\ MaxQueue \in Nat \ {0}
  /\ Prices \subseteq Nat /\ 0 \in Prices
  /\ Floor \in Nat /\ Gate \in Nat /\ Trailing \in [States -> 0..100]
  /\ HoldCap \in [States -> Nat] /\ \A s \in States : HoldCap[s] <= ConfirmedCap
  /\ SlowPoll \in Nat \ {0} /\ Grace \in Nat
  /\ None \notin States /\ None \notin Reasons

VARIABLES
  queue,          \* commands on their way to the tracker
  positions,      \* the list of tracked positions
  looked,         \* there was a turn in this unit of time
  exits,          \* history: signals sent, in order
  patched,        \* history: rows marked as exited, in order
  refused         \* history: promotions skipped

vars == <<queue, positions, looked, exits, patched, refused>>
History == <<exits, patched>>

Entry == 10

Init ==
  /\ queue = <<>> /\ positions = <<>> /\ looked = TRUE /\ exits = <<>> /\ patched = <<>>
  /\ refused = {}

Tracked == {positions[i].id : i \in DOMAIN positions}
Queued == {queue[i].id : i \in DOMAIN queue}
Sold == {exits[i] : i \in DOMAIN exits}

-----------------------------------------------------------------------------
\* A monitor hands a position over (PositionMonitor!Promote, external here),
\* above its entry price.  Positions are numbered as they are promoted.
Promote(p, cmd) ==
  /\ p \notin Tracked \cup Queued \cup Sold \cup refused
  /\ 1..(p - 1) \subseteq Tracked \cup Queued \cup Sold \cup refused
  /\ Len(queue) < MaxQueue
  /\ queue' = Append(queue, [id |-> p, peak |-> cmd.peak, state |-> cmd.state,
                             fast |-> cmd.fast, dust |-> cmd.dust])
  /\ UNCHANGED <<positions, looked, exits, patched, refused>>

\* MoonbagPosition::from_command.
FromCommand(cmd) ==
  [id |-> cmd.id, peak |-> cmd.peak, state |-> cmd.state, trail |-> Trailing[cmd.state],
   cap |-> HoldCap[cmd.state], gate |-> cmd.peak >= Gate, fast |-> cmd.fast,
   pending |-> cmd.fast, extended |-> FALSE, age |-> 0, since |-> 0]

\* Mutant of Refused: one more than the limit is taken.
RefusedLate(cmd) == cmd.dust \/ Len(positions) > MaxConcurrent

\* A promotion of dust, or to a full tracker, is skipped with a warning.
Refused(cmd) == cmd.dust \/ Len(positions) >= MaxConcurrent

Receive ==
  /\ queue # <<>> /\ queue' = Tail(queue)
  /\ LET cmd == Head(queue)
     IN  IF Refused(cmd)
         THEN refused' = refused \cup {cmd.id} /\ UNCHANGED positions
         ELSE positions' = Append(positions, FromCommand(cmd)) /\ UNCHANGED refused
  /\ UNCHANGED <<looked, History>>

\* Instants.
Older(pos) ==
  [pos EXCEPT !.age = IF @ < AgeCap THEN @ + 1 ELSE @,
              !.since = IF @ < SlowPoll THEN @ + 1 ELSE @]

\* The interval is much shorter than the unit.
Clock ==
  /\ looked /\ looked' = FALSE
  /\ \E i \in DOMAIN positions : Older(positions[i]) # positions[i]
  /\ positions' = [i \in DOMAIN positions |-> Older(positions[i])]
  /\ UNCHANGED <<queue, refused, History>>

-----------------------------------------------------------------------------
(* One position in a turn.  The outside gives the result of the background *)
(* check (None: not there yet; 0 when it failed), of the check for an      *)
(* extension (TRUE: a score of 76 or more) and the price.                  *)

\* The result may raise the state, and neither the trail nor the cap.
Noticed(pos, check) ==
  IF check = None THEN pos
  ELSE [pos EXCEPT !.pending = FALSE, !.state = IF check > @ THEN check ELSE @]

MayExtend(pos) == pos.state = 3 /\ ~pos.extended /\ pos.cap < ConfirmedCap

\* effective_trailing_pct; the tiers by the multiple of the entry price.
Tier(price) ==
  CASE price >= 200 -> 15 [] price >= 100 -> 20 [] price >= 50 -> 30
    [] price >= 20 -> 40 [] OTHER -> 55

EffectiveTrail(pos, price) ==
  IF ~pos.gate \/ pos.trail < Tier(price) THEN pos.trail ELSE Tier(price)

\* poll_interval_secs: often while a fast runner is new, then less often.
Due(pos) == pos.since >= IF pos.fast /\ pos.age <= 1 THEN 1 ELSE SlowPoll

Priced(pos, price) ==
  LET peak == IF price > pos.peak THEN price ELSE pos.peak
  IN  [pos EXCEPT !.since = 0, !.peak = peak, !.gate = @ \/ peak >= Gate]

StoppedOut(pos, price) ==
  /\ 100 * (pos.peak - price) >= EffectiveTrail(pos, price) * pos.peak
  /\ ~(pos.fast /\ pos.age < Grace)

Kept(pos) == [pos |-> pos, exit |-> None]
Exit(pos, reason) == [pos |-> pos, exit |-> reason]

\* The price of a position that is not too old.
AtPrice(pos, price) ==
  IF ~Due(pos) THEN Kept(pos)
  ELSE IF price = 0 THEN Kept([pos EXCEPT !.since = 0])
  ELSE LET priced == Priced(pos, price)
       IN  IF 10 * price <= Floor * Entry THEN Exit(priced, "floor_hit")
           ELSE IF StoppedOut(priced, price) THEN Exit(priced, "trailing_stop")
           ELSE Kept(priced)

\* Mutant of Looked: the age is looked at with a price only.
LookedPriceFirst(pos, more, price) ==
  IF Due(pos) /\ price = 0 THEN Kept([pos EXCEPT !.since = 0])
  ELSE IF pos.age > pos.cap THEN Exit(pos, "max_hold_expired")
  ELSE AtPrice(pos, price)

\* The age comes first, whatever the price source does; one extension, for a
\* position that was promoted in a lower state than the highest.
Looked(pos, more, price) ==
  IF pos.age > pos.cap
  THEN IF MayExtend(pos) /\ more
       THEN Kept([pos EXCEPT !.extended = TRUE, !.cap = ConfirmedCap])
       ELSE Exit(pos, "max_hold_expired")
  ELSE AtPrice(pos, price)

-----------------------------------------------------------------------------
\* Mutant of LastRemoved: the list shifts under the indices that are left.
LastRemovedUp(indices) == Max(indices)

\* exits_to_send is sorted by index, the last one first.
LastRemoved(indices) == Min(indices)

\* One exit at the end of a turn: the row of what is now at the index is
\* patched, the signal made when that index was looked at is sent, and the
\* position at the index is removed.
Removed(list, i, acc) ==
  LET sent == Append(acc.sent, list[i].id)
  IN  IF i > Len(acc.left) THEN [acc EXCEPT !.sent = sent]
      ELSE [left |-> RemoveAt(acc.left, i), sent |-> sent,
            rows |-> Append(acc.rows, acc.left[i].id)]

\* All of them, one after the other.
Emptied(list, indices) ==
  MapThenFoldSet(LAMBDA i, acc : Removed(list, i, acc),
                 [left |-> list, sent |-> <<>>, rows |-> <<>>],
                 LAMBDA i : i, LastRemoved, indices)

Outcomes(pos) ==
  {Looked(Noticed(pos, check), more, price) :
     check \in IF pos.pending THEN {None} \cup States ELSE {None},
     more \in IF pos.age > pos.cap THEN BOOLEAN ELSE {FALSE},
     price \in IF Due(pos) THEN Prices ELSE {0}}

TurnOutcomes ==
  LET of == [i \in DOMAIN positions |-> Outcomes(positions[i])]
  IN  {seen \in [DOMAIN positions -> UNION {of[i] : i \in DOMAIN of}] :
         \A i \in DOMAIN of : seen[i] \in of[i]}

Turn ==
  /\ positions # <<>> /\ looked' = TRUE
  /\ \E seen \in TurnOutcomes :
       LET emptied == Emptied([i \in DOMAIN positions |-> seen[i].pos],
                              {i \in DOMAIN positions : seen[i].exit # None})
       IN  /\ positions' = emptied.left
           /\ patched' = patched \o emptied.rows
           /\ exits' = exits \o emptied.sent
  /\ UNCHANGED <<queue, refused>>

Next ==
  \/ \E p \in Positions, cmd \in Commands : Promote(p, cmd)
  \/ Receive \/ Clock \/ Turn

Spec == Init /\ [][Next]_vars

-----------------------------------------------------------------------------
(* Properties.                                                             *)

Ledger == INSTANCE MoonbagLedger WITH held <- Tracked, sold <- Sold

\* The list, with its indices that are collected first and used later, is a
\* ledger: never more positions than the limit, none lost, none sold twice,
\* none sold that was refused.
ImplementsLedger == Ledger!LedgerSpec

\* The row that is marked as exited is the row of the position that was sold:
\* the row is looked up by an index that removals may have shifted
\* (moonbag.rs:1073-1141).
RowsMatchSignals == patched = exits

\* Nothing is held past its cap by more than a unit, also when the price source
\* never answers and the checks fail; and no cap is past the highest.
NotHeldPastCap ==
  \A i \in DOMAIN positions :
     positions[i].age <= positions[i].cap + 1 /\ positions[i].cap <= ConfirmedCap
=============================================================================
