------------------------------ MODULE ReEntry ------------------------------
(***************************************************************************)
(* The re-entry watcher (reentry/mod.rs) beside the buy path: it polls the *)
(* table for positions that were closed, watches each mint for a while,    *)
(* and puts a mint that has dipped into the channel of the buyers, past    *)
(* the cooldown.  The outcomes it fills in later are not modelled.         *)
(***************************************************************************)
EXTENDS BuyPath, Sequences

CONSTANTS
  MaxReentries,   \* max_reentries_per_mint
  WatchWindow,    \* window_seconds, in units of the clock
  Lookback,       \* enqueue_lookback_seconds
  QueueCapacity,  \* capacity of the channel of filtered tokens
  ClosedIds       \* bound: ids of the closed rows that the watcher may follow

ASSUME ReAssumption ==
  /\ {MaxReentries, WatchWindow, Lookback, QueueCapacity} \subseteq Nat
  /\ None \notin [id : ClosedIds, mint : Mints, age : Nat]
                   \cup [origin : ClosedIds, attempts : Nat, age : Nat]

VARIABLES
  closed,     \* closed rows with a peak above the floor: id, mint, age
  seen,       \* seen_positions
  tracked,    \* mint |-> the exit that is watched, or None
  round,      \* mints this round of the loop has still to evaluate
  queue,      \* mints in the channel of the buyers
  injected    \* history: how often each closed row led to a re-entry

reVars == <<closed, seen, tracked, round, queue, injected>>
watcherVars == <<seen, tracked, round, injected>>
allVars == <<vars, reVars>>

ReInit ==
  /\ Init
  /\ closed = {} /\ seen = {} /\ round = {} /\ queue = << >>
  /\ tracked = [m \in Mints |-> None]
  /\ injected = [id \in ClosedIds |-> 0]

-----------------------------------------------------------------------------
\* Mutant: a row is remembered when its watch is over.
SeenExpired(rowsFound) ==
  seen \cup {row.id : row \in {r \in closed : r.age > WatchWindow}}

\* Every row of the answer is remembered, whatever becomes of it.
Seen(rowsFound) == seen \cup {row.id : row \in rowsFound}

\* The rows closed lately that were not seen yet.  They come newest first, so
\* of two rows of one mint the older one is watched in the end.
Found == {row \in closed : row.age <= Lookback /\ row.id \notin seen}

Watch(row) == [origin |-> row.id, attempts |-> 0, age |-> row.age]

Last(rowsFound, m) ==
  LET ofMint == {row \in rowsFound : row.mint = m}
  IN  IF ofMint = {} THEN {None}
      ELSE {row \in ofMint : \A r \in ofMint : r.age <= row.age}

Enqueued(rowsFound) ==
  {[m \in Mints |-> IF last[m] = None THEN tracked[m] ELSE Watch(last[m])] :
     last \in {f \in [Mints -> rowsFound \cup {None}] :
                 \A m \in Mints : f[m] \in Last(rowsFound, m)}}

\* A round: new exits are added, those past the window are dropped, and the
\* others are evaluated.  A poll that fails adds none.
Poll ==
  /\ running /\ round = {}
  /\ \E rowsFound \in {Found, {}} : \E now \in Enqueued(rowsFound) :
       LET live == {m \in Mints : now[m] # None /\ now[m].age <= WatchWindow}
       IN  /\ seen' = Seen(rowsFound)
           /\ tracked' = [m \in Mints |-> IF m \in live THEN now[m] ELSE None]
           /\ round' = live
  /\ UNCHANGED <<vars, closed, queue, injected>>

\* No price, or no dip: nothing is counted.
NotDipped(m) ==
  /\ m \in round
  /\ round' = round \ {m}
  /\ UNCHANGED <<vars, closed, seen, tracked, queue, injected>>

Capped(m) == tracked[m].attempts + 1 > MaxReentries

\* A dip counts as an attempt, even if another gate or the cap refuses it or
\* the channel is full.
Dipped(m) ==
  /\ m \in round
  /\ round' = round \ {m}
  /\ tracked' = [tracked EXCEPT ![m].attempts = IF Capped(m) THEN @ ELSE @ + 1]
  /\ \/ UNCHANGED <<queue, injected>>
     \/ /\ ~Capped(m)
        /\ Len(queue) < QueueCapacity
        /\ queue' = Append(queue, m)
        /\ injected' = [injected EXCEPT ![tracked[m].origin] = @ + 1]
  /\ UNCHANGED <<vars, closed, seen>>

-----------------------------------------------------------------------------
(* The buy path with its channel and its closed rows. *)

\* A re-entry bypasses the cooldown; a token whose mint cannot be reserved is
\* dropped.
TakeReentry(b, size) ==
  /\ queue # << >>
  /\ queue' = Tail(queue)
  /\ \/ Reserve(b, Head(queue), TRUE, size)
     \/ /\ At(b, "idle")
        /\ Head(queue) \in openMints \cup pendingMints
        /\ UNCHANGED vars
  /\ UNCHANGED <<closed, watcherVars>>

\* A full exit closes the row.  One without a price, or with a peak below the
\* floor, is skipped by the watcher for good.
CloseRow(row, pnl) ==
  /\ ExitPosition(row, pnl, TRUE)
  /\ closed' \in {closed} \cup
       {closed \cup {[id |-> id, mint |-> row.mint, age |-> 0]} :
          id \in {i \in ClosedIds : \A c \in closed : c.id # i}}
  /\ UNCHANGED <<queue, watcherVars>>

Aged(r) == [r EXCEPT !.age = IF @ > WatchWindow \/ @ >= AgeCap THEN @ ELSE @ + 1]

TimePasses ==
  /\ Clock
  /\ closed' = {Aged(row) : row \in closed}
  /\ tracked' = [m \in Mints |-> IF tracked[m] = None THEN None ELSE Aged(tracked[m])]
  /\ UNCHANGED <<seen, round, queue, injected>>

Others ==
  \/ Startup
  \/ \E b \in Buyers, m \in Mints, size \in Amounts : Reserve(b, m, FALSE, size)
  \/ \E b \in Buyers : Proceed(b)
  \/ SweepRead
  \/ \E m \in Mints : SweepClose(m)
  \/ \E row \in rows, pnl \in Results : ExitPosition(row, pnl, FALSE)
  \/ NewDay

ReNext ==
  \/ Others /\ UNCHANGED reVars
  \/ \E row \in rows, pnl \in Results : CloseRow(row, pnl)
  \/ TimePasses
  \/ Poll
  \/ \E m \in Mints : NotDipped(m) \/ Dipped(m)
  \/ \E b \in Buyers, size \in Amounts : TakeReentry(b, size)

ReSpec == ReInit /\ [][ReNext]_allVars

\* The fairness of the buy path.
ReFairSpec ==
  /\ ReSpec
  /\ WF_allVars(Startup /\ UNCHANGED reVars)
  /\ \A b \in Buyers : WF_allVars(Proceed(b) /\ UNCHANGED reVars)
  /\ WF_allVars(SweepRead /\ UNCHANGED reVars)
  /\ \A m \in Mints : WF_allVars(SweepClose(m) /\ UNCHANGED reVars)
  /\ WF_allVars(TimePasses)

-----------------------------------------------------------------------------
(***************************************************************************)
(* "re-enter at most once per origin mint" (config.toml:585): however      *)
(* often a closed position is polled, watched and evaluated, and whatever  *)
(* other positions of its mint do meanwhile, it leads to no more           *)
(* re-entries than the cap.                                                *)
(***************************************************************************)
CappedPerOrigin == \A id \in ClosedIds : injected[id] <= MaxReentries
=============================================================================
