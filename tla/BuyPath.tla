------------------------------ MODULE BuyPath ------------------------------
(***************************************************************************)
(* Concurrent buys over the shared trading state, from the reservation of  *)
(* a mint to the row in `positions`, with the parties that take a position *)
(* out of the state again: the exit engine and the stale sweeper.          *)
(*                                                                         *)
(* A buyer follows the protocol that execution/state.rs documents: it      *)
(* calls try_reserve_for_mint, runs pre_execution_checks_cached and        *)
(* execute_real_trade (which records the buy and then inserts the row),    *)
(* and calls release_reservation on every failure.                         *)
(***************************************************************************)
EXTENDS TradingState, FiniteSetsExt

CONSTANTS
  Buyers,           \* tasks that handle one token event each at a time
  RowIds,           \* bound: ids the open rows of the table can have
  ConfiguredBuy,    \* buy_amount_sol, the size the checks assume
  MaxOpenPositions, \* max_open_positions
  MaxExposure,      \* max_portfolio_exposure_sol
  DailyLossLimit,   \* daily_loss_limit_sol
  HydrationMayFail, \* whether the startup query may fail, now or in an earlier
                    \* run, which can leave a mint with several open rows
  Results,          \* what an exit may add to the daily profit and loss
  PnlBound          \* bound: no exit is booked past this profit or loss

ASSUME BuyAssumption ==
  /\ ConfiguredBuy \in Nat
  /\ MaxOpenPositions \in Nat
  /\ MaxExposure \in Nat
  /\ DailyLossLimit \in Nat
  /\ HydrationMayFail \in BOOLEAN
  /\ Results \subseteq Int
  /\ PnlBound \in Nat
  /\ None \notin Mints
  /\ IsFiniteSet(Mints) /\ IsFiniteSet(Buyers) /\ IsFiniteSet(RowIds)

VARIABLES
  rows,        \* the open rows of the `positions` table
  toHydrate,   \* rows the startup query returned and the loop has not seen
  running,     \* hydration is over and the engines run
  buyer,       \* each buyer's local state
  sweepList,   \* mints the sweeper read as stale and has not closed yet
  sinceClosed, \* history: age of each mint's last close, never pruned
  leaked       \* history: SOL recorded as spent whose row was not inserted,
               \* kept while the sweeper is off

buyVars == <<rows, toHydrate, running, buyer, sweepList, sinceClosed, leaked>>
vars == <<tsVars, buyVars>>

-----------------------------------------------------------------------------
Row == [id : RowIds, mint : Mints, size : Amounts]

Idle == [pc |-> "idle", mint |-> None, size |-> 0, ok |-> TRUE]

Steps == {"idle", "count", "exposure", "pnl", "trade", "insert"}

\* A buyer holds its reservation from the grant until the buy is recorded.
Holds(b, m) == buyer[b].mint = m /\ buyer[b].pc \notin {"idle", "insert"}
Inserting(b, m) == buyer[b].mint = m /\ buyer[b].pc = "insert"

HasRow(m) == \E row \in rows : row.mint = m
Backed(m) == HasRow(m) \/ \E b \in Buyers : Inserting(b, m)

At(b, pc) == running /\ buyer[b].pc = pc

Goto(b, pc) == buyer' = [buyer EXCEPT ![b].pc = pc]
Check(b, passed, pc) ==
  buyer' = [buyer EXCEPT ![b].pc = pc, ![b].ok = @ /\ passed]
Finish(b) == buyer' = [buyer EXCEPT ![b] = Idle]

-----------------------------------------------------------------------------
(* Startup: hydrate_from_supabase holds the lock and no engine runs yet.   *)
(* A failed query and an empty table look alike.                           *)

Init ==
  /\ New
  /\ rows \in {table \in SUBSET Row :
                \A r, s \in table :
                  r.id = s.id \/ (r.mint = s.mint /\ ~HydrationMayFail)
                    => r = s}
  /\ toHydrate \in {rows} \cup IF HydrationMayFail THEN {{}} ELSE {}
  /\ running = FALSE
  /\ buyer = [b \in Buyers |-> Idle]
  /\ sweepList = {}
  /\ sinceClosed = [m \in Mints |-> None]
  /\ leaked = 0

Hydrate(row) ==
  /\ row \in toHydrate
  /\ HydrateRow(row.mint, row.size)
  /\ toHydrate' = toHydrate \ {row}
  /\ UNCHANGED <<rows, running, buyer, sweepList, sinceClosed, leaked>>

FinishHydration(pnl) ==
  /\ ~running
  /\ toHydrate = {}
  /\ HydratePnl(pnl)
  /\ running' = TRUE
  /\ UNCHANGED <<rows, toHydrate, buyer, sweepList, sinceClosed, leaked>>

-----------------------------------------------------------------------------
(* The buyers. *)

Reserve(b, m, bypassCooldown, size) ==
  /\ At(b, "idle")
  /\ TryReserve(m, bypassCooldown)
  /\ buyer' = [buyer EXCEPT ![b] = [pc |-> "count", mint |-> m,
                                    size |-> size, ok |-> TRUE]]
  /\ UNCHANGED <<rows, toHydrate, running, sweepList, sinceClosed, leaked>>

\* Mutant: the cap is compared with <=.
CheckOpenCountInclusive(b) ==
  /\ At(b, "count")
  /\ Check(b, Cardinality(openMints) <= MaxOpenPositions, "exposure")
  /\ UNCHANGED <<tsVars, rows, toHydrate, running, sweepList, sinceClosed,
                 leaked>>

\* The three reads of pre_execution_checks_cached are three lock
\* acquisitions, all made before the first check is evaluated.
CheckOpenCount(b) ==
  /\ At(b, "count")
  /\ Check(b, Cardinality(openMints) < MaxOpenPositions, "exposure")
  /\ UNCHANGED <<tsVars, rows, toHydrate, running, sweepList, sinceClosed,
                 leaked>>

\* A NaN exposure passes: NaN > cap is false.
CheckExposure(b) ==
  /\ At(b, "exposure")
  /\ Check(b, exposure = NaN \/ exposure + ConfiguredBuy <= MaxExposure, "pnl")
  /\ UNCHANGED <<tsVars, rows, toHydrate, running, sweepList, sinceClosed,
                 leaked>>

CheckDailyPnl(b) ==
  /\ At(b, "pnl")
  /\ ReadTodayPnl
  /\ Check(b, todayPnl' > -DailyLossLimit, "trade")
  /\ UNCHANGED <<rows, toHydrate, running, sweepList, sinceClosed, leaked>>

\* Mutant: a failure path that forgets the reservation.
AbortWithoutRelease(b) ==
  /\ At(b, "trade")
  /\ Finish(b)
  /\ UNCHANGED <<tsVars, rows, toHydrate, running, sweepList, sinceClosed,
                 leaked>>

\* A failed check; a failed quote, balance read or swap; a confirmation
\* that timed out.
Abort(b) ==
  /\ At(b, "trade")
  /\ ReleaseReservation(buyer[b].mint)
  /\ Finish(b)
  /\ UNCHANGED <<rows, toHydrate, running, sweepList, sinceClosed, leaked>>

\* The swap is confirmed: the state is updated before the row exists.
Buy(b) ==
  /\ At(b, "trade")
  /\ buyer[b].ok
  /\ RecordBuy(buyer[b].mint, buyer[b].size)
  /\ Goto(b, "insert")
  /\ UNCHANGED <<rows, toHydrate, running, sweepList, sinceClosed, leaked>>

InsertRow(b, id) ==
  /\ At(b, "insert")
  /\ \A row \in rows : row.id # id
  /\ rows' = rows \cup {[id |-> id, mint |-> buyer[b].mint,
                         size |-> buyer[b].size]}
  /\ Finish(b)
  /\ UNCHANGED <<tsVars, toHydrate, running, sweepList, sinceClosed, leaked>>

\* insert_position's error leaves through `?`: the buy stays recorded and
\* the caller's failure path releases a reservation that is already gone.
InsertFails(b) ==
  /\ At(b, "insert")
  /\ ReleaseReservation(buyer[b].mint)
  /\ Finish(b)
  /\ leaked' = IF StaleTimeout = 0 THEN leaked + buyer[b].size ELSE 0
  /\ UNCHANGED <<rows, toHydrate, running, sweepList, sinceClosed>>

-----------------------------------------------------------------------------
(* Those who close: the exit engine on a confirmed sell, the sweeper. *)

ExitPosition(row, pnl, isFullExit) ==
  /\ running
  /\ row \in rows
  /\ todayPnl + pnl \in -PnlBound .. PnlBound
  /\ RecordExit(row.mint, row.size, pnl, isFullExit)
  /\ IF isFullExit
     THEN /\ rows' = rows \ {row}
          /\ sinceClosed' = [sinceClosed EXCEPT ![row.mint] = 0]
     ELSE UNCHANGED <<rows, sinceClosed>>
  /\ UNCHANGED <<toHydrate, running, buyer, sweepList, leaked>>

\* A timeout of zero disables the sweeper.
SweepRead ==
  /\ running
  /\ StaleTimeout > 0
  /\ sweepList = {}
  /\ sweepList' = StaleMints
  /\ UNCHANGED <<tsVars, rows, toHydrate, running, buyer, sinceClosed, leaked>>

\* One turn of the loop, which awaits an HTTP request before the next one.
\* The slot is freed at the configured size and the row is left as it is.
SweepClose(m) ==
  /\ m \in sweepList
  /\ sweepList' = sweepList \ {m}
  /\ ForceClose(m, ConfiguredBuy)
  /\ sinceClosed' = IF m \in openMints THEN [sinceClosed EXCEPT ![m] = 0]
                                       ELSE sinceClosed
  /\ UNCHANGED <<rows, toHydrate, running, buyer, leaked>>

Clock ==
  /\ running
  /\ Tick
  /\ sinceClosed' = [m \in Mints |-> Older(sinceClosed[m])]
  /\ UNCHANGED <<rows, toHydrate, running, buyer, sweepList, leaked>>

NewDay ==
  /\ running
  /\ Midnight
  /\ UNCHANGED buyVars

-----------------------------------------------------------------------------
Startup == \/ \E row \in Row : Hydrate(row)
           \/ \E pnl \in Results : FinishHydration(pnl)

\* What a buyer that holds a reservation does next, whatever the outcome.
Proceed(b) ==
  \/ CheckOpenCount(b)
  \/ CheckExposure(b)
  \/ CheckDailyPnl(b)
  \/ Abort(b)
  \/ Buy(b)
  \/ \E id \in RowIds : InsertRow(b, id)
  \/ InsertFails(b)

Next ==
  \/ Startup
  \/ \E b \in Buyers, m \in Mints, bypass \in BOOLEAN, size \in Amounts :
       Reserve(b, m, bypass, size)
  \/ \E b \in Buyers : Proceed(b)
  \/ \E row \in Row, pnl \in Results, full \in BOOLEAN :
       ExitPosition(row, pnl, full)
  \/ SweepRead
  \/ \E m \in Mints : SweepClose(m)
  \/ Clock
  \/ NewDay

Spec == Init /\ [][Next]_vars

\* Buyers, clock and sweeper run on; nobody is obliged to buy or to sell.
FairSpec ==
  /\ Spec
  /\ WF_vars(Startup)
  /\ \A b \in Buyers : WF_vars(Proceed(b))
  /\ WF_vars(SweepRead)
  /\ \A m \in Mints : WF_vars(SweepClose(m))
  /\ WF_vars(Clock)

-----------------------------------------------------------------------------
(***************************************************************************)
(* Types, with the bookkeeping of rows and startup: the loop only has rows *)
(* of the table left to load and is over before any engine runs, and a     *)
(* buyer has a mint and a size exactly while it is at work.                *)
(***************************************************************************)
TypeOK ==
  /\ TSTypeOK
  /\ rows \in SUBSET Row
  /\ toHydrate \in SUBSET Row
  /\ running \in BOOLEAN
  /\ running => toHydrate = {}
  /\ buyer \in [Buyers -> [pc : Steps, mint : Mints \cup {None},
                           size : Amounts \cup {0}, ok : BOOLEAN]]
  /\ \A b \in Buyers :
       IF buyer[b].pc = "idle" THEN buyer[b] = Idle
       ELSE buyer[b].mint \in Mints /\ buyer[b].size \in Amounts
  /\ sweepList \in SUBSET Mints
  /\ sinceClosed \in [Mints -> Ages \cup {None}]
  /\ leaked \in Nat

(***************************************************************************)
(* The reservation is exclusive (execution/state.rs:37-40 and 188-207): no *)
(* two buys of one mint are ever in flight together, none is in flight for *)
(* a mint the state counts as open, and a buy in flight has its mark.      *)
(***************************************************************************)
ReservationExclusive ==
  \A m \in Mints, b \in Buyers :
    Holds(b, m) => /\ m \in pendingMints
                   /\ m \notin openMints
                   /\ \A c \in Buyers : Holds(c, m) => b = c

(***************************************************************************)
(* A reservation never outlives its buyer: a pending mint is always one    *)
(* that some buyer holds, so no mint is locked out of trading for good.    *)
(***************************************************************************)
NoOrphanReservation ==
  \A m \in pendingMints : \E b \in Buyers : Holds(b, m)

\* Positions of an earlier run are not held to the caps of this one.
Inherited == \E m \in openMints : openSince[m] = None

(***************************************************************************)
(* Buys in flight are not counted by the open-position check, so the cap   *)
(* can be passed, but only by the buyers that checked at the same time.    *)
(***************************************************************************)
OpenWithinSlack ==
  Inherited \/ Cardinality(openMints) <=
                  MaxOpenPositions + Cardinality(Buyers) - 1

(***************************************************************************)
(* The counter is "Total SOL exposure across all open positions"           *)
(* (execution/state.rs:25): what the open rows cost, plus the buys whose   *)
(* row is being inserted, plus the buys whose insert failed.  Every path   *)
(* that adds to or takes from it has to use the same amount.               *)
(***************************************************************************)
RowSize(row) == row.size
InFlight(b) == IF buyer[b].pc = "insert" THEN buyer[b].size ELSE 0

ExposureIsSumOfOpen ==
  running =>
    exposure = MapThenSumSet(RowSize, rows) + MapThenSumSet(InFlight, Buyers)
                 + leaked

(***************************************************************************)
(* A mint closed less than the cooldown ago is not reserved again unless   *)
(* the caller bypasses the cooldown (REBUY_COOLDOWN_SECS): pruning the map *)
(* of recent exits never forgets an exit that still counts.                *)
(***************************************************************************)
CooldownKept ==
  \A m \in Mints : sinceClosed[m] # None /\ sinceClosed[m] < Cooldown
                     => HasPosition(m)

(***************************************************************************)
(* "Force-close any position still in TradingState after 1,200 seconds"    *)
(* (ARCHITECTURE.md:680): the sweeper closes no mint that has not been     *)
(* open that long.                                                         *)
(***************************************************************************)
SweepsOnlyStale ==
  [][\A m \in Mints : SweepClose(m) /\ m \in openMints => m \in StaleMints]_vars

(***************************************************************************)
(* A slot whose buy was recorded but whose row was never inserted has no   *)
(* monitor and no exit (execution/mod.rs:937 and 977); the sweeper frees   *)
(* it in the end.                                                          *)
(***************************************************************************)
LeakedSlotFreed ==
  \A m \in Mints :
    (m \in openMints /\ ~Backed(m)) ~> (m \notin openMints \/ Backed(m))
=============================================================================
