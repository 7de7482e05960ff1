---------------------------- MODULE TradingState ----------------------------
(***************************************************************************)
(* The in-memory trading state shared by the buy path, the exit engine and *)
(* the position monitors (execution/state.rs).  Every method takes the one *)
(* RwLock for its whole body, so every method is one atomic action here.   *)
(*                                                                         *)
(* SOL amounts are integers of an arbitrary unit.  An f64 amount can also  *)
(* be NaN, which arithmetic propagates and every comparison refuses, so    *)
(* the exposure ranges over Nat and NaN.  An Instant is modelled by its    *)
(* age, which stops growing at AgeCap: the code compares ages only with    *)
(* thresholds below the cap.                                               *)
(***************************************************************************)
EXTENDS Integers, FiniteSets

CONSTANTS
  Mints,        \* token mints
  Devs,         \* developer wallets
  Amounts,      \* SOL sizes and results a caller may report
  Cooldown,     \* REBUY_COOLDOWN_SECS, in clock ticks
  StaleTimeout, \* stale_position_timeout_secs, in clock ticks
  AgeCap,       \* ages are not told apart from here on
  NaN,          \* the f64 that is not a number
  None          \* no entry in a map

ASSUME TSAssumption ==
  /\ Amounts \subseteq Nat
  /\ Cooldown \in Nat \ {0}
  /\ StaleTimeout \in Nat
  /\ AgeCap \in Nat
  /\ AgeCap > StaleTimeout
  /\ AgeCap >= 2 * Cooldown
  /\ NaN \notin Int
  /\ None \notin Int

VARIABLES
  openMints,      \* mints with an open or partial position
  openSince,      \* age of each open mint's entry, None without one
  exposure,       \* total_exposure_sol
  todayPnl,       \* today_pnl_sol
  rolledOver,     \* pnl_date is not the current date
  recentlyExited, \* age of each mint's last recorded exit, or None
  pendingMints,   \* mints reserved for a buy in flight
  blacklistedDevs \* developer wallets never to buy from again

tsVars == <<openMints, openSince, exposure, todayPnl, rolledOver,
            recentlyExited, pendingMints, blacklistedDevs>>

-----------------------------------------------------------------------------
(* f64 arithmetic and ages. *)

Sub(a, b) == IF a = NaN \/ b = NaN THEN NaN ELSE a - b
Plus(a, b) == IF a = NaN \/ b = NaN THEN NaN ELSE a + b

\* `x -= sol; if x < 0.0 { x = 0.0 }`: NaN < 0.0 is false, so NaN stays.
Released(x, sol) ==
  LET left == Sub(x, sol) IN
  IF left # NaN /\ left < 0 THEN 0 ELSE left

Older(age) == IF age = None \/ age = AgeCap THEN age ELSE age + 1

InCooldown(m) == recentlyExited[m] # None /\ recentlyExited[m] < Cooldown

\* has_position_for_mint: what a buyer that does not reserve can see.
HasPosition(m) == m \in openMints \/ m \in pendingMints \/ InCooldown(m)

\* stale_mints(max_age): only mints with an open_since entry are listed.
StaleMints == {m \in Mints : openSince[m] # None /\ openSince[m] > StaleTimeout}

\* Mutant: prunes entries that still count.
PrunedEarly(exited) ==
  [m \in Mints |-> IF exited[m] # None /\ exited[m] + 1 < Cooldown
                   THEN exited[m] ELSE None]

\* The entries record_exit keeps: those younger than twice the cooldown.
Pruned(exited) ==
  [m \in Mints |-> IF exited[m] # None /\ exited[m] < 2 * Cooldown
                   THEN exited[m] ELSE None]

-----------------------------------------------------------------------------
(* One action per method. *)

\* Mutant: the check of the open mints alone.
TryReserveIfNotOpen(m, bypassCooldown) ==
  /\ m \notin openMints
  /\ bypassCooldown \/ ~InCooldown(m)
  /\ pendingMints' = pendingMints \cup {m}
  /\ UNCHANGED <<openMints, openSince, exposure, todayPnl, rolledOver,
                 recentlyExited, blacklistedDevs>>

TryReserve(m, bypassCooldown) ==
  /\ m \notin openMints
  /\ m \notin pendingMints
  /\ bypassCooldown \/ ~InCooldown(m)
  /\ pendingMints' = pendingMints \cup {m}
  /\ UNCHANGED <<openMints, openSince, exposure, todayPnl, rolledOver,
                 recentlyExited, blacklistedDevs>>

ReleaseReservation(m) ==
  /\ pendingMints' = pendingMints \ {m}
  /\ UNCHANGED <<openMints, openSince, exposure, todayPnl, rolledOver,
                 recentlyExited, blacklistedDevs>>

\* Mutant: no open_since entry.
RecordBuyWithoutAge(m, sol) ==
  /\ pendingMints' = pendingMints \ {m}
  /\ openMints' = openMints \cup {m}
  /\ exposure' = Plus(exposure, sol)
  /\ UNCHANGED <<openSince, todayPnl, rolledOver, recentlyExited,
                 blacklistedDevs>>

RecordBuy(m, sol) ==
  /\ pendingMints' = pendingMints \ {m}
  /\ openMints' = openMints \cup {m}
  /\ openSince' = [openSince EXCEPT ![m] = 0]
  /\ exposure' = Plus(exposure, sol)
  /\ UNCHANGED <<todayPnl, rolledOver, recentlyExited, blacklistedDevs>>

\* The profit and loss of a new day starts from zero.
BookPnl(pnl) ==
  /\ todayPnl' = (IF rolledOver THEN 0 ELSE todayPnl) + pnl
  /\ rolledOver' = FALSE

\* Mutant: the open_since entry stays.
RecordExitKeepingAge(m, sol, pnl, isFullExit) ==
  /\ IF isFullExit
     THEN /\ openMints' = openMints \ {m}
          /\ exposure' = Released(exposure, sol)
          /\ recentlyExited' = Pruned([recentlyExited EXCEPT ![m] = 0])
     ELSE UNCHANGED <<openMints, exposure, recentlyExited>>
  /\ BookPnl(pnl)
  /\ UNCHANGED <<openSince, pendingMints, blacklistedDevs>>

\* Mutant: a partial exit frees the exposure too.
RecordExitFreeingPartial(m, sol, pnl, isFullExit) ==
  /\ IF isFullExit
     THEN /\ openMints' = openMints \ {m}
          /\ openSince' = [openSince EXCEPT ![m] = None]
          /\ recentlyExited' = Pruned([recentlyExited EXCEPT ![m] = 0])
     ELSE UNCHANGED <<openMints, openSince, recentlyExited>>
  /\ exposure' = Released(exposure, sol)
  /\ BookPnl(pnl)
  /\ UNCHANGED <<pendingMints, blacklistedDevs>>

\* A full exit frees the exposure whether or not the mint was still open.
RecordExit(m, sol, pnl, isFullExit) ==
  /\ IF isFullExit
     THEN /\ openMints' = openMints \ {m}
          /\ openSince' = [openSince EXCEPT ![m] = None]
          /\ exposure' = Released(exposure, sol)
          /\ recentlyExited' = Pruned([recentlyExited EXCEPT ![m] = 0])
     ELSE UNCHANGED <<openMints, openSince, exposure, recentlyExited>>
  /\ BookPnl(pnl)
  /\ UNCHANGED <<pendingMints, blacklistedDevs>>

ForceClose(m, sol) ==
  /\ IF m \in openMints
     THEN /\ openMints' = openMints \ {m}
          /\ openSince' = [openSince EXCEPT ![m] = None]
          /\ exposure' = Released(exposure, sol)
          /\ recentlyExited' = [recentlyExited EXCEPT ![m] = 0]
     ELSE UNCHANGED <<openMints, openSince, exposure, recentlyExited>>
  /\ UNCHANGED <<todayPnl, rolledOver, pendingMints, blacklistedDevs>>

\* today_pnl resets the counter when it finds the date changed.
ReadTodayPnl ==
  /\ BookPnl(0)
  /\ UNCHANGED <<openMints, openSince, exposure, recentlyExited,
                 pendingMints, blacklistedDevs>>

BlacklistDev(d) ==
  /\ blacklistedDevs' = blacklistedDevs \cup {d}
  /\ UNCHANGED <<openMints, openSince, exposure, todayPnl, rolledOver,
                 recentlyExited, pendingMints>>

-----------------------------------------------------------------------------
(* Startup: hydrate_from_supabase, before any engine runs. *)

New ==
  /\ openMints = {}
  /\ openSince = [m \in Mints |-> None]
  /\ exposure = 0
  /\ todayPnl = 0
  /\ rolledOver = FALSE
  /\ recentlyExited = [m \in Mints |-> None]
  /\ pendingMints = {}
  /\ blacklistedDevs = {}

\* One row of the positions table: open, but with no open_since entry.
HydrateRow(m, sol) ==
  /\ openMints' = openMints \cup {m}
  /\ exposure' = Plus(exposure, sol)
  /\ UNCHANGED <<openSince, todayPnl, rolledOver, recentlyExited,
                 pendingMints, blacklistedDevs>>

HydratePnl(pnl) ==
  /\ todayPnl' = pnl
  /\ rolledOver' = FALSE
  /\ UNCHANGED <<openMints, openSince, exposure, recentlyExited,
                 pendingMints, blacklistedDevs>>

-----------------------------------------------------------------------------
(* The environment: the clock and the calendar. *)

Tick ==
  /\ openSince' = [m \in Mints |-> Older(openSince[m])]
  /\ recentlyExited' = [m \in Mints |-> Older(recentlyExited[m])]
  /\ UNCHANGED <<openMints, exposure, todayPnl, rolledOver, pendingMints,
                 blacklistedDevs>>

Midnight ==
  /\ rolledOver' = TRUE
  /\ UNCHANGED <<openMints, openSince, exposure, todayPnl, recentlyExited,
                 pendingMints, blacklistedDevs>>

-----------------------------------------------------------------------------
Ages == 0 .. AgeCap

(***************************************************************************)
(* Types, with the relation between the two records of an open position:   *)
(* only an open mint has an age the stale sweeper can read (record_buy     *)
(* adds both, every close removes both).                                   *)
(***************************************************************************)
TSTypeOK ==
  /\ openMints \in SUBSET Mints
  /\ openSince \in [Mints -> Ages \cup {None}]
  /\ \A m \in Mints : openSince[m] # None => m \in openMints
  /\ exposure \in Nat \cup {NaN}
  /\ todayPnl \in Int
  /\ rolledOver \in BOOLEAN
  /\ recentlyExited \in [Mints -> Ages \cup {None}]
  /\ pendingMints \in SUBSET Mints
  /\ blacklistedDevs \in SUBSET Devs
=============================================================================
