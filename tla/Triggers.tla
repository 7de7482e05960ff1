------------------------------ MODULE Triggers ------------------------------
(***************************************************************************)
(* What a look at the price of a position decides: the exit triggers       *)
(* (monitoring/triggers.rs) and the machine that tells a dip from a death  *)
(* (evaluate_dip, monitoring/tick_stream.rs).  Pure operators.             *)
(*                                                                         *)
(* Prices are in tenths of the usual entry price and multiples of the      *)
(* entry in tenths; times are in units of the instance.  A position in a   *)
(* shallow pool runs with constants of its own (the low_liq settings).     *)
(***************************************************************************)
EXTENDS Integers, FiniteSetsExt

CONSTANTS
  None,
  BaseHold,         \* max_hold_seconds, or low_liq_max_hold_seconds
  Tp1, Tp2, Tp3,    \* tp*_multiplier, tenths
  StopLoss,         \* stop_loss_pct
  NeverUpStop,      \* never_profitable_stop_loss_pct
  NeverUpAge,       \* never_profitable_grace_secs
  KillAge,          \* momentum_kill_secs
  KillBelow,        \* momentum_kill_min_multiplier, tenths
  Trail, TrailMin,  \* trailing_stop_pct, trailing_stop_min_multiplier (tenths)
  TrailTp1, TrailTp2, \* trailing_stop_post_tp1_pct, trailing_stop_post_tp2_pct
  DipThreshold,     \* dip_threshold_pct
  Grace,            \* dip_grace_period_secs
  NoTrades,         \* dip_no_trades_timeout_secs
  YoungAge, MidAge  \* 90 and 180 seconds

ASSUME TriggerAssumption ==
  /\ {BaseHold, Grace, NoTrades, YoungAge, MidAge} \subseteq Nat \ {0}
  /\ YoungAge <= MidAge
  /\ Tp1 > 10 /\ Tp1 < Tp2 /\ Tp2 < Tp3
  /\ {StopLoss, NeverUpStop, Trail, TrailTp1, TrailTp2, DipThreshold} \subseteq 0 .. 100

-----------------------------------------------------------------------------
(* A position is a record of age, entry, price, peak, tp1 and tp2. *)

\* The price is at least pct percent below the peak.
Fallen(pos, pct) == 100 * (pos.peak - pos.price) >= pct * pos.peak
AtLeast(price, entry, tenths) == 10 * price >= entry * tenths

HoldLimit(pos, base) == base * (IF pos.tp2 THEN 4 ELSE IF pos.tp1 THEN 2 ELSE 1)

\* Before the first take-profit the stop hangs on the entry, after it on the
\* peak: first at half of it, then at two fifths.
StopHit(pos) ==
  LET neverUp == pos.peak < pos.entry /\ pos.age >= NeverUpAge
      stop    == IF neverUp /\ NeverUpStop > 0 THEN NeverUpStop ELSE StopLoss
  IN  IF (pos.tp1 \/ pos.tp2) /\ pos.peak > pos.entry
        THEN Fallen(pos, IF pos.tp2 THEN 60 ELSE 50)
        ELSE 100 * pos.price <= pos.entry * (100 - stop)

MomentumKill(pos) ==
  /\ KillAge > 0 /\ pos.age >= KillAge
  /\ ~pos.tp1
  /\ ~AtLeast(pos.peak, pos.entry, 15)
  /\ ~AtLeast(pos.price, pos.entry, KillBelow)

\* The higher the peak, the wider the trailing stop.
TrailPct(pos) ==
  IF pos.tp2 THEN TrailTp2
  ELSE IF AtLeast(pos.peak, pos.entry, 50) THEN 35
  ELSE IF AtLeast(pos.peak, pos.entry, 30) THEN IF pos.tp1 THEN 28 ELSE 30
  ELSE IF AtLeast(pos.peak, pos.entry, 20) THEN IF pos.tp1 THEN 22 ELSE 25
  ELSE IF pos.tp1 THEN TrailTp1 ELSE Trail

TrailingStop(pos) ==
  /\ AtLeast(pos.peak, pos.entry, IF pos.tp1 THEN 10 ELSE TrailMin)
  /\ Fallen(pos, TrailPct(pos))
  /\ ~(pos.tp1 /\ pos.price < pos.entry)

\* The trigger that fires, the first of this order, or None.
Order == <<"TimeStop", "StopLoss", "MomentumKill", "TrailingStop",
           "TakeProfit3", "TakeProfit2", "TakeProfit1">>

CheckTriggers(pos, suppressed) ==
  LET due == [TimeStop     |-> pos.age >= HoldLimit(pos, BaseHold),
              StopLoss     |-> StopHit(pos),
              MomentumKill |-> MomentumKill(pos),
              TrailingStop |-> ~suppressed /\ TrailingStop(pos),
              TakeProfit3  |-> pos.tp1 /\ pos.tp2 /\ AtLeast(pos.price, pos.entry, Tp3),
              TakeProfit2  |-> pos.tp1 /\ ~pos.tp2 /\ AtLeast(pos.price, pos.entry, Tp2),
              TakeProfit1  |-> ~pos.tp1 /\ AtLeast(pos.price, pos.entry, Tp1)]
      fired == {i \in DOMAIN Order : due[Order[i]]}
  IN  IF fired = {} THEN None ELSE Order[Min(fired)]

-----------------------------------------------------------------------------
(* The dip machine: its mode, for how long the dip has lasted, and how many *)
(* soft signs of death were counted.  A reading of the tick window is a     *)
(* record: kill (a whale sold, or sells accelerate), silent (no trades),    *)
(* signals (signs of recovery, none, one or more) and weak (momentum below   *)
(* 0.4); next to a kill nothing else is looked at.                          *)

NoDip == [mode |-> "normal", for |-> 0, soft |-> 0]

Readings ==
  {r \in [kill : BOOLEAN, silent : BOOLEAN, signals : 0 .. 2, weak : BOOLEAN] :
     /\ r.kill => ~r.silent /\ r.signals = 0 /\ ~r.weak
     /\ r.silent => r.signals <= 1 /\ ~r.weak}

\* Young tokens get two and a half times, then one and a half times as long;
\* counted in halves.
Patience(base, age) ==
  base * (IF age < YoungAge THEN 5 ELSE IF age < MidAge THEN 3 ELSE 2)

Suppressed(dip) == [dip |-> dip, action |-> "suppress"]
Over(action)    == [dip |-> NoDip, action |-> action]

\* Mutant: the signs are looked for and never counted.
SoftSignForgotten(dip) ==
  IF dip.soft >= 2 THEN Over("exit") ELSE Suppressed(dip)

\* Counts one more sign; the third one kills.
SoftSign(dip) ==
  IF dip.soft >= 2 THEN Over("exit") ELSE Suppressed([dip EXCEPT !.soft = @ + 1])

\* The grace period is over.  In profit, one sign of recovery is enough.
Expired(dip, r, inProfit) ==
  IF inProfit /\ r.signals >= 1
    THEN Suppressed([dip EXCEPT !.mode = "recovering"])
    ELSE SoftSign(dip)

DipWatch(dip, r, age, inProfit) ==
  LET dead    == r.silent /\ 2 * dip.for > Patience(NoTrades, age) /\ ~inProfit
      counted == IF dead THEN SoftSign(dip) ELSE Suppressed(dip)
  IN  IF r.kill \/ counted.action = "exit" THEN Over("exit")
      ELSE IF r.signals >= 2
        THEN Suppressed([dip EXCEPT !.mode = "recovering", !.soft = 0])
      ELSE IF 2 * dip.for >= Patience(Grace, age)
        THEN Expired(counted.dip, r, inProfit)
      ELSE counted

Recovering(dip, pos, r) ==
  IF 200 * (pos.peak - pos.price) < DipThreshold * pos.peak THEN Over("normal")
  ELSE IF r.kill THEN Over("exit")
  ELSE IF dip.for < 2 * Grace THEN Suppressed(dip)
  ELSE IF r.weak THEN SoftSign(dip)
  ELSE Over("normal")

EvaluateDip(dip, pos, r) ==
  LET inProfit == 10 * pos.price > 11 * pos.entry
  IN  CASE dip.mode = "normal" ->
             IF Fallen(pos, DipThreshold)
               THEN Suppressed([NoDip EXCEPT !.mode = "watch"]) ELSE Over("normal")
        [] dip.mode = "watch" -> DipWatch(dip, r, pos.age, inProfit)
        [] dip.mode = "recovering" -> Recovering(dip, pos, r)
=============================================================================
