---------------------------- MODULE MonitorTick ----------------------------
(***************************************************************************)
(* The loop of monitor_position (monitoring/mod.rs), one action a turn:    *)
(* what the turns of a position's life decide, from the first price to the *)
(* signal or the promotion that ends the loop.  How signals are answered   *)
(* and what becomes of the tokens is in PositionMonitor; here an answer is *)
(* an input.                                                               *)
(*                                                                         *)
(* Inputs of a turn: the time it took to come, a price or none, whether    *)
(* the developer sold some or all, the tick window, the narrative score,   *)
(* whether a paper path matches, whether the moonbag channel is open.      *)
(***************************************************************************)
EXTENDS Triggers, Sequences, TLC

CONSTANTS
  Prices,         \* bound: the prices a look may find
  Entries,        \* entry prices of a new position; 0 if it was not known
  MaxHold,        \* max_hold_seconds, as the loop has it
  SanityAge,      \* the 10 seconds of the post-fill check
  MinDipDeath,    \* min_hold_before_dip_death
  MaxZeros,       \* MAX_ZERO_PRICES
  MaxFailures,    \* MAX_EXIT_FAILURES
  Stages          \* cto_stage_secs

ASSUME TickAssumption ==
  /\ Prices \subseteq Nat \ {0}
  /\ Entries \subseteq Nat
  /\ {MaxHold, MaxZeros, MaxFailures} \subseteq Nat \ {0}
  /\ {SanityAge, MinDipDeath} \subseteq Nat
  /\ Stages \in Seq(Nat) /\ Stages # << >>
  /\ \A i \in DOMAIN Stages : Stages[i] <= Stages[Len(Stages)]

VARIABLES
  ended,     \* why the loop ended, or None
  pos,       \* age, entry, peak, tp1 and tp2
  dip,       \* the dip machine
  cto,       \* the staged evaluation after the developer sold everything
  evaluated, \* moonbag_eval_done
  zeros,     \* consecutive_zero_prices
  failures,  \* consecutive_exit_failures
  dipAge,    \* history: time since the trailing stop was last looked at
  paused,    \* history: turns that paused it past all patience
  overdue    \* history: turns with a price since the last stage came due

tickVars == <<ended, pos, dip, cto, evaluated, zeros, failures,
              dipAge, paused, overdue>>

\* Bounds: ages and durations count no further than where the last decision
\* that looks at them changes.
AgeCap == 4 * Max({MaxHold, BaseHold})
DipCap == 3 * Max({Grace, NoTrades})
LastStage == Stages[Len(Stages)]
UpTo(cap, n) == Min({cap, n})

NoCto == [state |-> "none", stage |-> 0, for |-> 0]

TickInit ==
  /\ ended = None
  /\ \E e \in Entries :
       pos = [age |-> 0, entry |-> e, peak |-> e, tp1 |-> FALSE, tp2 |-> FALSE]
  /\ dip = NoDip
  /\ cto = NoCto
  /\ evaluated = FALSE
  /\ zeros = 0 /\ failures = 0
  /\ dipAge = 0 /\ paused = 0 /\ overdue = 0

-----------------------------------------------------------------------------
\* The loop sleeps, or waits for an answer.
Pass ==
  /\ ended = None
  /\ pos.age < AgeCap
  /\ pos' = [pos EXCEPT !.age = @ + 1]
  /\ dip' = IF dip.mode = "normal" THEN dip
            ELSE [dip EXCEPT !.for = UpTo(DipCap, @ + 1)]
  /\ cto' = IF cto.state = "on" THEN [cto EXCEPT !.for = UpTo(LastStage, @ + 1)]
            ELSE cto
  /\ dipAge' = IF dip.mode = "normal" THEN 0 ELSE UpTo(DipCap, dipAge + 1)
  /\ UNCHANGED <<ended, evaluated, zeros, failures, paused, overdue>>

Ends(why) == ended' = why
Continues == ended' = None

\* The time stop needs no price.  A refusal or silence is tried again.
HeldTooLong == pos.age >= HoldLimit(pos, MaxHold)

TimeStop ==
  /\ ended = None
  /\ HeldTooLong
  /\ Ends("time_stop") \/ Continues
  /\ UNCHANGED <<pos, dip, cto, evaluated, zeros, failures, dipAge, paused, overdue>>

NoPrice ==
  /\ ended = None
  /\ ~HeldTooLong
  /\ zeros' = zeros + 1
  /\ IF zeros' >= MaxZeros THEN Ends("zero_price_dead") ELSE Continues
  /\ UNCHANGED <<pos, dip, cto, evaluated, failures, dipAge, paused, overdue>>

-----------------------------------------------------------------------------
(* A turn with a price, up to the turn's decision.  An entry price that was *)
(* not known is the first price seen.                                       *)

Seen(p) ==
  IF pos.entry = 0 THEN [pos EXCEPT !.entry = p, !.peak = p]
                   ELSE [pos EXCEPT !.peak = Max({@, p})]

\* What the triggers and the dip machine are given.
State(p) == Seen(p) @@ [price |-> p]

Underwater(p) == pos.age <= SanityAge /\ pos.entry > 0 /\ 2 * p < pos.entry

Look(p) ==
  /\ ended = None
  /\ ~HeldTooLong
  /\ zeros' = 0

PostFillSanity(p) ==
  /\ Look(p)
  /\ Underwater(p)
  /\ Ends("post_fill_sanity")
  /\ UNCHANGED <<pos, dip, cto, evaluated, failures, dipAge, paused, overdue>>

\* The developer sells some of his tokens.
DevDump(p) ==
  /\ Look(p)
  /\ ~Underwater(p)
  /\ pos' = Seen(p)
  /\ Ends("dev_wallet_dumping")
  /\ UNCHANGED <<dip, cto, evaluated, failures, dipAge, paused, overdue>>

\* He sells all of them, from a share that counts: once a position.
Detected ==
  {cto} \cup (IF cto.state = "none" THEN {[NoCto EXCEPT !.state = "on"]} ELSE {})

StageDue(c) == c.state = "on" /\ c.for >= Stages[c.stage + 1]
LastOne(c) == c.stage + 1 = Len(Stages)

\* How the evaluation may end the loop: the price and the momentum decide.
CtoVerdicts(c) ==
  IF c.state # "on" THEN {}
  ELSE {"cto_failed_collapse"} \cup
       IF ~StageDue(c) THEN {}
       ELSE IF LastOne(c) THEN {"cto_failed", "cto_moonbag"}
       ELSE IF c.stage = 1 THEN {"cto_failed_early_kill"} ELSE {}

CtoEnds(p) ==
  /\ Look(p)
  /\ ~Underwater(p)
  /\ pos' = Seen(p)
  /\ cto' \in Detected
  /\ \E verdict \in CtoVerdicts(cto') : Ends(verdict)
  /\ UNCHANGED <<dip, evaluated, failures, dipAge, paused, overdue>>

\* Mutant: the last stage is graded again as long as it is not taken.
NextStageAgain(c) ==
  IF StageDue(c) /\ ~LastOne(c) THEN [c EXCEPT !.stage = @ + 1] ELSE c

\* Otherwise a due stage is passed; after the last one, which goes on only
\* when nobody takes a promotion, the evaluation is over.
NextStage(c) ==
  IF StageDue(c)
    THEN [c EXCEPT !.stage = @ + 1,
                   !.state = IF LastOne(c) THEN "over" ELSE "on"]
    ELSE c

GoesOn(p) ==
  /\ Look(p)
  /\ ~Underwater(p)
  /\ \E c \in Detected : cto' = NextStage(c)
  /\ overdue' = IF cto'.state = "on" /\ cto'.for >= LastStage
                  THEN overdue + 1 ELSE 0

-----------------------------------------------------------------------------
(* The dip machine, the early promotion and the triggers. *)

\* All patience: two and a half times the grace period.
Outlived(age) == 2 * age >= 5 * Grace

\* What the dip machine makes of a price, whatever the tick window holds.
Dips(p) == {EvaluateDip(dip, State(p), r) : r \in Readings}

DipDeath(p, d) ==
  /\ d.action = "exit" /\ pos.age >= MinDipDeath
  /\ pos' = Seen(p)
  /\ dip' = d.dip
  /\ Ends("dip_death")
  /\ dipAge' = 0 /\ paused' = 0
  /\ UNCHANGED <<evaluated, failures>>

Survives(p, d) ==
  /\ d.action = "exit" => pos.age < MinDipDeath
  /\ dip' = d.dip
  /\ LET pauses == d.action = "suppress"
     IN  /\ dipAge' = IF pauses THEN dipAge ELSE 0
         /\ paused' = IF pauses /\ Outlived(dipAge) THEN paused + 1 ELSE 0

\* At the first crossing of the first take-profit a paper path may match.
Crosses(p) == ~evaluated /\ AtLeast(p, Seen(p).entry, Tp1)

PromotedEarly(p) ==
  /\ Crosses(p)
  /\ pos' = Seen(p)
  /\ Ends("moonbag_promoted_early")
  /\ UNCHANGED <<evaluated, failures>>

Holds(p) ==
  /\ pos' = Seen(p)
  /\ ended' = None
  /\ UNCHANGED failures

\* By its score, its speed, or a paper path, instead of the second sale.
PromotedAtTp2(p) ==
  /\ pos' = Seen(p)
  /\ Ends("moonbag_promoted_tp2")
  /\ UNCHANGED failures

Partial == {"TakeProfit1", "TakeProfit2"}

\* The sale is done, refused for good, or given up after too many failures:
\* the loop ends after a full one, and may promote after the first partial.
Settled(p, trigger) ==
  /\ failures' \in {0, failures} \cup (IF failures + 1 >= MaxFailures THEN {MaxFailures} ELSE {})
  /\ pos' = [Seen(p) EXCEPT !.tp1 = @ \/ trigger = "TakeProfit1",
                            !.tp2 = @ \/ trigger = "TakeProfit2"]
  /\ IF trigger \notin Partial THEN Ends(trigger)
     ELSE Continues \/ (trigger = "TakeProfit1" /\ Ends("moonbag_promoted"))

\* Refused for now, or no answer in time: everything is put back.
PutBack(p) ==
  /\ failures' \in {failures} \cup (IF failures + 1 < MaxFailures THEN {failures + 1} ELSE {})
  /\ pos' = Seen(p)
  /\ Continues

Acts(p, trigger) ==
  /\ evaluated' = (evaluated \/ Crosses(p))
  /\ \/ trigger = None /\ Holds(p)
     \/ trigger = "TakeProfit2" /\ PromotedAtTp2(p)
     \/ trigger # None /\ (Settled(p, trigger) \/ PutBack(p))

-----------------------------------------------------------------------------
Decides(p) ==
  /\ GoesOn(p)
  /\ \E d \in Dips(p) :
       \/ DipDeath(p, d)
       \/ Survives(p, d) /\ \/ PromotedEarly(p)
                            \/ Acts(p, CheckTriggers(State(p), d.action = "suppress"))

TickNext ==
  \/ Pass
  \/ TimeStop
  \/ NoPrice
  \/ \E p \in Prices :
       PostFillSanity(p) \/ DevDump(p) \/ CtoEnds(p) \/ Decides(p)

TickSpec == TickInit /\ [][TickNext]_tickVars

-----------------------------------------------------------------------------
(***************************************************************************)
(* "suppressing the trailing stop during a grace period"                   *)
(* (monitoring/tick_stream.rs:243): the pause is bounded.  Once a dip has  *)
(* lasted longer than the longest patience, at most five more looks at the *)
(* price pass before the position is sold or the trailing stop is looked   *)
(* at again, whatever the signs of recovery, the refused exits and the     *)
(* looks without a price in between.                                       *)
(***************************************************************************)
PauseIsBounded == paused <= 5

(***************************************************************************)
(* "CTO staged evaluation (2min / 5min / 10min checkpoints)"               *)
(* (monitoring/mod.rs:1166): after the last checkpoint every look passes   *)
(* one of them, so the evaluation is over, one way or the other, within    *)
(* as many looks as there are stages.                                      *)
(***************************************************************************)
CtoDecided == overdue < Len(Stages)
=============================================================================
