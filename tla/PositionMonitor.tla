--------------------------- MODULE PositionMonitor ---------------------------
(***************************************************************************)
(* The position monitors (monitoring/mod.rs, monitor_position) over the    *)
(* exit engine: one task per position that fires exits, waits for their    *)
(* answers and keeps a tally of the tokens and of the cost that are left.  *)
(*                                                                         *)
(* Prices, momentum and narratives are choices: any trigger that its flags *)
(* allow may fire at any tick.  A take-profit sells half.  Events says     *)
(* what an instance admits beside triggers and the time stop:              *)
(*   "watchers"  full exits sent by the chain watchers and by the post-buy *)
(*               verification, which do not tell the monitor               *)
(*   "fire"      exits after whose signal the monitor stops unanswered     *)
(*   "promote"   a position handed to the moonbag tracker                  *)
(*   "slow"      an answer later than the 120 s a monitor waits            *)
(***************************************************************************)
EXTENDS ExitEngine

CONSTANTS
  MaxFailures, \* MAX_EXIT_FAILURES
  Events       \* see above

ASSUME MonitorAssumption == MaxFailures \in Nat \ {0}

VARIABLES
  mon,     \* each position's monitor
  givenUp, \* history: positions with an exit given up for good
  misled   \* history: positions whose monitor may read another exit's answer

monVars == <<mon, givenUp, misled>>
allVars == <<vars, monVars>>

-----------------------------------------------------------------------------
\* sent: remaining_token_amount and the reason as they were when the exit
\* that is awaited was sent (tokens_for_signal, signal_reason_clone).
Watching == [pc |-> "watch", flags |-> {}, tokens |-> Lot, cost |-> Cost,
             failures |-> 0, asked |-> 0, reason |-> "Protective"]

MonInit ==
  /\ Init
  /\ mon = [m \in Mints |-> Watching]
  /\ givenUp = {}
  /\ misled = {}

All(reason) == reason \in {"TakeProfit3", "Protective"}

ExitSignal(m, reason, cost) ==
  [mint |-> m, amount |-> mon[m].tokens, all |-> All(reason),
   reason |-> reason, cost |-> cost]

\* x *= 1 - pct and x /= 1 - pct, where pct is all or half: 0 / 0 is NaN.
Reduced(x, reason) ==
  IF x = NaN THEN NaN ELSE IF All(reason) THEN 0 ELSE x \div 2
Restored(x, reason) == IF x = NaN \/ All(reason) THEN NaN ELSE 2 * x

\* Mutant: the tally is added to, not put back.
PutBackAdding(k, reason) ==
  [k EXCEPT !.pc = "watch", !.tokens = @ + k.asked,
            !.cost = Restored(@, k.reason), !.flags = @ \ {reason}]

\* Mutant: the tally stays reduced.
PutBackFlagOnly(k, reason) ==
  [k EXCEPT !.pc = "watch", !.flags = @ \ {reason}]

\* An exit to be fired again: the tally goes back to what it was.
PutBack(k, reason) ==
  [k EXCEPT !.pc = "watch", !.tokens = k.asked,
            !.cost = Restored(@, k.reason), !.flags = @ \ {reason}]

-----------------------------------------------------------------------------
(* Exits that are waited for. *)

\* Which reasons check_triggers may give.
Triggers(m) ==
  {"Protective"} \cup
  (IF "TakeProfit1" \notin mon[m].flags THEN {"TakeProfit1"}
   ELSE IF "TakeProfit2" \notin mon[m].flags THEN {"TakeProfit2"}
   ELSE {"TakeProfit3"})

\* Bound: tallies are whole; the code's are floating-point numbers.
Divisible(m) == mon[m].tokens % 2 = 0 /\ (mon[m].cost # NaN => mon[m].cost % 2 = 0)

\* Mutant: the signal carries what the tally will be.
TriggerAfterReducing(m, reason) ==
  LET left == Reduced(mon[m].tokens, reason) IN
  /\ mon[m].pc = "watch"
  /\ reason \in Triggers(m)
  /\ All(reason) \/ Divisible(m)
  /\ SendSignal([ExitSignal(m, reason, Cost) EXCEPT !.amount = left])
  /\ mon' = [mon EXCEPT ![m].pc = "wait",
                        ![m].flags = @ \cup ({reason} \ {"TakeProfit3", "Protective"}),
                        ![m].tokens = left,
                        ![m].cost = Reduced(@, reason),
                        ![m].asked = mon[m].tokens,
                        ![m].reason = reason]
  /\ UNCHANGED <<givenUp, misled>>

\* The signal names the cost of the whole position, and the tally is taken
\* down before the answer.
Trigger(m, reason) ==
  /\ mon[m].pc = "watch"
  /\ reason \in Triggers(m)
  /\ All(reason) \/ Divisible(m)
  /\ SendSignal(ExitSignal(m, reason, Cost))
  /\ mon' = [mon EXCEPT ![m].pc = "wait",
                        ![m].flags = @ \cup ({reason} \ {"TakeProfit3", "Protective"}),
                        ![m].tokens = Reduced(@, reason),
                        ![m].cost = Reduced(@, reason),
                        ![m].asked = mon[m].tokens,
                        ![m].reason = reason]
  /\ UNCHANGED <<givenUp, misled>>

\* The time stop names the cost that the tally says is left.
TimeStop(m) ==
  /\ mon[m].pc \in {"watch", "due"}
  /\ SendSignal(ExitSignal(m, "Protective", mon[m].cost))
  /\ mon' = [mon EXCEPT ![m].pc = "wait_due"]
  /\ UNCHANGED <<givenUp, misled>>

-----------------------------------------------------------------------------
(* Answers: the first one for the mint counts, whatever exit it is of. *)

Take(m) == inbox' = [inbox EXCEPT ![m] = Tail(@)]

unheardVars == <<exitQ, polling, claims, task, wallet, late, row, sent, proceeds, booked>>

\* The moonbag tracker takes what is left, and the slot is freed.
Promoted(m) == RecordExit(m, Cost, 0, TRUE)

Stopped(k) == [k EXCEPT !.pc = "stopped"]

\* An exit answered done, or given up as if it were: the loop ends when the
\* tally says that nothing is left.
Concluded(k, done) ==
  IF done /\ k.tokens = 0 THEN Stopped(k) ELSE [k EXCEPT !.pc = "watch"]

\* What monitor k is after answer r to an exit.
After(k, r) ==
  LET full == All(k.reason) IN
  IF r.ok THEN Concluded([k EXCEPT !.failures = 0], full)
  ELSE IF r.permanent THEN Concluded(k, TRUE)
  ELSE IF k.failures + 1 >= MaxFailures
       THEN Concluded([k EXCEPT !.failures = MaxFailures], TRUE)
       ELSE PutBack([k EXCEPT !.failures = @ + 1], r.reason)

Hear(m) ==
  LET k == mon[m]
      r == Head(inbox[m])
      next == After(k, r)
  IN /\ k.pc = "wait"
     /\ inbox[m] # << >>
     /\ Take(m)
     /\ givenUp' = IF ~r.ok /\ (r.permanent \/ k.failures + 1 >= MaxFailures)
                   THEN givenUp \cup {m} ELSE givenUp
     /\ \/ mon' = [mon EXCEPT ![m] = next] /\ UNCHANGED tsVars
        \/ /\ "promote" \in Events
           /\ k.reason = "TakeProfit1" /\ "TakeProfit1" \in next.flags
           /\ next.pc = "watch" /\ next.tokens > 0
           /\ Promoted(m)
           /\ mon' = [mon EXCEPT ![m] = [next EXCEPT !.pc = "promoted"]]
     /\ UNCHANGED <<unheardVars, misled>>

\* Mutant: a refused time stop is taken for a done one.
HearDueOnce(m) ==
  /\ mon[m].pc = "wait_due"
  /\ inbox[m] # << >>
  /\ Take(m)
  /\ mon' = [mon EXCEPT ![m] = Stopped(@)]
  /\ UNCHANGED <<tsVars, unheardVars, givenUp, misled>>

HearDue(m) ==
  /\ mon[m].pc = "wait_due"
  /\ inbox[m] # << >>
  /\ Take(m)
  /\ mon' = [mon EXCEPT
               ![m] = IF Head(inbox[m]).ok \/ Head(inbox[m]).permanent
                      THEN Stopped(@) ELSE [@ EXCEPT !.pc = "due"]]
  /\ UNCHANGED <<tsVars, unheardVars, givenUp, misled>>

\* No answer is on its way.
Unanswered(m) ==
  /\ inbox[m] = << >>
  /\ polling # None => polling.mint # m
  /\ \A i \in 1 .. Len(exitQ) : exitQ[i].mint # m
  /\ \A t \in Tasks : On(t, m) => At(t, "release")

WaitTimesOut(m) ==
  /\ "slow" \in Events \/ Unanswered(m)
  /\ \/ /\ mon[m].pc = "wait"
        /\ mon' = [mon EXCEPT ![m] = PutBack(@, @.reason)]
     \/ /\ mon[m].pc = "wait_due"
        /\ mon' = [mon EXCEPT ![m].pc = "due"]
  /\ misled' = IF Unanswered(m) THEN misled ELSE misled \cup {m}
  /\ UNCHANGED <<vars, givenUp>>

-----------------------------------------------------------------------------
(* Exits that are not waited for, and hand-overs. *)

\* Zero prices, a collapsed takeover, a dying dip: the signal names the whole
\* cost; a bad fill names what is left.
Fire(m) ==
  /\ "fire" \in Events
  /\ mon[m].pc \in {"watch", "dumped"}
  /\ \/ SendSignal(ExitSignal(m, "Protective", Cost))
     \/ /\ mon[m].pc = "watch"
        /\ SendSignal(ExitSignal(m, "Protective", mon[m].cost))
  /\ mon' = [mon EXCEPT ![m].pc = "fired"]
  /\ UNCHANGED <<givenUp, misled>>

\* A developer who dumps is blacklisted, then the position is fired.
DevDumps(m, d) ==
  /\ "fire" \in Events
  /\ mon[m].pc = "watch"
  /\ BlacklistDev(d)
  /\ mon' = [mon EXCEPT ![m].pc = "dumped"]
  /\ UNCHANGED <<exitVars, givenUp, misled>>

\* On the way to a take-profit, or after a takeover that recovers.
Promote(m) ==
  /\ "promote" \in Events
  /\ mon[m].pc = "watch" /\ mon[m].tokens > 0
  /\ Promoted(m)
  /\ mon' = [mon EXCEPT ![m].pc = "promoted"]
  /\ UNCHANGED <<exitVars, givenUp, misled>>

\* A watcher knows the position as it was bought.
Watcher(m) ==
  /\ "watchers" \in Events
  /\ SendSignal([mint |-> m, amount |-> Lot, all |-> TRUE,
                 reason |-> "Protective", cost |-> Cost])
  /\ misled' = misled \cup {m}
  /\ UNCHANGED <<mon, givenUp>>

-----------------------------------------------------------------------------
Monitor(m) ==
  \/ \E reason \in Reasons : Trigger(m, reason)
  \/ TimeStop(m) \/ Hear(m) \/ HearDue(m) \/ WaitTimesOut(m)
  \/ Fire(m) \/ Promote(m)
  \/ \E d \in Devs : DevDumps(m, d)

MonNext ==
  \/ \E m \in Mints : Monitor(m) \/ Watcher(m)
  \/ Engine /\ UNCHANGED monVars

MonSpec == MonInit /\ [][MonNext]_allVars

-----------------------------------------------------------------------------
(***************************************************************************)
(* The types of a monitor; the tally never exceeds the purchase.           *)
(***************************************************************************)
MonTypeOK ==
  /\ TypeOK
  /\ \A m \in Mints :
       /\ mon[m].pc \in {"watch", "wait", "due", "wait_due", "dumped",
                         "promoted", "fired", "stopped"}
       /\ mon[m].flags \subseteq {"TakeProfit1", "TakeProfit2"}
       /\ mon[m].tokens \in 0 .. Lot
       /\ mon[m].asked \in 0 .. Lot
       /\ mon[m].cost \in Nat \cup {NaN}
       /\ mon[m].failures \in 0 .. MaxFailures

\* The monitor looks at prices, and no exit is queued, at work or unheard.
AtRest(m) ==
  mon[m].pc \in {"watch", "due"} /\ Unanswered(m) /\ Quiet(m)

(***************************************************************************)
(* "FIX: only reduce remaining_token_amount in memory AFTER signal sent"   *)
(* and "Restore token amounts so trigger can re-fire" (mod.rs:2024, 2078): *)
(* at rest the tally is what the wallet holds, through any sequence of     *)
(* take-profits, failures and retries, while the monitor reads the answers *)
(* of its own exits and none has been given up.                            *)
(***************************************************************************)
TallyIsWallet ==
  \A m \in Mints :
    AtRest(m) /\ m \notin misled /\ m \notin givenUp
      => mon[m].tokens = wallet[m]

(***************************************************************************)
(* A monitor that takes the answer of another exit for its own (mod.rs:    *)
(* 2040 matches the mint alone) may believe too much is left, never too    *)
(* little: no answer says sold twice, so the next full exit sells it all.  *)
(***************************************************************************)
TallyCovers ==
  \A m \in Mints : AtRest(m) /\ m \notin givenUp => mon[m].tokens >= wallet[m]

(***************************************************************************)
(* "Position closed -- exit monitoring loop" (mod.rs:854): when its monitor *)
(* has stopped and its exits are over, a position is sold, or marked       *)
(* exit_failed, or was given up after MAX_EXIT_FAILURES.                   *)
(***************************************************************************)
StoppedMeansSold ==
  \A m \in Mints :
    mon[m].pc = "stopped" /\ Unanswered(m) /\ Quiet(m) /\ m \notin misled =>
      wallet[m] = 0 \/ row[m].status = "exit_failed" \/ m \in givenUp

(***************************************************************************)
(* A retryable failure will "keep the position open; monitoring will       *)
(* re-fire the exit from a later trigger" (exit/error.rs:10-11): a position *)
(* whose monitor sent an emergency exit and stopped is, when its exits are *)
(* over, sold or marked exit_failed.                                       *)
(***************************************************************************)
FiredMeansSold ==
  \A m \in Mints :
    mon[m].pc = "fired" /\ Unanswered(m) /\ Quiet(m) =>
      wallet[m] = 0 \/ row[m].status = "exit_failed"

(***************************************************************************)
(* "Total SOL exposure across all open positions" (execution/state.rs:25)  *)
(* is a number: NaN passes the comparison with the cap, and nothing takes  *)
(* it away again.                                                          *)
(***************************************************************************)
ExposureIsANumber == exposure # NaN
=============================================================================
