----------------------------- MODULE ExitEngine -----------------------------
(***************************************************************************)
(* The exit engine (exit/mod.rs, exit/dedup.rs, exit/error.rs): one loop   *)
(* receives exit signals, claims the position of each and spawns a task    *)
(* that sells on chain, updates the position's row and the trading state,  *)
(* and answers on a broadcast channel.  Real (not paper) exits.            *)
(*                                                                         *)
(* A mint has one position, bought as Lot tokens for Cost.  A token here   *)
(* stands for a share of the position far above the dust threshold.        *)
(* Everything a request may do is a choice; Faults says which failures of  *)
(* the outside world an instance admits:                                   *)
(*   "permanent"    a sell refused for a reason no later trigger cures     *)
(*   "no_fill"      a confirmed sell that moved fewer tokens than asked    *)
(*   "timeout"      a sell given up, unseen in time, which may yet land    *)
(*   "no_metadata"  getTransaction gives nothing: balances are read        *)
(*   "balance_rpc"  a token balance read that fails                        *)
(*   "row_read"     the position's row cannot be read                      *)
(*   "row_write"    the PATCH of the row fails                             *)
(***************************************************************************)
EXTENDS TradingState, Sequences

CONSTANTS
  Tasks,       \* bound: exit tasks alive at a time
  Lot,         \* tokens bought with each position
  Cost,        \* SOL spent on each position
  Prices,      \* SOL a token may fetch when a sell is quoted
  KillRatio,   \* percentage of the cost below which slippage is not raised
  ExitRetries, \* EXIT_RETRIES
  MaxSignals,  \* bound: signals sent for one position
  MaxLate,     \* bound: timed-out sells that may still land
  Faults,      \* see above
  Inputs       \* the signals that monitors and watchers send

\* ExitReason; nothing tells the protective ones apart.
TakeProfits == {"TakeProfit1", "TakeProfit2", "TakeProfit3"}
Reasons == TakeProfits \cup {"Protective"}

Signal == [mint : Mints, amount : 0 .. Lot, all : BOOLEAN, reason : Reasons,
           cost : Nat \cup {NaN}]

ASSUME ExitAssumption ==
  /\ Lot \in Nat \ {0}
  /\ Cost \in Nat \ {0}
  /\ Prices \subseteq Nat
  /\ KillRatio \in 0 .. 100
  /\ ExitRetries \in Nat \ {0}
  /\ MaxSignals \in Nat
  /\ MaxLate \in Nat
  /\ Inputs \subseteq Signal
  /\ None \notin Signal
  /\ IsFiniteSet(Mints)

VARIABLES
  exitQ,    \* the channel of exit signals
  polling,  \* the signal whose balance the loop is polling for, or None
  claims,   \* the DedupRegistry
  task,     \* each exit task
  inbox,    \* per position: answers its monitor has not read
  wallet,   \* on chain: tokens of each mint in the wallet
  late,     \* on chain: timed-out sells that may still land
  row,      \* each position's row in the database
  sent,     \* bound: signals sent so far for each position
  proceeds, \* history: SOL each mint's sells brought on chain
  booked    \* history: profit and loss booked for each position

exitVars == <<exitQ, polling, claims, task, inbox, wallet, late, row, sent,
              proceeds, booked>>
vars == <<tsVars, exitVars>>

-----------------------------------------------------------------------------
\* The fields of a task that later steps read; the rest is local to a step.
Free == [pc |-> "free", sig |-> None, eff |-> 0, sell |-> 0, attempt |-> 0,
         kill |-> FALSE, tx |-> "none", price |-> 0, fill |-> 0,
         status |-> None, received |-> 0, pnl |-> 0, inc |-> 0,
         ok |-> FALSE, permanent |-> FALSE]

Spawned(sig) == [Free EXCEPT !.pc = "balance", !.sig = sig, !.attempt = 1]

Working(t) == task[t].pc # "free"
On(t, m) == Working(t) /\ task[t].sig.mint = m
At(t, pc) == task[t].pc = pc

\* ExitError::is_retryable.
Retryable == {"OnChainSlippage", "RateLimit", "RouteNotFound",
              "QuoteSanityFailed", "Transient"}

\* What fetch_exit_token_balance makes of a balance: zero and a failed read
\* are both None, written 0 here.
Reads(balance) == {balance} \cup (IF "balance_rpc" \in Faults THEN {0} ELSE {})

-----------------------------------------------------------------------------
Init ==
  /\ openMints = Mints
  /\ openSince = [m \in Mints |-> 0]
  /\ exposure = Cost * Cardinality(Mints)
  /\ todayPnl = 0
  /\ rolledOver = FALSE
  /\ recentlyExited = [m \in Mints |-> None]
  /\ pendingMints = {}
  /\ blacklistedDevs = {}
  /\ exitQ = << >>
  /\ polling = None
  /\ claims = {}
  /\ task = [t \in Tasks |-> Free]
  /\ inbox = [m \in Mints |-> << >>]
  /\ wallet = [m \in Mints |-> Lot]
  /\ late = {}
  /\ row = [m \in Mints |-> [status |-> "open", received |-> 0, pnl |-> 0]]
  /\ sent = [m \in Mints |-> 0]
  /\ proceeds = [m \in Mints |-> 0]
  /\ booked = [m \in Mints |-> 0]

-----------------------------------------------------------------------------
(* The receive loop. *)

SendSignal(sig) ==
  /\ sent[sig.mint] < MaxSignals
  /\ exitQ' = Append(exitQ, sig)
  /\ sent' = [sent EXCEPT ![sig.mint] = @ + 1]
  /\ UNCHANGED <<tsVars, polling, claims, task, inbox, wallet, late, row,
                 proceeds, booked>>

Receives == polling = None /\ exitQ # << >>

\* A duplicate is dropped; its sender gets no answer.
DropDuplicate ==
  /\ Receives
  /\ Head(exitQ).mint \in claims
  /\ exitQ' = Tail(exitQ)
  /\ UNCHANGED <<tsVars, polling, claims, task, inbox, wallet, late, row, sent,
                 proceeds, booked>>

\* Mutant: the claim is not taken.
AcceptWithoutClaim(t) ==
  /\ Receives
  /\ Head(exitQ).mint \notin claims
  /\ Head(exitQ).amount > 0
  /\ At(t, "free")
  /\ task' = [task EXCEPT ![t] = Spawned(Head(exitQ))]
  /\ exitQ' = Tail(exitQ)
  /\ UNCHANGED <<tsVars, polling, claims, inbox, wallet, late, row, sent,
                 proceeds, booked>>

Accept(t) ==
  /\ Receives
  /\ Head(exitQ).mint \notin claims
  /\ Head(exitQ).amount > 0
  /\ At(t, "free")
  /\ claims' = claims \cup {Head(exitQ).mint}
  /\ task' = [task EXCEPT ![t] = Spawned(Head(exitQ))]
  /\ exitQ' = Tail(exitQ)
  /\ UNCHANGED <<tsVars, polling, inbox, wallet, late, row, sent, proceeds,
                 booked>>

\* Without an amount the loop itself waits for the balance.
AcceptUnsized ==
  /\ Receives
  /\ Head(exitQ).mint \notin claims
  /\ Head(exitQ).amount = 0
  /\ claims' = claims \cup {Head(exitQ).mint}
  /\ polling' = Head(exitQ)
  /\ exitQ' = Tail(exitQ)
  /\ UNCHANGED <<tsVars, task, inbox, wallet, late, row, sent, proceeds,
                 booked>>

PollResolves(t) ==
  /\ polling # None
  /\ wallet[polling.mint] > 0
  /\ At(t, "free")
  /\ task' = [task EXCEPT
                ![t] = Spawned([polling EXCEPT !.amount = wallet[polling.mint]])]
  /\ polling' = None
  /\ UNCHANGED <<tsVars, exitQ, claims, inbox, wallet, late, row, sent,
                 proceeds, booked>>

\* Mutant: the claim is kept.
PollGivesUpClaimed ==
  /\ polling # None
  /\ 0 \in Reads(wallet[polling.mint])
  /\ inbox' = [inbox EXCEPT ![polling.mint] =
                 Append(@, [ok |-> FALSE, permanent |-> TRUE,
                            reason |-> polling.reason])]
  /\ polling' = None
  /\ UNCHANGED <<tsVars, exitQ, claims, task, wallet, late, row, sent,
                 proceeds, booked>>

\* The answer says permanent, and leaving the turn drops the claim.
PollGivesUp ==
  /\ polling # None
  /\ 0 \in Reads(wallet[polling.mint])
  /\ inbox' = [inbox EXCEPT ![polling.mint] =
                 Append(@, [ok |-> FALSE, permanent |-> TRUE,
                            reason |-> polling.reason])]
  /\ claims' = claims \ {polling.mint}
  /\ polling' = None
  /\ UNCHANGED <<tsVars, exitQ, task, wallet, late, row, sent, proceeds, booked>>

-----------------------------------------------------------------------------
(* execute_real_exit: the amount to sell. *)

\* An error that leaves execute_real_exit: the row is marked unless a later
\* trigger may still succeed.
Fail(t, err) ==
  task' = [task EXCEPT ![t].pc = IF err \in Retryable THEN "reply" ELSE "mark",
                       ![t].ok = FALSE,
                       ![t].permanent = err \notin Retryable]

\* The wallet caps the tracked amount, never the reverse; an unreadable or
\* empty wallet leaves the tracked amount.
ReadBalance(t) ==
  /\ At(t, "balance")
  /\ \E seen \in Reads(wallet[task[t].sig.mint]) :
       LET sig  == task[t].sig
           eff  == IF seen > 0 /\ seen < sig.amount THEN seen ELSE sig.amount
           sell == IF sig.all THEN eff ELSE eff \div 2
       IN IF sell = 0
          THEN Fail(t, "Permanent")
          ELSE task' = [task EXCEPT ![t].pc = "attempt", ![t].eff = eff,
                                    ![t].sell = sell]
  /\ UNCHANGED <<tsVars, exitQ, polling, claims, inbox, wallet, late, row, sent,
                 proceeds, booked>>

-----------------------------------------------------------------------------
(* execute_real_exit: quote, build, submit, confirm, at most ExitRetries   *)
(* times.  The error of the last attempt is the error of the exit.         *)

\* Mutant: one attempt too many.
RetryOnceMore(t, err, kill) ==
  IF task[t].attempt > ExitRetries \/ kill
  THEN Fail(t, err)
  ELSE task' = [task EXCEPT ![t].pc = "attempt", ![t].attempt = @ + 1,
                            ![t].kill = kill, ![t].tx = "none"]

Retry(t, err, kill) ==
  IF task[t].attempt = ExitRetries \/ kill
  THEN Fail(t, err)
  ELSE task' = [task EXCEPT ![t].pc = "attempt", ![t].attempt = @ + 1,
                            ![t].kill = kill, ![t].tx = "none"]

\* quote_sol_value / cost_for_chunk, as the two sides of a comparison.  The
\* ratio of a cost that is not a number passes for 1.
Returns(t, price) == price * task[t].sig.amount
BelowCost(t, price) ==
  task[t].sig.cost # NaN /\ Returns(t, price) < task[t].sig.cost
Kill(t, price) ==
  /\ task[t].sig.reason \notin TakeProfits
  /\ task[t].sig.cost # NaN
  /\ 100 * Returns(t, price) < KillRatio * task[t].sig.cost

\* How a service may refuse, apart from errors with a class of their own.
Refusals ==
  {"Transient"} \cup (IF "permanent" \in Faults THEN {"Permanent"} ELSE {})

QuoteFails(t) ==
  /\ At(t, "attempt")
  /\ \/ \E err \in {"RouteNotFound", "RateLimit"} : Retry(t, err, task[t].kill)
     \/ \E err \in Refusals : Fail(t, err)
  /\ UNCHANGED <<tsVars, exitQ, polling, claims, inbox, wallet, late, row, sent,
                 proceeds, booked>>

\* A take-profit never sells below cost.
QuoteTooLow(t, price) ==
  /\ At(t, "attempt")
  /\ task[t].sig.reason \in TakeProfits /\ BelowCost(t, price)
  /\ Fail(t, "QuoteSanityFailed")
  /\ UNCHANGED <<tsVars, exitQ, polling, claims, inbox, wallet, late, row, sent,
                 proceeds, booked>>

Sellable(t, price) ==
  /\ At(t, "attempt")
  /\ ~(task[t].sig.reason \in TakeProfits /\ BelowCost(t, price))

\* A transaction that was given up may land all the same, until it expires.
MayLandLate(t, price) ==
  \/ UNCHANGED late
  \/ /\ "timeout" \in Faults
     /\ \E id \in 1 .. MaxLate :
          /\ \A x \in late : x.id # id
          /\ late' = late \cup {[id |-> id, mint |-> task[t].sig.mint,
                                 tokens |-> task[t].sell, price |-> price]}

\* The swap transaction cannot be built or handed to a node; the backup
\* node it was also sent to may have taken it.
SubmitFails(t, price) ==
  /\ Sellable(t, price)
  /\ \E err \in Refusals :
       Retry(t, err, task[t].kill \/ Kill(t, price))
  /\ MayLandLate(t, price)
  /\ UNCHANGED <<tsVars, exitQ, polling, claims, inbox, wallet, row, sent,
                 proceeds, booked>>

Submit(t, price) ==
  /\ Sellable(t, price)
  /\ task' = [task EXCEPT ![t].pc = "confirm", ![t].tx = "flying",
                          ![t].price = price,
                          ![t].kill = @ \/ Kill(t, price)]
  /\ UNCHANGED <<tsVars, exitQ, polling, claims, inbox, wallet, late, row, sent,
                 proceeds, booked>>

Moved(m, tokens, price) ==
  /\ wallet' = [wallet EXCEPT ![m] = @ - tokens]
  /\ proceeds' = [proceeds EXCEPT ![m] = @ + tokens * price]

\* On chain: a transfer of more than the wallet holds cannot succeed.
Lands(t) ==
  /\ At(t, "confirm")
  /\ task[t].tx = "flying"
  /\ task[t].sell <= wallet[task[t].sig.mint]
  /\ \E fill \in IF "no_fill" \in Faults THEN 0 .. task[t].sell
                                         ELSE {task[t].sell} :
       /\ task' = [task EXCEPT ![t].tx = "landed", ![t].fill = fill]
       /\ Moved(task[t].sig.mint, fill, task[t].price)
  /\ UNCHANGED <<tsVars, exitQ, polling, claims, inbox, late, row, sent, booked>>

Confirmed(t) ==
  /\ At(t, "confirm")
  /\ task[t].tx = "landed"
  /\ task' = [task EXCEPT ![t].pc = "settle"]
  /\ UNCHANGED <<tsVars, exitQ, polling, claims, inbox, wallet, late, row, sent,
                 proceeds, booked>>

\* The chain refused the transaction: too much slippage, or anything else.
Refused(t) ==
  /\ At(t, "confirm")
  /\ task[t].tx = "flying"
  /\ \/ Retry(t, "OnChainSlippage", task[t].kill)
     \/ "permanent" \in Faults /\ Fail(t, "Permanent")
  /\ UNCHANGED <<tsVars, exitQ, polling, claims, inbox, wallet, late, row, sent,
                 proceeds, booked>>

\* Not seen confirmed in time, whether it has landed, will, or never does.
TimesOut(t) ==
  /\ "timeout" \in Faults
  /\ At(t, "confirm")
  /\ Retry(t, "Transient", task[t].kill)
  /\ IF task[t].tx = "landed" THEN UNCHANGED late
                              ELSE MayLandLate(t, task[t].price)
  /\ UNCHANGED <<tsVars, exitQ, polling, claims, inbox, wallet, row, sent,
                 proceeds, booked>>

LandsLate(x) ==
  /\ x \in late
  /\ late' = late \ {x}
  /\ IF x.tokens <= wallet[x.mint] THEN Moved(x.mint, x.tokens, x.price)
                                   ELSE UNCHANGED <<wallet, proceeds>>
  /\ UNCHANGED <<tsVars, exitQ, polling, claims, task, inbox, row, sent, booked>>

-----------------------------------------------------------------------------
(* execute_real_exit: what was sold, the row, the state, the answer. *)

\* Mutant: the request is taken for the fill.
RemainingAsRequested(t) == {task[t].eff - task[t].sell}

\* Balance reads after the sell may lag behind it; a full exit that seems to
\* have sold nothing reads again, and takes None for an emptied account.
Remaining(t) ==
  LET m == task[t].sig.mint
      first == UNION {Reads(b) : b \in {wallet[m], wallet[m] + task[t].fill}}
      after == {IF seen > 0 THEN seen ELSE task[t].eff - task[t].sell :
                  seen \in first}
  IN {task[t].eff - task[t].fill} \cup
     IF "no_metadata" \notin Faults THEN {}
     ELSE {left \in after : ~task[t].sig.all \/ left < task[t].eff} \cup
          {IF seen < left THEN seen ELSE left :
             seen \in first,
             left \in {l \in after : task[t].sig.all /\ l >= task[t].eff}}

Shorter(a, b) == IF a < b THEN a ELSE b

\* fetch_position_exit_state: an unreadable row looks like a new one.
RowReads(m) ==
  {row[m]} \cup
  IF "row_read" \in Faults
  THEN {[status |-> "unknown", received |-> 0, pnl |-> 0]} ELSE {}

\* Mutant: the row's total is overwritten.
Overwritten(old, got) == got
\* The row's proceeds after an exit.
Accumulated(old, got) == old.received + got

\* Mutant: the whole total is booked.
WholeTotal(total, old) == total
\* What an exit adds to the day.
Increment(total, old) == total - old.pnl

Settle(t) ==
  /\ At(t, "settle")
  /\ \E left \in Remaining(t), old \in RowReads(task[t].sig.mint) :
       LET sold     == IF left < task[t].eff THEN task[t].eff - left ELSE 0
           received == Accumulated(old, Shorter(sold, task[t].sell) * task[t].price)
           paid     == IF old.status = "unknown" THEN task[t].sig.cost ELSE Cost
           total    == IF paid = NaN THEN 0 ELSE received - paid
           status   == IF left = 0 THEN "closed"
                       ELSE IF task[t].sig.all /\ sold = 0 THEN "exit_failed"
                       ELSE "partial"
       IN task' = [task EXCEPT
                     ![t].pc = IF old.status = "closed" THEN "reply" ELSE "write",
                     ![t].ok = TRUE,
                     ![t].permanent = FALSE,
                     ![t].status = status,
                     ![t].received = received,
                     ![t].pnl = total,
                     ![t].inc = Increment(total, old)]
  /\ UNCHANGED <<tsVars, exitQ, polling, claims, inbox, wallet, late, row, sent,
                 proceeds, booked>>

\* A failed PATCH is logged and the exit goes on.
Write(t) ==
  /\ At(t, "write")
  /\ task' = [task EXCEPT ![t].pc = "book"]
  /\ \/ row' = [row EXCEPT ![task[t].sig.mint] =
                  [status |-> task[t].status, received |-> task[t].received,
                   pnl |-> task[t].pnl]]
     \/ "row_write" \in Faults /\ UNCHANGED row
  /\ UNCHANGED <<tsVars, exitQ, polling, claims, inbox, wallet, late, sent,
                 proceeds, booked>>

Book(t) ==
  /\ At(t, "book")
  /\ RecordExit(task[t].sig.mint, task[t].sig.cost, task[t].inc,
                task[t].status = "closed")
  /\ booked' = [booked EXCEPT ![task[t].sig.mint] = @ + task[t].inc]
  /\ task' = [task EXCEPT ![t].pc = "reply"]
  /\ UNCHANGED <<exitQ, polling, claims, inbox, wallet, late, row, sent, proceeds>>

\* mark_exit_failed patches whatever the row says.
MarkFailed(t) ==
  /\ At(t, "mark")
  /\ task' = [task EXCEPT ![t].pc = "reply"]
  /\ \/ row' = [row EXCEPT ![task[t].sig.mint].status = "exit_failed"]
     \/ "row_write" \in Faults /\ UNCHANGED row
  /\ UNCHANGED <<tsVars, exitQ, polling, claims, inbox, wallet, late, sent,
                 proceeds, booked>>

Reply(t) ==
  /\ At(t, "reply")
  /\ inbox' = [inbox EXCEPT ![task[t].sig.mint] =
                 Append(@, [ok |-> task[t].ok, permanent |-> task[t].permanent,
                            reason |-> task[t].sig.reason])]
  /\ task' = [task EXCEPT ![t].pc = "release"]
  /\ UNCHANGED <<tsVars, exitQ, polling, claims, wallet, late, row, sent,
                 proceeds, booked>>

\* The guard is dropped when the task ends, after the answer is sent.
Release(t) ==
  /\ At(t, "release")
  /\ claims' = claims \ {task[t].sig.mint}
  /\ task' = [task EXCEPT ![t] = Free]
  /\ UNCHANGED <<tsVars, exitQ, polling, inbox, wallet, late, row, sent,
                 proceeds, booked>>

-----------------------------------------------------------------------------
Loop == DropDuplicate \/ AcceptUnsized \/ PollGivesUp
          \/ \E t \in Tasks : Accept(t) \/ PollResolves(t)

TaskStep(t) ==
  \/ ReadBalance(t)
  \/ QuoteFails(t)
  \/ \E price \in Prices :
       QuoteTooLow(t, price) \/ SubmitFails(t, price) \/ Submit(t, price)
  \/ Confirmed(t) \/ Refused(t) \/ TimesOut(t)
  \/ Settle(t) \/ Write(t) \/ Book(t)
  \/ MarkFailed(t) \/ Reply(t) \/ Release(t)

Chain == (\E t \in Tasks : Lands(t)) \/ \E x \in late : LandsLate(x)

Engine == Loop \/ (\E t \in Tasks : TaskStep(t)) \/ Chain

Next == (\E sig \in Inputs : SendSignal(sig)) \/ Engine

Spec == Init /\ [][Next]_vars

\* The loop and the tasks run on: every request they await returns.
FairSpec ==
  /\ Spec
  /\ WF_vars(Loop)
  /\ \A t \in Tasks : WF_vars(TaskStep(t))

-----------------------------------------------------------------------------
Steps == {"free", "balance", "attempt", "confirm", "settle", "write", "book",
          "mark", "reply", "release"}

(***************************************************************************)
(* Types; the wallet and the late sells never go below nothing.            *)
(***************************************************************************)
TypeOK ==
  /\ TSTypeOK
  /\ exitQ \in Seq(Signal)
  /\ polling \in Signal \cup {None}
  /\ claims \in SUBSET Mints
  /\ DOMAIN task = Tasks
  /\ \A t \in Tasks :
       /\ task[t].pc \in Steps
       /\ task[t].sig \in Signal \cup {None}
       /\ Working(t) <=> task[t].sig # None
       /\ task[t].attempt \in 0 .. ExitRetries
       /\ task[t].sell \in 0 .. task[t].eff
       /\ task[t].eff \in 0 .. Lot
       /\ task[t].fill \in 0 .. task[t].sell
  /\ wallet \in [Mints -> 0 .. Lot]
  /\ sent \in [Mints -> 0 .. MaxSignals]
  /\ \A m \in Mints : row[m].received >= 0 /\ proceeds[m] >= 0

(***************************************************************************)
(* "[DedupRegistry] fixes that with a narrow, process-local lock keyed by  *)
(* position_id" (exit/dedup.rs:14): never two tasks on one position, nor a *)
(* task on the position whose balance the loop is polling for.             *)
(***************************************************************************)
OneTaskPerPosition ==
  /\ \A t, u \in Tasks, m \in Mints : On(t, m) /\ On(u, m) => t = u
  /\ polling # None => \A t \in Tasks : ~On(t, polling.mint)

Quiet(m) == \A t \in Tasks : ~On(t, m)

(***************************************************************************)
(* "Use increment (new - prev) to avoid double-counting across partial     *)
(* exits" (exit/mod.rs:1509): what was booked for a position over all its  *)
(* exits is the profit and loss its row shows.                             *)
(***************************************************************************)
BookedOnce == \A m \in Mints : Quiet(m) => booked[m] = row[m].pnl

(***************************************************************************)
(* "Bug history: ... closed positions with thousands of tokens still in    *)
(* wallet. Fix: always reconcile against the confirmed tx" and             *)
(* "Full-exit detection: on-chain truth only" (exit/mod.rs:1266-1269, 1308):*)
(* a row says closed only when the wallet holds nothing of the position.   *)
(***************************************************************************)
ClosedMeansSold == \A m \in Mints : row[m].status = "closed" => wallet[m] = 0

(***************************************************************************)
(* "reconcile against the confirmed tx" (exit/mod.rs:1269): the row's      *)
(* proceeds are what the position's sells brought on chain.                *)
(***************************************************************************)
ReceivedIsProceeds ==
  \A m \in Mints : Quiet(m) => row[m].received = proceeds[m]

(***************************************************************************)
(* Whatever the order of partial exits, failures and duplicates, each      *)
(* position's cost leaves total_exposure_sol with its slot, once.          *)
(***************************************************************************)
ExposureFreedOnce == exposure = Cost * Cardinality(openMints)

(***************************************************************************)
(* No "second sell attempt after the position was already closed"          *)
(* (exit/dedup.rs:11-14) makes a closed row anything else again.           *)
(***************************************************************************)
ClosedStaysClosed ==
  [][\A m \in Mints : row[m].status = "closed" => row'[m].status = "closed"]_row

(***************************************************************************)
(* "the guard releases on drop so a legitimate follow-up ... can proceed"  *)
(* (exit/dedup.rs:16-18): no position stays claimed for ever.              *)
(***************************************************************************)
ClaimReleased == \A m \in Mints : m \in claims ~> m \notin claims
=============================================================================
