# A verification project for BC_Trading

TLA+ models of BC_Trading (a Solana token trading bot, Rust, `src/src`), checked
with TLC on small instances and proved with TLAPS for every instance where the
prover reaches.  Paths below are relative to `src/src` unless they start with
`ARCHITECTURE.md`, `config.toml` or `migrations/`.

What to know first:

* At this commit `main.rs` starts detection, the wallet graph and a drain-only
  skeleton of execution ("old entry pipeline disabled").  The trading engines are
  complete in the source but not started: `try_reserve_for_mint`,
  `release_reservation`, `pre_execution_checks_cached`, `execute_real_trade`,
  `hydrate_from_supabase` and `recover_stuck_positions` have no caller.  The
  models follow these functions and the calling protocol their doc comments
  prescribe (`execution/state.rs:188-207`, `229-231`).  What they say is about the
  engines when they run, not about the process as `main.rs` starts it today.
  `Detection`, `WalletGraph` and `FundingPoll` are about code that runs.
* Amounts are integers of an arbitrary unit.  `NaN`, which an `f64` sum can
  become, is a value of its own with the code's arithmetic.  Prices are multiples
  of the entry price, in tenths.
* A counterexample of the expected-violation run is a behaviour of the code
  (section 4).  Properties that the code breaks in a way no comment rules out are
  limits (section 3); those with a configuration kept beside the runs are named
  there, so that the trace can be had again.

## 1. Inventory

| component | state it keeps | operations | talks to |
|---|---|---|---|
| trading state `execution/state.rs` | open mints with their ages, total exposure, today's profit and loss, recent exits, reservations, blacklist; one `RwLock` | reserve, release, record buy, record exit, force-close, read the counters, hydrate | everybody below, by method call |
| buy path `execution/mod.rs` | locals of one task per token event | checks, quote, swap, confirm, record, insert the row | trading state, table `positions`, chain |
| exit engine `exit/*` | claims (`DedupRegistry`), one task per exit | receive, claim, poll a balance, sell with retries, reconcile, PATCH, book, answer | signal channel in, broadcast out, table, trading state, chain |
| stale sweeper `monitoring/mod.rs:322-346` | none but the list it has just read | close mints open for too long | trading state, table (alert) |
| position monitor `monitoring/mod.rs:358-2450`, `triggers.rs`, `tick_stream.rs` | tallies of tokens and cost left, take-profit flags, dip machine, staged evaluation, failure counts | turn, trigger, send signal, wait for the answer, stop | exit engine, price sources, watchers, moonbag tracker |
| moonbag tracker `monitoring/moonbag.rs` | list of promoted positions | take, turn, sell, write rows | channel of promotions, exit engine, two tables |
| price sources `monitoring/price.rs`, `helius_price_ws.rs`, `yellowstone_grpc.rs`, `tick_stream.rs` | subscriptions, cache, last known price, tick windows | subscribe, deliver, replay, expire | monitors |
| chain watchers `monitoring/helius_ws.rs`; post-buy alert `monitoring/mod.rs:297-320` | one socket per watched account | emergency exits on developer dumps, drained pools, failed verification; ticks | monitor, exit engine |
| detection `detection/*` | watchlist of at most 5000, lane flags, labels, score cache, dedup of graduations | connect, subscribe, create, trade, graduate, evict | channel of candidates, wallet graph, table |
| wallet graph `monitoring/wallet_graph.rs` | parents, funded children, touches, convergences | poll fundings, observe trades, converge, follow up, prune | table, chain |
| startup and shutdown `main.rs` | instance lock, shutdown flag | hydrate, recover positions, close orphans | everybody |
| re-entry watcher `reentry/mod.rs` | seen rows, watched mints with attempts | poll, watch, inject a buy that bypasses the cooldown | buy path |
| filters, sniper, narrative, bags, sampler | caches, candidate tables | score and reject | services |
| swap clients, configuration, supabase client | none worth a model | requests | services |

### What is hard

* **Several buyers, one state.** The checks before a buy are three lock
  acquisitions, the buy is recorded seconds later, and nothing counts the buys in
  flight.  The reservation is released by mint, not by holder.
* **Several sellers, one position.** Triggers, watchers, time stops and moonbags
  send signals for one position; a claim per position decides who sells, is taken
  in the loop and dropped at the end of a task, after the answer is out.
* **A chain that answers late.** A sell that is not seen in 25 s is quoted again,
  and the first may land; balances lag behind confirmations; a transfer may move
  less than was asked.
* **Two records of the truth.** The row in `positions` and the trading state are
  written one after the other, and a failed PATCH is only logged; a promoted
  position has a row in each of two tables.
* **Accumulation.** Proceeds, profit and exposure are sums over a sequence of
  partial exits, refusals and retries; each must count once.
* **Failed reads look like data.** `None` of a balance read is both "empty" and
  "failed"; an unreadable row is an unknown one of zero proceeds; a failed startup
  query is an empty table.
* **Restarts.** Hydration and recovery select rows with different filters; tasks
  that write rows die with the process.
* **Sockets that break.** What happens while a socket is down is never told; the
  code replays subscriptions but not events, and keeps what it cached.
* **Grace.** The trailing stop is paused, and evaluations postponed, in the hope of
  recovery; each such delay needs an end that does not depend on a price coming.
* **Tables at their limits.** Watchlists, key sets, label caches and convergences
  are trimmed while decisions still depend on them.

## 2. Modules

    TradingState --+-- BuyPath --- ReEntry -------------------- MCReEntry, MCBuyPath
                   +-- ExitEngine -+--------------------------- MCExitEngine
                                   +-- PositionMonitor -------- MCPositionMonitor
    Triggers --- MonitorTick -+
                  PriceFeed --+-------------------------------- MCMonitorTick
                   Watchers --+
    MoonbagLedger <= Moonbag ---------------------------------- MCMoonbag
                     Lifecycle -------------------------------- MCLifecycle
    WalletGraph - FundingPoll --------------------------------- MCFundingPoll
    Scores - LaunchLanes - DetectionSocket - Detection -------- MCDetection

    TradingStateProofs <-+- BuyPathProofs -> SumLemmas <-+- PositionLifeProofs
                         +- ExitProofs                   +- MoonbagProofs
    DetectionProofs                                      +- FundingPollProofs

(`-` EXTENDS, `<=` refines; an arrow points at the lemmas that are cited.)  MC modules
give TLC the values a `.cfg` cannot express.

### TradingState

`openMints`, `openSince`, `exposure`, `todayPnl`, `rolledOver`, `recentlyExited`,
`pendingMints`, `blacklistedDevs` are the fields of `Inner`.  One action per method,
each one step because of the mutex; no `Next` of its own.  An `Instant` is an
age that `Tick` moves and that stops at `AgeCap`, above every threshold the code
compares with.  `rolledOver` says that `pnl_date` is not today's date;
`Midnight` sets it and the two methods that read or add to the counter clear it.
`Released` is `x -= sol; if x < 0.0 { x = 0.0 }`, under which NaN stays NaN.

### BuyPath, ReEntry

A buyer's `pc` is the place it awaits at: `count`, `exposure`, `pnl` (the three
lock acquisitions of `pre_execution_checks_cached`; all are made before the
first comparison matters, so `ok` collects their outcome), `trade` (quote, swap,
confirmation), `insert` (the POST of the row).  `Buy` is the `record_buy` that
precedes the insert, `InsertFails` the `?` that leaves the buy recorded.
`ExitPosition` is a confirmed exit of a row as the exit engine performs it
(`record_exit`, row closed or kept).  `SweepRead` and `SweepClose` are separate
because each turn of the sweeper's loop awaits a request.  `HydrationMayFail` admits
the startup query that fails and reads as an empty table, in this run or an earlier
one (so that a mint may have two rows).

`ReEntry` adds the watcher: `Poll` reads the closed rows and replaces what is
watched of a mint (`tracked.insert`, so of two rows of a mint found in one poll one
wins), a `round` evaluates each watched mint once and may `Inject` it into the
channel of the buyers, past the cooldown.  The gates of an evaluation are one
choice; an attempt counts whatever they say.

### ExitEngine

`exitQ` is the signal channel, `polling` the signal whose balance the loop awaits
(the loop polls itself, not a task), `claims` the registry, `task` the spawned
exits, `inbox` the answers per mint.  A task's `pc`: `balance`, `attempt` (quote,
build, submit), `confirm`, `settle` (metadata, balances, the row's read), `write`
(the PATCH), `book` (`record_exit`), `mark` (`mark_exit_failed`), `reply`,
`release`.  `wallet` and `proceeds` are the chain's truth, `booked` a history of
what was added to the day.  `Faults` selects what may go wrong outside:

| fault | what it admits |
|---|---|
| `permanent` | a sell refused for a reason no later trigger cures (no funds, an unknown error) |
| `no_fill` | a confirmed sell moved fewer tokens than asked, or none |
| `timeout` | a sell not seen in time, which may land later (also one a node refused after the backup node took it) |
| `no_metadata` | `getTransaction` gives nothing; balances are read, and may lag |
| `balance_rpc` | a balance read fails, which the code cannot tell from zero |
| `row_read` | the row cannot be read and looks new |
| `row_write` | the PATCH fails and is logged |

The loop and the tasks run concurrently; a task's steps between two awaits are one
action.  The error classes are the code's (`exit/error.rs`); which one an attempt
ends in is a choice.

### PositionMonitor

`PositionMonitor` EXTENDS `ExitEngine`: the signals that are any of `Inputs` in the
engine alone are here the ones a monitor or a watcher sends, and the engine takes
its own steps unchanged.  `mon[m]` is the task of one position.  `pc`: `watch` (the
loop of turns), `wait` (the 120 s wait for the answer to a trigger,
`monitoring/mod.rs:2034-2113`), `due` and `wait_due` (the time stop, between and in
its waits), `dumped` (a developer dump seen, the exit not sent yet), and the three
ways the loop ends: `stopped` (an answer ended it), `fired` (an exit was sent and
nobody waits), `promoted` (the moonbag tracker has it).  `flags` are the take-profits
fired, `tokens` and `cost` are `remaining_token_amount` and `remaining_sol_spent`,
`failures` the refusals since the last success, `asked` and `reason` what the
awaited exit was sent with.

`Trigger` takes the tally down when the signal is out; `Hear` reads the first
answer in `inbox[m]`, which the code matches by mint alone (2040), and concludes,
puts the tally back, or gives up (`After`).  The answer to one's own exit, to a
watcher's exit, or to an exit one stopped waiting for are the same to it; the
history `misled` holds the positions where that can have happened, `givenUp` those
where `MAX_EXIT_FAILURES` or a permanent answer ended an exit.  `Events` selects
what an instance admits: `watchers` (their full exits, and those of the post-buy
alert), `fire` (emergency exits after which the monitor stops unanswered),
`promote` (hand-overs), `slow` (an answer later than the wait).

Abstractions: which trigger fires is a choice (`MonitorTick` has the decision); a
take-profit sells half; tallies are whole (`Divisible` bounds the states in which
one is halved); the two awaits of a promotion are one step; the signal channel (50)
and the broadcast never fill (an answer lost to `Lagged` is a wait that runs out).

### Triggers, MonitorTick

`Triggers` has `check_triggers` in its order of precedence and `evaluate_dip` as pure
operators over a position, a price and a tick window; `MonitorTick` the turns of
`monitor_position` around them, one action per way a turn ends.  `pos` holds age,
entry, peak and take-profits; `dip` the state of the dip machine; `cto` the staged
evaluation after the developer has sold everything; `zeros` and `failures` the two
counters that end a loop.  Inputs of a turn: how long it took, a price or none, what
the developer did, the tick window as a reading, whether a paper path matches,
whether the moonbag channel is open; an answer is an input.  `dipAge`, `paused` and
`overdue` are histories of the properties.

### PriceFeed

One mint and its curve account, the server that streams it, the subscription entry
and cache of the multiplexer (`grpc` tells which backend), the fetcher's
`last_known` with its expiry, and `get_monitoring_price`'s choice among them with
the zero counter of the monitor.  An update that has been sent may be lost with
the connection; what changes while it is down is not told.

### Watchers

One watcher of one position: of the developer's tokens, of the pool's account, or of
its two vaults.  `base` is what it compares with, `last` what it was told on
this connection, `wire` the notifications on their way.  The monitor's poll of the
developer (`DevCheck`), the end of the monitor and the message that shuts the
watchers down are actions.

### Moonbag, MoonbagLedger

`Moonbag` has the loop of the tracker: it takes promotions from a channel (or drops
them when full), and in one `Turn` goes over the list, collects the indices to be
sold and removes them from the highest down, as the code does.  `MoonbagLedger` says
what it promises: each promotion is refused or held, at most `MaxConcurrent` are
held, and what is held is sold once.  What is left of the list, and the rows that are
patched, are folds over the indices from the highest down (`Removed`, `Emptied`); one
of the mutants takes the lowest first (`LastRemoved`).  `Ledger == INSTANCE MoonbagLedger WITH held <- Tracked,
sold <- Sold` is checked as a property.

### Lifecycle

A position from purchase to end across restarts: the row of `positions` (status,
`exit_tx_sig`, `closed_at`), the row of `moonbag_positions`, the wallet, and the owner
of each position (a buyer that has yet to insert, a monitor, the channel, the
tracker, an exit nobody waits for).  Each other module's part is one action or two
here; new is `Crash`, and the restart: hydration, `recover_stuck_positions` row by
row with its balance reads, and the tracker's closing of orphans.  `lost` says why a
position has no owner.

### WalletGraph, FundingPoll

`WalletGraph` has each observation as one operator over the state behind the write
lock: prune, recall, touch, signal, converge, follow up.  `FundingPoll` composes it
with the loop that reads the parents' transactions page by page (`cursor`, `todo`,
`page`) and with the trades that the socket reports; a parent's trade arrives by both
paths.  Any parent may fund any wallet, also one that has been funded before.

### Scores, LaunchLanes, DetectionSocket, Detection

`Scores` has the pure scoring functions; `LaunchLanes` the lanes a token fires as its
curve fills, and the label signal; `DetectionSocket` the connection with its writer,
reconciler and subscriptions; `Detection` the handlers over the watchlist, the
graduations with their dedup, and the channel.  A handler is one step; only the send
of a graduated token waits.

## 3. Runs

`pass`:

| run | shows | instance, and why it is enough |
|---|---|---|
| `buy_safety` | `ReservationExclusive`, `NoOrphanReservation`, `OpenWithinSlack`, `ExposureIsSumOfOpen`, `CooldownKept`, `TypeOK` | 2 buyers, 3 mints, 2 rows, sizes 1 and 2, cap 1: both buyers can pass the cap check at once, one mint stays free to be fought over, partial and full exits, a cooldown that passes and is pruned; sweeper and re-entry off |
| `buy_sweeper` | `CappedPerOrigin`, `LeakedSlotFreed` (liveness) | 1 buyer, 1 mint, 1 row, 2 closed rows, cap of one re-entry: failed inserts, sweeps in the middle of them, two rows of one mint that replace each other, a full channel |
| `exit_safety` | `OneTaskPerPosition`, `BookedOnce`, `ClosedMeansSold`, `ReceivedIsProceeds`, `TypeOK` | 1 position of 4 tokens, 2 tasks, 3 signals of every kind, short fills, refusals for good, 2 slippage tiers, prices on both sides of cost and of the kill switch |
| `exit_exposure` | `ExposureFreedOnce` | 2 positions (with one, the clamp at zero would hide a second release), late sells, unreadable and unwritable rows |
| `exit_faults` | `ClaimReleased` (liveness) | 1 position, 2 signals, every fault |
| `monitor_safety` | `TallyIsWallet`, `TallyCovers`, `StoppedMeansSold`, `MonTypeOK` | 1 position of 4 tokens, 2 tasks, 4 signals, every event, refusals for good: two take-profits and two full exits, or a watcher's exit between any two; `MaxFailures` is 3 and not 5, so that giving up lies within the 4 signals |
| `watch` | `PauseIsBounded`, `CtoDecided`, `SilenceEnds`, `DumpNoticed` and `WatcherEnds` (liveness) | three state machines side by side, one moving (`MCMonitorTick`): turns with prices below the stop, in a dip, flat, and at both take-profits, three stages, refused exits; both backends, two connections, two changes of the curve, 8 turns; the three kinds of watcher over two connections and three changes |
| `moonbag` | `RowsMatchSignals`, `NotHeldPastCap`, `ImplementsLedger` (refinement) | 3 promotions to a tracker of 2, one in the channel; four kinds of promotion; prices from no answer to the last tier |
| `lifecycle` | `WalletCovered`, `MoonbagRowBacked`, `OneOwner` | 2 positions of one mint, a tracker of one, one crash at any step, every fault |
| `wallet_graph` | `ClusterSeen`, `ConvergedForReal`, `WatchedKept`, `NothingSkipped` | 2 parents, one child, which an earlier run has watched to time 1 and which is fresh, so that a watch ends within the run and a later funding begins a new one; one mint, a key set of one (so it is cleared), two checkpoints, pages of two, failing requests; a window and a watch of 2 units, shorter than the run of 3, so that touches leave it |
| `detection` | `LaneOnce`, `LadderComplete`, `OneTokenPerGraduation`, `LabelsExact`, `NewestWatched`, `SubscribedWatched` | 3 mints, two with one label, a watchlist and a label cache of two, a channel of one, curves reported at 65 and 95 percent, graduations told twice, over two connections |

`violation`: `feed_frozen` (section 4).

Named bounds: `AgeCap`, `RowIds`, `PnlBound`, `Tasks`, `MaxSignals`, `MaxLate`,
`Divisible`, `ClosedIds`, `LastPosition`, `MaxQueue`, `MaxCrashes`, `MaxEvents`,
`MaxInbox`, `TimeBound`, `MaxConnections`, `MaxRosters`, `MaxSessions`, `MaxChanges`,
`MaxTurns`, `MaxLinks`, `MaxMoves`, and in `MonitorTick` the caps `AgeCap` and `DipCap`,
beyond which no decision looks.  `ExitRetries` is 2 or 1 in the runs and 4 in the
code: the tiers differ in slippage only, and only "not the last" and "the last"
behave differently.  `Lot` is small because a token stands for a share of the
position; a dust remainder (0.5 % or one token, the code's threshold for "closed")
is rounded to none.  Symmetry over mints, buyers, rows, positions and tasks is used
only where no temporal property is checked.  Deadlock is checked in the buy runs;
the others really may stop: what their bounds allow has happened and been answered.

### Fairness

`ReEntry!ReFairSpec`: startup finishes, a buyer that holds a reservation goes on,
the sweeper's loop and the clock run.  Nobody is obliged to buy or to sell.
`ExitEngine!FairSpec`: the loop and each task run on.  Both are what tokio gives a
task that is never starved, *provided every awaited request returns*.  The RPC
client has a timeout of its own; the table's client is built without one
(`logger/mod.rs:41-44`), so a request the service accepts and never answers
suspends a task for ever, and with it the claim.  `ClaimReleased` says nothing
about that case.  The chain has no fairness: a sell may never land.

`Watchers!WatchFair`: the watcher and the monitor's poll run, a pending attempt to
connect ends (with or without a connection), an open socket delivers.  No
connection is assumed, nor that a monitor ever ends.  `connect_async` has no
timeout: an attempt that hangs is outside the assumption.

### What holds only within limits

*Buying.*

* `OpenWithinSlack`: the cap is passed by at most the number of buyers less one.
  The code has no bound on concurrent buyers, so the slack is real, although
  `ARCHITECTURE.md:675` calls the cap hard.
* `ReservationExclusive` and `ExposureIsSumOfOpen` hold while the sweeper is off
  and the startup query did not fail.  With `HydrationMayFail = TRUE` in
  `BuyPath_safety.cfg` TLC finds the first violated: an earlier run left two rows
  of a mint, a buy of it is recorded and its insert fails, an exit of the other
  row takes the open mark away, a second buyer reserves the mint, and the release
  of the first (`execution/state.rs:232` removes the mark whoever holds it) lets a
  third in.  The second fails with a failed startup query, which leaves the counter
  at zero, and with the sweeper on, which frees the configured size and not the
  position's.
* The sweeper can close a position that has just been opened, because its list is
  older (`BuyPath_stale_list.cfg`; `monitoring/mod.rs:324`, `ARCHITECTURE.md:680`).
* `CappedPerOrigin` is a cap per closed position: a mint that is closed again starts
  from zero attempts, so it is not a cap per mint.  A refused gate or a full channel
  uses an attempt up; rows closed by recovery are never followed, nor more than 100
  in one poll; a restart forgets what was seen.

*Selling.*

* `BookedOnce`, `ClosedMeansSold`, `ReceivedIsProceeds` hold when reads of the row,
  writes and confirmations are reliable but sells may fall short and balances be
  unreadable.  Each fails when its own assumption is dropped: without metadata an
  unreadable balance counts as an empty wallet and the row closes over unsold
  tokens (`ExitEngine_blind.cfg`; `exit/mod.rs:1234`); a PATCH that fails is only
  logged (`exit/mod.rs:1510`), the next exit starts from the old totals, and the
  day is charged twice.
* What `BookedOnce` counts is the row's notion of realized profit, which charges
  the whole cost to the first partial exit (`exit/mod.rs:1376`): the sum over a
  position is right when it is sold, and too low before, and the daily loss limit
  reads it in between.
* A closed row can be reopened as `exit_failed`: a signal after the sale of
  everything finds an empty wallet and marks the row (`ExitEngine_closed_twice.cfg`;
  `exit/mod.rs:1717`).
* A permanent answer may leave the row open: when the amount of the signal is
  unresolved, the loop answers for good without marking the row
  (`exit/mod.rs:159`).  The signals of `PositionMonitor` carry their amount, so
  `StoppedMeansSold` does not meet this.
* `ExposureFreedOnce` holds under timeouts and table failures.  It fails with two
  positions when balances and the row both cannot be read.  In `PositionMonitor` it
  fails without any fault: after a take-profit the time stop names the cost that is
  left (`monitoring/mod.rs:784`), which is all that closing the position then frees;
  and a promotion frees the slot while tokens remain.  Its run is therefore the
  engine's, where signals name the cost of the position.

*Monitoring.*

* `TallyIsWallet` leaves out the positions of `misled`: once a watcher has sold, or an
  answer was late, the tally is too high, which `TallyCovers` bounds from one side.
  `StoppedMeansSold` leaves them out as well: the success of another exit, taken for
  that of a full one, ends the loop over tokens that are left.
* The exposure becomes NaN: a full exit that fails retryably restores the cost left
  as 0 / 0, the time stop sends it on, and from then on no buy is refused for
  exposure (`PositionMonitor_nan.cfg`; `monitoring/mod.rs:2082`).
* An emergency exit that fails is never fired again (`PositionMonitor_fired.cfg`;
  `monitoring/mod.rs:1684`, `exit/error.rs:10-11`).
* Giving up a take-profit leaves the tally halved: monitoring goes on, and the next
  full exit sells half and closes the row (`PositionMonitor_leftover.cfg`;
  `monitoring/mod.rs:2068`).
* `PauseIsBounded` has the tight bound of five looks, more than the "3 consecutive
  ticks" of `tick_stream.rs:323`: a look can count two signs, looks without a sign do
  not reset the count, and a "normal" look after the extended patience re-enters a
  dip.  The bound is in looks and not in time: a turn without a price is none.
* `CtoDecided` supposes that no stage is later than the last
  (`config.toml:544`).  The developer's complete sale usually trips the socket's
  watcher first, whose exit ends the position before any stage.
* The sweeper's `stale_position_timeout` (1200 s, "should be longer than
  `max_hold_seconds`", `config.toml:458`) is shorter than the hold after a
  take-profit (2 and 4 times 900 s): it can free the slot of a winner that is still
  held.
* `SilenceEnds` counts the cache of the stream as a source at any age.  "60 seconds
  of no price data" (`monitoring/mod.rs:741`) is not what happens: the last known
  price, served between two refreshes, resets the zero counter
  (`PriceFeed_dead.cfg`).  A jump of more than ten times is refused until the last
  known price expires, and a service that answers 0 is cached as such.
* Two monitors of one mint share one subscription, and the first to end takes it away.
* `DumpNoticed`: the poll compares with `>` what the socket compares with `>=`; a drop
  of exactly the threshold while the socket is down is never noticed.  The poll also
  ignores small developers, and sums all accounts of the developer where the socket
  has one.
* After a reconnect the pool watcher compares with its first balances again, so a
  sell can be told as a buy (`Watchers_direction.cfg`; `helius_ws.rs:190`).  For
  PumpSwap the liquidity watcher watches the lamports of the pool account, which is
  not its liquidity, and guessed vaults give ticks without SOL.  The delay between
  attempts is never reset.

*Moonbag and restarts.*

* A second crash can hide what the first left: `recover_stuck_positions` reads its
  list once and goes over it, while the tracker closes the rows of the moonbags it
  finds.  A row that is in both, closed as an orphan before recovery has come to it,
  is not found after another crash, though its tokens are still in the wallet;
  `LeftBehind` counts it with the positions lost as `closed`.  One crash cannot show
  it, so the run does not.
* A slot is freed at promotion.  The trailing stop's tier follows the current
  multiple, so it is not monotone; the narrative recheck (`moonbag.rs:914-1068`) never
  comes due and is left out.
* `WalletCovered` holds with the exceptions it names in `lost`: promotions refused by a
  full tracker, exits nobody retries, positions given up, a crash between purchase
  and insert, partly sold rows at a crash (recovery loads `open` and `exit_failed`),
  rows in the tracker at a crash (closed as orphans over unsold tokens), balances
  that cannot be read at startup (closed as empty).  Two positions share one balance
  per mint, and the first exit of a re-bought mint may free the slot of both.
* A late `sync_row` may overwrite a status; the order of hydration, recovery and
  tracker is that of the functions' comments, since `main.rs` calls none of them.

*Detection and wallet graph.*

* One parent whose request fails ends the turn for the rest (`wallet_graph.rs:741`);
  one page loses older signatures; failed transactions are passed over: `lost` in
  `NothingSkipped`.
* A wallet can be told as "added after the signal" without having bought again
  (`FundingPoll_added.cfg`; `migrations/033`, line 64): the poll reads the transaction
  of a buy that the socket has already reported, and counts it anew.  A buy long after the checkpoints opens a convergence anew;
  touches are never pruned.
* A second funding of a child overwrites its parent and the end of its watch
  (`wallet_graph.rs:910-928`).  Since a parent that is polled late may bring an older
  funding, the end may move back: what `NothingSkipped` promises is a watch that a
  funding gave, not the longest one.
* `ConvergedForReal` needs that no wallet is a parent and a child of one mint.  Nothing in
  `wallet_graph.rs:786-880` rules it out: such a wallet is counted on both sides and
  converges with itself.  TLC finds it six steps deep with `Fresh = {p2, c1}`.
* `ClusterSeen` and `WatchedKept` need that the socket reports every trade, since a
  child's trades come by no other path; `WatchedKept` also that no more mints converge
  at a time than `MAX_CONVERGENCE_MINTS`, past which the oldest are dropped whether or
  not a follow-up is awaited.
* `LabelsExact` needs room for every label: past 10,000 (`pumpfun_ws.rs:53`) the cache
  drops the half of the labels that was unseen the longest, and their counts start anew.
* `LabelsExact`, `OneTokenPerGraduation` and `NewestWatched` are about one connection: a
  reconnect loses watchlist, dedup table and labels.  Reconciler and writer of a lost
  connection live on until the roster changes.  A refused creation subscription
  leaves the entry unsubscribed, and the delay after an error is not reset
  (`pumpfun_ws.rs:401`); neither is modelled.
* `graduated` may count a trade twice, from the socket and from the fetched history.

## 4. Finding

**The price of a graduated token freezes** (`feed_frozen`;
`monitoring/helius_price_ws.rs:365`).  The comment says that the cache has no entry
for graduated tokens (`monitoring/mod.rs:862`).  When the curve is completed while
the socket is down, the replayed subscription is never notified (the account does
not change again), the old entry stays, and `get_monitoring_price` serves it at any
age: stops, take-profits and the dip machine see a price that does not move.  Both
backends show it.

## 5. Proofs

Run `tlapm` on each `*Proofs.tla` and on `SumLemmas.tla`.  All theorems are about every
value of the constants under the modules' named assumptions (`TSAssumption`,
`BuyAssumption`, `ExitAssumption`, `MonitorAssumption`, `FeedAssumption`,
`TickAssumption`, `ReAssumption`, `LifecycleAssumption`, `MoonbagAssumption`,
`DetectionAssumption`, `GraphAssumption`, `PollAssumption`: amounts are
naturals, caps lie above the thresholds, `NaN` and `None` are not values of the data they
stand beside; finitely many mints, wallets, buyers, rows and positions, since they are summed
and counted).  They hold for *every* number of buyers, tasks, mints, signals, crashes and
late sells, any list of stages and any thresholds; the runs cover two or three of each.

### Sums and lists

`SumLemmas` has what the proofs about accumulation need.  The library's induction
theorems take an operator as a parameter, which the installed provers cannot
instantiate; here the claim of an induction is a *set*, the set of what has it:
`SubsetInduction` says that a set which contains a subset of `S` whenever it contains the
smaller ones contains all, `ElementInduction` the same one element at a time.  Both rest on
the well-foundedness of the strict subsets of a finite set.  From them follow that the
recursive function behind a fold over a set exists and is unique (`SumExists`,
`SumUnique`), and of `MapThenSumSet` that the sum does not depend on the order in which
elements are chosen (`SumTakeOut`), that it splits over a part and the rest (`SumSplit`), and
that it sees the weights of its set only (`SumSame`).  `MoonbagProofs` treats the fold over
indices in the same way (`IsFold`).

### Buying

* `BuyPathProofs!TypeCorrect`, `NoOrphan`: the types under every combination of failures;
  every pending mint has a holder, inductive as it stands.
* `Exclusive`: two buys of one mint are never in flight together, if
  the sweeper is off and the startup query succeeds.  Not inductive: a holder's
  mark could be lost to a release by a buyer that failed to insert.
  `ReservationInv` adds that an inserting buyer keeps the mint open with no row
  (so no exit can take the open mark away), that rows of one mint are unique, and
  that each row's mint is open once startup is over.
* `CooldownHolds`: the history of the last close and the map that the
  code keeps age together; while the cooldown counts, the entry is no older than the
  history, and pruning drops only what is at least two cooldowns old.
* `ExposureCounts`: the counter is what the open positions cost.  `ExposureInv` says it for
  the steps in between: the counter and what hydration has still to add are the sum
  over the rows, the buyers that have yet to insert and what leaked.  An exit therefore
  finds its own cost in the counter, and the cut-off at zero
  (`execution/state.rs:303`) never cuts.  The hypotheses are those of `Exclusive`, and for
  the reasons section 3 gives: the sweeper frees the configured size, a failed
  startup query leaves rows that were never counted.
* `SlackKept`: the cap is passed by at most the number of buyers less one, with the sweeper
  on and whatever fails.  `SlackInv` counts the mints bought in this run together with the
  buyers that have passed the check: each check adds one admitted buyer and sees all but
  the other buyers, each buy turns an admitted buyer into a mint.
* `Implements`: `ReSpec => Spec`, a refinement by identity: the watcher
  touches the trading state through the channel of the buyers only, so every theorem
  about the buy path holds beside it.  `CapHolds`: what is watched is a
  closed row of that mint that was seen before, and its attempts count at least the
  re-entries it led to; a seen row is not followed again.

### Selling

* `ExitProofs!TypeCorrect` contains arithmetic that
  matters: no attempt past the last tier, no sale beyond the effective amount, no
  fill beyond the sale, the wallet never negative though late sells compete with
  new ones.  Each step changes one task or the shared part; lemmas say that the new
  value of a task is well-formed (`RetriedOK`, `SettledOK`, ...), one lemma per kind of
  step lifts it to all tasks (`OneTask`, `LocalKept`).
* `OnlyOneTask`: never two tasks on one position, nor a task on the
  position the loop polls for.  `ClaimInv` adds that the mint of every task and of
  the polled signal is claimed; it survives `Release` because the task that drops
  the claim was the only one on its mint.
* `BooksBalance`, `ProceedsAdd`, `ClosedIsSold`: `BookedOnce`,
  `ReceivedIsProceeds` and `ClosedMeansSold` under the two assumptions they state:
  `Seen`, that confirmations, metadata, reads and writes of the row do not fail
  (`permanent`, `no_fill` and `balance_rpc` may happen), and `Sized`, that signals name
  the purchase or nothing.  None is inductive.  `AccountInv` says what a task carries
  at each of its steps: before a sell lands the accounts are `Even` and the tokens in
  the wallet are covered by the effective amount; from then until the row is read
  (`Sold`) the proceeds are ahead of the row by just the fill, the row is not closed
  (a closed row's wallet is empty, and nothing could have landed), and what is left
  in the wallet is at most what the task will compute; between the PATCH and
  `record_exit` the booked sum lags by just the increment.  `ClaimInv` is what makes
  it stand: no other task can change the row between its read and its PATCH.
* `ExposureFreed`: `ExposureFreedOnce` if, besides, every signal names the whole cost
  of its position (`Priced`).  `OpenInv` adds that a mint outside the open ones has an
  empty wallet, so that nothing of it can land any more, and that from a landed sell
  to `record_exit` the mint of the task is open: each close finds its slot.

### Monitoring

* `ExitProofs!MonTypeCorrect`: the engine keeps its types under the
  signals of monitors and watchers (whose cost may be NaN), a tally lies between
  nothing and the purchase, refusals stay within `MaxFailures`; the engine's steps
  are covered by the lemmas of the exit engine as they stand.  `OnlyOneTaskMonitored`: `ClaimInv`
  carried over, since no monitor touches claims or tasks.
* `TallyAlwaysCovers`: `TallyCovers`, if a confirmed sell moves what it was to move.  The
  monitor takes answers by mint alone, so the answers in its inbox may belong to any
  exits, several of them say sold, and each halves a tally.  Why the tally is never too
  low: an answer that says sold stands for a sell that did land and left at most the
  larger half.  `Covers` is the witness, a way down from what the monitor believes, with
  a half for each such answer in the inbox and one for a sell whose answer is not out
  yet, that never goes below the wallet.  `CoverInv` adds that every signal, task and
  polled signal was sized by a tally that covered the wallet.  `MoveCovers` shows it for
  every step of a task, the lemmas before it for the ends of the inbox.
* `TallyAlwaysWallet`, `StoppedIsSold`: `TallyIsWallet` and `StoppedMeansSold`, both from
  `LoneInv`: a position that no one else has sold from has *one* exit at a time, which is
  in the channel, polled, being sold, answered, or nowhere (a duplicate that the loop
  dropped), and at each of these places its amounts follow from what the monitor
  believes.  `Fits` compares the wallet with what should be there: equal if no sell can
  land after it was given up, at most it if one can.
* The hypotheses on `Faults` are needed; TLC has a counterexample for each that is dropped
  (`PositionMonitor_safety.cfg` with the fault added).  With `no_fill` all three fail: the
  answer says sold over tokens that are left.  With `timeout` `TallyIsWallet` fails: a sell
  given up lands after the tally was put back.  With `permanent` and `row_write`
  `StoppedMeansSold` fails: the monitor stops on a permanent answer whose mark was never
  written.  With `timeout` alone `StoppedMeansSold` holds, as the theorem says.
* `PositionLifeProofs!CtoIsDecided`: each look past the last stage has passed a stage.
  `PauseBounded`: past all patience each paused look counts a soft sign, of which two
  fit before the exit, or belongs to a recovery, which lasts at most three looks; the
  invariant bounds `paused` by the signs in each state of the dip machine.
* `SilenceBounded` (same module): while the last known price is alive, the silence is
  no longer than its age; once it has expired, each silent turn is also a blank one,
  and `MaxBlanks` of them end the loop.

### Moonbags and restarts

* `MoonbagProofs!RowsFollow`: the row patched with an exit is the row of the position that
  was sold.  `EmptiedClears`: removing indices from the last down takes just those entries
  out of the list, in whatever number, and sends and patches the same ones in the same
  order; by induction over the set of indices.
* `CapsHold`: `NotHeldPastCap`, whatever the price source and the checks answer.
* `LedgerKept`: `Spec => ImplementsLedger`, the refinement, step by step.  `MoonInv` says that
  a position is on its way, held, sold or refused, in one of these once; so an index stands
  for a position, and removing one is selling one.
* `PositionLifeProofs!OwnedOnce`: `OneOwner` through any number of crashes.  `OwnersInv` adds
  who may be together with whom: rows waiting for recovery have no other party, an
  awaited exit belongs to a watched position, a purchase without a row has nobody else.
* `MoonbagBacked`: `MoonbagRowBacked`.  `WrittenInv` adds that the task which marks the
  parent exists only once the row of the moonbag does, and that rows are never unwritten.
* `TokensCovered`: `WalletCovered` for any finite number of positions of any mints, through
  any number of crashes and failures.  `CoverInv` says it between two processes too, where
  the rows that recovery will find take the place of the owners, and adds that an exit of
  all has sold all of its claim when it settles.  Proving it for more than the one
  crash of the run is what showed the case of `LeftBehind` named in section 3; TLC
  confirmed it with two (7,043,244 states, both positions, every fault).

### Detection

All six properties of the run.  `DetInv`, on which they rest, says where a mint is: each is
created once, in the inbox or read, a creation not yet read has no entry of its own
anywhere, an entry of the watchlist names the creation of its mint in this connection,
times are those of creation, and a graduation the code knows of is one of the curve.
Trades and graduations may come in any number, twice or never, and `Reconnect` at any step.

* `YoungestWatched`: by `DetInv`; what `Trimmed` drops is no younger than what it keeps, and
  what comes in later is younger still.
* `OneTokenEach`: `HandInv` adds that what was handed on within the window is still in
  `emitted_complete`; the pruning of that table drops only what is past the window.
* `LanesFireOnce`, `LadderFilled`: `LanesInv` adds that the lanes recorded of a watched mint are
  the ones its entry says it fired, that they are a lower part of the ladder, and
  that a mint not yet created has none.
* `AllSubscribed`: `SubInv` looks at the *last* queued message about an account: it says
  what the reconciler believes, and where none is queued the server agrees.  Adds and
  drops may therefore overtake the writer in any number.
* `LabelsCounted`: `LabelsExact` if all labels fit the cache (`FewLabels`).  `LabelInv` says that
  the cache has observations of creations of this connection only, each once, and all that are
  within the window; the count is by a bijection between the two (`SignalInv`).

### Wallet graph

All four properties of the run (`FundingPollProofs`).  `PollTyped` has the shapes: a page is
a stretch of one parent's transactions above its cursor, every table is a
function into its records.  Each property then has an invariant of its own.  Three
kinds of step are all that the last three have to look at: a trade that happens and is
reported (`TradeStep`), one that is reported again from the chain (`RereadStep`), and a
step that leaves the histories of the mints alone (`QuietStep`).

* `PollSkipsNothing`: `NothingSkipped` without any hypothesis.  `AllRead` says it up to
  where the page has been processed (`ReadTo`), not up to the cursor, which moves only
  at the end of a page; the transactions in between are on the page, in order.
* `PollConvergesForReal`: `ConvergedForReal` under `OneRole` (no wallet on both sides of one
  mint).  `AllBought` says that whoever is among the touches of a mint did buy it, and
  so did each parent whose buy the chain tells of, so that a second report, after
  the first was pruned, brings in nobody who had not bought.
* `PollKeepsWatched`: `WatchedKept` with a socket that misses nothing and `Roomy` (the
  convergences fit their table).  `AllKept` says that a buy of the window is among the touches of its
  mint, that no awaited follow-up is late, and that while one is awaited the buyers of
  the window before its episode are all there, although that window has moved on.
* `PollSeesClusters`: `ClusterSeen` with a socket that misses nothing and `Apart` (no
  parent is watched as a child).
  `TouchesKnown` says that only mints that exist are touched, that a touch the chain tells of
  is one the graph has (a second report is nothing new), and that a key that counts as
  emitted has its row, so that clearing the keys forgets nothing that was not written.
* `PollCorrect`: all four together, from the constants alone: `Separate` (no wallet of a
  roster is fresh or watched from an earlier run) implies `Apart` and `OneRole`
  (`RolesApart`), and mints within the table's limit imply `Roomy` (`FewMints`).
  `FundingPoll_safety.cfg` satisfies these assumptions.  Each excludes a limit of the code
  named in section 3.

### Only model-checked

* The liveness properties (`LeakedSlotFreed`, `ClaimReleased`, `DumpNoticed`, `WatcherEnds`):
  liveness under fairness is out of the prover's reach.
* `ExposureFreedOnce` under timeouts and table failures, where the run admits more than
  the theorem's hypotheses.
* `LabelsExact` with more labels than the cache holds is outside the theorem's hypothesis
  and of the run: it is a limit (section 3).

## 6. Not modelled, and why

* *Within the modelled parts:* paper trades; `daily_stats`, which is read, added to and
  written back by concurrent exits and read by nobody else; cost and latency logs; the
  anti-chase check and the three submitters of a buy (a choice of outcome); a buy that
  lands after its timeout (the buy path has no chain); the seeded blacklist (data);
  limits of the signal channels; the transactions of the gRPC stream, whose receiver
  is never given; the parsing of transactions; pool look-ups (their outcome is an
  input); the texts of rows.
* *Pure I/O:* swap clients, supabase client, configuration parsing: their
  outcomes are choices of the modules, their values are constants.
* *No state to go wrong:* the narrative classifier, the filters, whose answers are
  choices of the modules that ask.
* *For analysis only, no trade depends on them:* sniper, bags monitor, enrichment
  sampler.
* *Switched off in the code:* the pollers of Raydium and of the search API, the
  trades observer, the evaluation of paper paths.
* *Startup:* the single-instance lock and the spawning of the engines, of which
  `main.rs` starts only some.

## 7. What could follow

Every safety property of a passing run is now stated by a theorem.  Further: a chain
under the buy path, for buys that land after they were given up; the answer channel of
`PositionMonitor` with its limit; the wallet graph with a socket that misses trades, where
a weaker `ClusterSeen`, about what was reported, should still hold.
