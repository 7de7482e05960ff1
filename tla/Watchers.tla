------------------------------ MODULE Watchers ------------------------------
(***************************************************************************)
(* The websocket watchers of one position (monitoring/helius_ws.rs) as the *)
(* monitor arms them (monitoring/mod.rs): of the tokens of the developer,  *)
(* of the liquidity, and of the two vaults whose balances tell the trades  *)
(* of the pool.  They share nothing but the end of the monitor, so a       *)
(* behaviour follows one of them.  The server tells changes while the      *)
(* socket is open and nothing else; it may close at any time, and stay     *)
(* closed for ever.                                                        *)
(***************************************************************************)
EXTENDS Integers, Sequences

CONSTANTS
  Balances,    \* bound: balances of the watched accounts
  Threshold,   \* dev_dump_threshold_pct, lp_drop_threshold_pct
  MaxLinks,    \* bound: connections
  MaxMoves     \* bound: changes of the accounts

VARIABLES
  kind,      \* "dev", "liquidity" or "trades"
  vaults,    \* "read" from the pool, or "guessed"
  account,   \* on the chain: the tokens (or lamports) watched, and the SOL
  moves,     \* changes so far
  watcher,   \* "armed", "down", "up" or "done"
  links,     \* connections so far
  base,      \* the balances it starts from
  last,      \* the balances it was told on this connection, at first the base
  wire,      \* notifications on their way
  ticks,     \* the trades as the monitor is told them
  over,      \* the monitor has ended, and told its watchers
  noticed,   \* who has sold the position, or begun the takeover evaluation
  told       \* history: the tokens it was told on any connection

watchVars == <<kind, vaults, account, moves, watcher, links, base, last, wire, ticks,
               over, noticed, told>>
chain == <<kind, vaults, account, moves>>
reading == <<last, wire, ticks, told>>

\* A pool that cannot be read, or is not of PumpSwap, is taken for one of
\* Raydium, whose vaults follow from its address.
Resolved == {"read", "guessed"}

\* A developer without tokens has no watcher.  The others begin with a look
\* at the chain.
WatchInit ==
  /\ kind \in {"dev", "liquidity", "trades"}
  /\ vaults \in IF kind = "trades" THEN Resolved ELSE {"read"}
  /\ account \in [tokens : Balances \ {0}, sol : Balances \ {0}]
  /\ watcher = IF kind = "dev" THEN "down" ELSE "armed"
  /\ base = account /\ last = account /\ told = account.tokens
  /\ moves = 0 /\ links = 0 /\ wire = << >> /\ ticks = << >>
  /\ over = FALSE /\ noticed = {}

-----------------------------------------------------------------------------
(* The chain, and the orders in which the changes of a slot are told.       *)

Note(field, now) == [of |-> field, now |-> now]

Told(orders) == wire' \in IF watcher = "up" THEN {wire \o o : o \in orders} ELSE {wire}

Moves(to, paid) ==
  /\ moves < MaxMoves
  /\ moves' = moves + 1
  /\ account' = [tokens |-> to, sol |-> paid]
  /\ UNCHANGED <<kind, vaults, watcher, links, base, last, ticks, over, noticed, told>>

Transfer(to) ==
  /\ kind # "trades" /\ to # account.tokens
  /\ Told({<<Note("tokens", to)>>})
  /\ Moves(to, account.sol)

\* A buyer takes tokens and leaves SOL, which a wrong guess does not show.
Trade(to, paid) ==
  /\ kind = "trades"
  /\ (to < account.tokens /\ paid > account.sol) \/ (to > account.tokens /\ paid < account.sol)
  /\ Told({<<Note("tokens", to), Note("sol", paid)>>,
           <<Note("sol", paid), Note("tokens", to)>>}
          \cup IF vaults = "read" THEN {} ELSE {<<Note("tokens", to)>>})
  /\ Moves(to, paid)

-----------------------------------------------------------------------------
(* The life of a watcher. *)

\* A look that fails disables the watcher.
Begins ==
  /\ watcher = "armed"
  /\ \/ /\ watcher' = "done"
        /\ UNCHANGED <<base, told>>
     \/ /\ watcher' = "down"
        /\ base' = account /\ told' = account.tokens
  /\ UNCHANGED <<chain, links, last, wire, ticks, over, noticed>>

\* After the grace period, unless the monitor has ended by then; without a
\* balance there is nothing to watch.
BeginLiquidity ==
  /\ kind = "liquidity"
  /\ Begins
  /\ watcher' = "down" => account.tokens > 0

BeginTrades == kind = "trades" /\ Begins

\* A connection starts from the base again, not from what was told before.
OpenSocket ==
  /\ watcher = "down" /\ links < MaxLinks
  /\ watcher' = "up"
  /\ links' = links + 1
  /\ last' = base /\ wire' = << >>
  /\ UNCHANGED <<chain, base, ticks, over, noticed, told>>

\* Mutant of AfterError: it tries again whatever the monitor says.
AfterErrorAgain == "down"

\* It waits and tries again, unless the monitor has ended.
AfterError == IF over THEN "done" ELSE "down"

Breaks ==
  /\ watcher \in {"down", "up"}
  /\ watcher' = AfterError
  /\ wire' = << >>
  /\ UNCHANGED <<chain, links, base, last, ticks, over, noticed, told>>

ShutDown ==
  /\ watcher = "up" /\ over
  /\ watcher' = "done"
  /\ UNCHANGED <<chain, links, base, reading, over, noticed>>

-----------------------------------------------------------------------------
(* Notifications. *)

Drop(from, to) == IF to < from THEN (100 * (from - to)) \div from ELSE 0

\* An alarm sells the position and ends the watcher.
Alarm(now) ==
  /\ IF Drop(base.tokens, now) >= Threshold
     THEN watcher' = "done" /\ noticed' = noticed \cup {"socket"}
     ELSE UNCHANGED <<watcher, noticed>>
  /\ UNCHANGED <<last, ticks, told>>

Direction(from, to) == IF to < from THEN "buy" ELSE "sell"

\* Tokens that leave the vault were bought.
Tick(now) ==
  /\ IF now = last.tokens THEN UNCHANGED <<last, ticks>>
     ELSE /\ last' = [last EXCEPT !.tokens = now]
          /\ ticks' = Append(ticks, [direction |-> Direction(last.tokens, now), sol |-> 0,
                                     real |-> Direction(told, now)])
  /\ told' = now
  /\ UNCHANGED <<watcher, noticed>>

\* SOL is that of the last tick, if the tick is young and has none yet.
Amount(now) ==
  LET size == IF now > last.sol THEN now - last.sol ELSE last.sol - now
      n == Len(ticks)
  IN  /\ last' = [last EXCEPT !.sol = now]
      /\ ticks' \in {ticks} \cup
           IF n > 0 /\ ticks[n].sol = 0 THEN {[ticks EXCEPT ![n].sol = size]} ELSE {}
      /\ UNCHANGED <<watcher, noticed, told>>

Hear ==
  /\ watcher = "up" /\ wire # << >>
  /\ wire' = Tail(wire)
  /\ LET note == Head(wire)
     IN  \/ kind # "trades" /\ Alarm(note.now)
         \/ kind = "trades" /\ note.of = "tokens" /\ Tick(note.now)
         \/ kind = "trades" /\ note.of = "sol" /\ Amount(note.now)
  /\ UNCHANGED <<chain, links, base, over>>

-----------------------------------------------------------------------------
(* The monitor: its own look at the developer, and its end. *)

\* Mutant of DevCheck: the socket is trusted while it is open.
DevCheckWhenDown ==
  /\ kind = "dev" /\ ~over /\ watcher # "up"
  /\ Drop(base.tokens, account.tokens) > Threshold
  /\ noticed' = noticed \cup {"poll"}
  /\ UNCHANGED <<chain, watcher, links, base, reading, over>>

\* A look that fails changes nothing.  Who has sold everything may be the
\* beginning of a takeover, or too small to matter.
DevCheck ==
  /\ kind = "dev" /\ ~over
  /\ Drop(base.tokens, account.tokens) > Threshold
  /\ noticed' \in {noticed \cup {"poll"}} \cup (IF account.tokens = 0 THEN {noticed} ELSE {})
  /\ UNCHANGED <<chain, watcher, links, base, reading, over>>

MonitorEnds ==
  /\ ~over /\ over' = TRUE
  /\ UNCHANGED <<chain, watcher, links, base, reading, noticed>>

WatchNext ==
  \/ \E to \in Balances : Transfer(to)
  \/ \E to, paid \in Balances : Trade(to, paid)
  \/ BeginLiquidity \/ BeginTrades
  \/ OpenSocket \/ Breaks \/ ShutDown
  \/ Hear
  \/ DevCheck \/ MonitorEnds

\* The tasks run, and the monitor looks again and again; that a connection is
\* ever made, or that the monitor ends, is not assumed.
WatchFair ==
  /\ WF_watchVars(BeginLiquidity \/ BeginTrades)
  /\ WF_watchVars(OpenSocket \/ (watcher = "down" /\ Breaks))
  /\ WF_watchVars(ShutDown)
  /\ WF_watchVars(Hear)
  /\ WF_watchVars(DevCheck)

WatchSpec == WatchInit /\ [][WatchNext]_watchVars /\ WatchFair

-----------------------------------------------------------------------------
(***************************************************************************)
(* "Falls back gracefully to the polling-based monitoring if the WebSocket *)
(* is unavailable" (monitoring/helius_ws.rs:35-36): a developer who has    *)
(* sold more than the threshold, but not all, is noticed while the monitor *)
(* lives, even if the sale fell between two connections and is never told. *)
(***************************************************************************)
Dumped == kind = "dev" /\ account.tokens > 0
            /\ Drop(base.tokens, account.tokens) > Threshold

DumpNoticed == <>[]Dumped => <>(noticed # {} \/ over)

(***************************************************************************)
(* "Signal Helius watchers to shut down when monitoring ends"              *)
(* (monitoring/mod.rs:2351): no watcher outlives its monitor for ever,     *)
(* whether it waits, is connected, or cannot connect any more.             *)
(***************************************************************************)
WatcherEnds == over ~> watcher = "done"

(***************************************************************************)
(* "Balance decreases -> someone bought tokens" (monitoring/               *)
(* helius_ws.rs:190): every tick has the direction of the change it was    *)
(* told of.  Not so after a reconnect, which compares with the base again. *)
(***************************************************************************)
DirectionIsReal == \A i \in DOMAIN ticks : ticks[i].direction = ticks[i].real
=============================================================================
