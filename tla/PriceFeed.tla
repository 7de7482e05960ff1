----------------------------- MODULE PriceFeed -----------------------------
(***************************************************************************)
(* Where the price of a position comes from: the multiplexed stream of     *)
(* bonding-curve accounts with its cache, by websocket (monitoring/        *)
(* helius_price_ws.rs) or by gRPC (monitoring/yellowstone_grpc.rs), the    *)
(* fetcher with its last known price (monitoring/price.rs), and the choice *)
(* the monitor makes between them (monitoring/mod.rs).  One mint; the      *)
(* stream may break at any time, and what happens while it is down is not  *)
(* told again.                                                             *)
(***************************************************************************)
EXTENDS Naturals, Sequences

CONSTANTS
  Unknown,
  Complete, Confirmed,  \* a finished curve; the answer to a subscription
  Quotes,         \* bound: prices on the curve and of the quotes
  Jump,           \* max_price_change_ratio, in tenths
  KnownFor,       \* LAST_KNOWN_MAX_AGE, in turns of the monitor
  MaxMisses,      \* MAX_CONSECUTIVE_FAILURES
  MaxBlanks,      \* MAX_ZERO_PRICES
  Refresh,        \* JUPITER_REFRESH_TICKS
  MaxSessions,       \* bound: connections
  MaxChanges,       \* bound: changes of the curve
  MaxTurns        \* bound: turns of the monitor

ASSUME FeedAssumption ==
  /\ Quotes \subseteq Nat \ {0}
  /\ Unknown \notin [price : Nat, age : Nat] \cup [price : Quotes, fresh : BOOLEAN]
  /\ {Jump, MaxMisses, Refresh} \subseteq Nat
  /\ {KnownFor, MaxBlanks} \subseteq Nat \ {0}

VARIABLES
  grpc,      \* which of the two streams is configured
  curve,     \* the account: its price, or Complete
  changes,     \* changes of the account so far
  link,      \* the socket is open
  sessions,     \* connections so far
  streams,   \* the server streams the account on this connection
  updates,      \* what the server has sent and the socket has not delivered
  sub,       \* the entry of the mint in the multiplexer
  cache,     \* its price and whether it is fresh, or Unknown
  commands,  \* from the monitor to the multiplexer
  known,     \* the last known price and its age, or Unknown
  misses,  \* failure_count
  monitor,   \* "new", "on" or "over"
  turns,     \* price_poll_counter
  blanks,     \* consecutive_zero_prices
  silent     \* history: turns since a source told a price that was believed

feedVars == <<grpc, curve, changes, link, sessions, streams, updates, sub, cache, commands,
              known, misses, monitor, turns, blanks, silent>>

FeedInit ==
  /\ grpc \in BOOLEAN
  /\ curve \in Quotes \cup {Complete}
  /\ link = FALSE /\ streams = FALSE /\ updates = << >> /\ commands = << >>
  /\ sub = "none" /\ cache = Unknown /\ known = Unknown
  /\ monitor = "new"
  /\ changes = 0 /\ sessions = 0 /\ misses = 0 /\ turns = 0 /\ blanks = 0 /\ silent = 0

fetcher == <<known, misses>>
looker == <<monitor, turns, blanks, silent>>

-----------------------------------------------------------------------------
(* The account and the websocket.  The server notifies changes only: a         *)
(* subscription to an account that does not change is silent.               *)

Change(to) ==
  /\ curve # Complete /\ to # curve
  /\ changes < MaxChanges
  /\ curve' = to
  /\ changes' = changes + 1
  /\ updates' = IF streams THEN Append(updates, to) ELSE updates
  /\ UNCHANGED <<link, sessions, streams, sub, cache, commands, fetcher, looker>>

\* On a new connection every entry is subscribed again.
Connect ==
  /\ ~grpc /\ ~link /\ sessions < MaxSessions
  /\ link' = TRUE
  /\ sessions' = sessions + 1
  /\ streams' = (sub # "none")
  /\ updates' = IF sub # "none" THEN <<Confirmed>> ELSE << >>
  /\ UNCHANGED <<curve, changes, sub, cache, commands, fetcher, looker>>

Disconnect ==
  /\ ~grpc /\ link
  /\ link' = FALSE /\ streams' = FALSE /\ updates' = << >>
  /\ sub' = IF sub = "none" THEN "none" ELSE "pending"
  /\ UNCHANGED <<curve, changes, sessions, cache, commands, fetcher, looker>>

\* The multiplexer takes a command; it reads them only while it is connected.
\* A confirmation that is still on its way finds no entry.
Command ==
  /\ ~grpc /\ link /\ commands # << >>
  /\ commands' = Tail(commands)
  /\ \/ /\ Head(commands) = "subscribe"
        /\ sub = "none"
        /\ sub' = "pending" /\ streams' = TRUE
        /\ updates' = Append(updates, Confirmed)
        /\ UNCHANGED cache
     \/ /\ Head(commands) = "unsubscribe"
        /\ sub # "none"
        /\ sub' = "none" /\ cache' = Unknown
        /\ streams' = (sub = "pending")
        /\ UNCHANGED updates
     \/ /\ (sub = "none") # (Head(commands) = "subscribe")
        /\ UNCHANGED <<sub, cache, streams, updates>>
  /\ UNCHANGED <<curve, changes, link, sessions, fetcher, looker>>

\* A notification is told from others by its confirmed subscription.  A
\* completed curve is dropped; before SOL has a price nothing is written.
Deliver(solPriced) ==
  /\ ~grpc /\ link /\ updates # << >>
  /\ updates' = Tail(updates)
  /\ LET note == Head(updates)
     IN  \/ /\ note = Confirmed
            /\ sub' = IF sub = "pending" THEN "confirmed" ELSE sub
            /\ UNCHANGED cache
         \/ /\ note = Complete /\ sub = "confirmed"
            /\ sub' = "none" /\ cache' = Unknown
         \/ /\ note \in Quotes /\ sub = "confirmed"
            /\ cache' = IF solPriced THEN [price |-> note, fresh |-> TRUE] ELSE cache
            /\ UNCHANGED sub
         \/ /\ note # Confirmed /\ sub # "confirmed"
            /\ UNCHANGED <<sub, cache>>
  /\ UNCHANGED <<curve, changes, link, sessions, streams, commands, fetcher, looker>>

-----------------------------------------------------------------------------
(* The gRPC stream.  A request replaces the one before it, covers all       *)
(* entries, and is not confirmed: an entry is there or not.                 *)

Requested == streams' = (sub' = "confirmed")

GrpcConnect ==
  /\ grpc /\ ~link /\ sessions < MaxSessions
  /\ link' = TRUE
  /\ sessions' = sessions + 1
  /\ UNCHANGED <<curve, changes, updates, sub, cache, commands, fetcher, looker>>
  /\ Requested

\* Also when a request cannot be sent: the entries stay as they are.
GrpcDisconnect ==
  /\ grpc /\ link
  /\ link' = FALSE /\ streams' = FALSE /\ updates' = << >>
  /\ UNCHANGED <<curve, changes, sessions, sub, cache, commands, fetcher, looker>>

\* A mint that is subscribed already sends no request.
GrpcCommand ==
  /\ grpc /\ link /\ commands # << >>
  /\ commands' = Tail(commands)
  /\ IF (sub = "none") = (Head(commands) = "subscribe")
     THEN /\ sub' = IF sub = "none" THEN "confirmed" ELSE "none"
          /\ cache' = IF sub' = "none" THEN Unknown ELSE cache
          /\ Requested
     ELSE UNCHANGED <<sub, cache, streams>>
  /\ UNCHANGED <<curve, changes, link, sessions, updates, fetcher, looker>>

\* An update is told from others by its account.  The entry of a completed
\* curve goes without a new request.
GrpcDeliver(solPriced) ==
  /\ grpc /\ link /\ updates # << >>
  /\ updates' = Tail(updates)
  /\ IF sub = "none" THEN UNCHANGED <<sub, cache>>
     ELSE \/ /\ Head(updates) = Complete
             /\ sub' = "none" /\ cache' = Unknown
          \/ /\ Head(updates) \in Quotes
             /\ cache' = IF solPriced THEN [price |-> Head(updates), fresh |-> TRUE]
                                      ELSE cache
             /\ UNCHANGED sub
  /\ UNCHANGED <<curve, changes, link, sessions, streams, commands, fetcher, looker>>

-----------------------------------------------------------------------------
(* The fetcher.  Each of its functions yields a price and what is kept. *)

Yields(price, k, n) == [price |-> price, known |-> k, misses |-> n]
Now(price) == [price |-> price, age |-> 0]

\* Mutant of LastKnown: it never expires.
LastKnownForever(k) == IF k # Unknown THEN k.price ELSE 0

LastKnown(k) == IF k # Unknown /\ k.age < KnownFor THEN k.price ELSE 0

\* A jump against the last known price is not believed, nor is zero.
Validated(price, last) ==
  LET apart == IF price > last THEN price - last ELSE last - price
  IN  IF price = 0 \/ (last > 0 /\ 10 * apart >= Jump * last) THEN last ELSE price

Accepted(price, k) ==
  LET valid == Validated(price, LastKnown(k))
  IN  Yields(valid, IF valid = price THEN Now(price) ELSE k, 0)

\* The quote of the swap, else the price services, else the last known price
\* until that has served too often.
Answers == Quotes \cup {0, Unknown}

Fallbacks(k, n) ==
  {IF a # Unknown THEN Accepted(a, k)
   ELSE Yields(IF n + 1 >= MaxMisses THEN 0 ELSE LastKnown(k), k, n + 1) :
     a \in Answers}

GetPrice(k, n) ==
  IF cache # Unknown /\ cache.fresh THEN {Yields(cache.price, Now(cache.price), 0)}
  ELSE LET quotes == {Accepted(a, k) : a \in Answers \ {Unknown}}
       IN  {q \in quotes : q.price > 0}
           \cup (IF \E q \in quotes : q.price = 0 THEN Fallbacks(k, 0) ELSE {})
           \cup Fallbacks(k, n)

\* At any age.
GetMonitoringPrice(k, n) ==
  IF cache # Unknown THEN Yields(cache.price, Now(cache.price), 0)
                  ELSE Yields(LastKnown(k), k, n)

-----------------------------------------------------------------------------
Open ==
  /\ monitor = "new"
  /\ monitor' = "on"
  /\ commands' = Append(commands, "subscribe")
  /\ UNCHANGED <<curve, changes, link, sessions, streams, updates, sub, cache, fetcher,
                 turns, blanks, silent>>

\* Of any cause; the last known price goes with the monitor.
Closes(n) ==
  /\ monitor' = "over"
  /\ commands' = Append(commands, "unsubscribe")
  /\ known' = Unknown /\ misses' = 0

Close ==
  /\ monitor = "on"
  /\ Closes(0)
  /\ UNCHANGED <<curve, changes, link, sessions, streams, updates, sub, cache, turns,
                 blanks, silent>>

\* A look at the price: the cache, every third time a quote, else the last
\* known price; and a quote if that is zero.
Looks(k, n) ==
  LET first  == IF cache = Unknown /\ turns' % Refresh = 0 THEN GetPrice(k, n)
                ELSE {GetMonitoringPrice(k, n)}
  IN  {y \in first : y.price > 0}
      \cup UNION {GetPrice(y.known, y.misses) : y \in {z \in first : z.price = 0}}

Older(k) == IF k = Unknown \/ k.age >= KnownFor THEN k ELSE [k EXCEPT !.age = @ + 1]

Turn ==
  /\ monitor = "on" /\ turns < MaxTurns
  /\ turns' = turns + 1
  /\ \E y \in Looks(Older(known), misses) :
       /\ blanks' = IF y.price = 0 THEN blanks + 1 ELSE 0
       /\ silent' = IF y.price > 0 /\ y.known.age = 0 THEN 0 ELSE silent + 1
       /\ \/ /\ blanks' < MaxBlanks
             /\ known' = y.known /\ misses' = y.misses
             /\ UNCHANGED <<monitor, commands>>
          \/ /\ blanks' >= MaxBlanks
             /\ Closes(0)
  /\ cache' = IF cache = Unknown THEN Unknown ELSE [cache EXCEPT !.fresh = FALSE]
  /\ UNCHANGED <<curve, changes, link, sessions, streams, updates, sub>>

FeedNext ==
  /\ \/ \E to \in Quotes \cup {Complete} : Change(to)
     \/ Connect \/ GrpcConnect
     \/ Disconnect \/ GrpcDisconnect
     \/ Command \/ GrpcCommand
     \/ \E solPriced \in BOOLEAN : Deliver(solPriced) \/ GrpcDeliver(solPriced)
     \/ Open
     \/ Close
     \/ Turn
  /\ UNCHANGED grpc

FeedSpec == FeedInit /\ [][FeedNext]_feedVars

-----------------------------------------------------------------------------
\* Connected, subscribed as far as it is asked, and everything delivered.
CaughtUp == link /\ updates = << >> /\ commands = << >> /\ sub # "pending"

(***************************************************************************)
(* "For GRADUATED tokens (PumpSwap/Raydium): WS cache has no entry"        *)
(* (monitoring/mod.rs:862): once the socket is connected, every            *)
(* subscription is confirmed and every message is read, the cache holds no *)
(* price of a curve that is complete.                                      *)
(***************************************************************************)
GraduatedHasNoEntry == CaughtUp /\ curve = Complete => cache = Unknown

(***************************************************************************)
(* A position no source tells a price of is given up, as after "this many  *)
(* consecutive zero-price readings" (monitoring/mod.rs:741): the last known *)
(* price, which is served between the looks, interrupts the count, but only *)
(* until it expires.  The cache of the stream counts as a source.           *)
(***************************************************************************)
SilenceEnds == silent < KnownFor + MaxBlanks

(***************************************************************************)
(* "After this many consecutive zero-price readings, fire emergency exit"  *)
(* (monitoring/mod.rs:741), "60 seconds of no price data": a position no   *)
(* source tells a price of is given up after as many turns.                *)
(***************************************************************************)
DeadTokenGivenUp == silent <= MaxBlanks + Refresh
=============================================================================
