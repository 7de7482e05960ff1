------------------------------ MODULE Detection ------------------------------
(***************************************************************************)
(* The detection socket (detection/pumpfun_ws.rs): a watchlist of the      *)
(* mints created on pump.fun, fed by the messages of one connection, and   *)
(* the graduations it hands on.  A handler runs to its end before the next *)
(* message is read, and only the send of a graduated token may make it     *)
(* wait.  The rows of a fired lane and of a graduation are written by      *)
(* tasks of their own that nobody waits for; here a lane that fires is     *)
(* counted, and its row is not followed further.                           *)
(*                                                                         *)
(* The observations of the wallet graph that the handlers make are in      *)
(* WalletGraph; what a graduation asks of the chain is in its result.      *)
(***************************************************************************)
EXTENDS DetectionSocket

CONSTANTS
  Mints, Creators, LabelOf(_), CreatorOf(_),
  NoLabel,        \* the label of a name without letters or digits
  Levels,         \* progress of a curve a trade may report, in percent or None
  Skeleton,       \* entry_skeleton_mode
  MaxWatch,       \* MAX_WATCHLIST_SIZE
  MaxScores,      \* MAX_BC_CACHE_SIZE
  DedupWindow,    \* COMPLETE_DEDUP_WINDOW_MS
  EnoughTrades,   \* 20: with so many trades no history is fetched
  ChannelSize,    \* CHANNEL_CAPACITY
  MaxEvents,      \* bound of the model: what happens on pump.fun
  MaxInbox,       \* bound of the model: unread messages
  TimeBound       \* bound of the model: the clock stops here

ASSUME DetectionAssumption ==
  /\ IsFiniteSet(Mints) /\ Levels \subseteq Nat \cup {None} /\ None \notin Nat
  /\ MaxWatch \in Nat \ {0} /\ MaxScores \in Nat \ {0} /\ DedupWindow \in Nat /\ EnoughTrades \in Nat
  /\ ChannelSize \in Nat \ {0} /\ MaxEvents \in Nat /\ MaxInbox \in Nat
  /\ TimeBound \in Nat /\ Skeleton \in BOOLEAN

VARIABLES
  now,
  inbox,          \* messages not yet read
  watch,          \* watchlist
  labels,         \* recent_labels
  completed,      \* emitted_complete: mint |-> time
  scores,         \* the BcScoreCache the filters read: mint |-> score
  sending,        \* the graduated token the handler is handing on, or None
  channel,        \* tokens on their way to the filters
  curve,          \* mint |-> what really happened to it (external)
  events,         \* bounds what happens
  fires,          \* history: how often a lane was fired, per mint
  created,        \* history: creations read, in order
  handed          \* history: tokens handed on, in order

vars == <<socketVars, now, inbox, watch, labels, completed, scores, sending, channel,
          curve, events, fires, created, handed>>

Watching == <<watch, labels, completed, scores>>
Pipe == <<sending, channel>>
World == <<inbox, curve, events>>
History == <<fires, created, handed>>

Init ==
  /\ SocketInit /\ now = 0 /\ inbox = <<>> /\ watch = <<>> /\ labels = <<>>
  /\ completed = <<>> /\ scores = <<>> /\ sending = None /\ channel = <<>>
  /\ curve = [m \in Mints |-> [born |-> FALSE, done |-> FALSE, trades |-> 0]]
  /\ events = 0 /\ fires = [m \in Mints |-> [l \in Lanes |-> 0]]
  /\ created = <<>> /\ handed = <<>>

-----------------------------------------------------------------------------
(* pump.fun.  A message reaches the inbox if the connection is up and      *)
(* subscribed to it; everything else is lost.                              *)

Happens(m, curveOfM) ==
  /\ events < MaxEvents /\ events' = events + 1
  /\ curve' = [curve EXCEPT ![m] = curveOfM]

Tell(msg, subscribed) ==
  IF conn = "up" /\ subscribed
  THEN Len(inbox) < MaxInbox /\ inbox' = Append(inbox, msg)
  ELSE inbox' = inbox

ElseUnchanged == UNCHANGED <<socketVars, Watching, Pipe, History, now>>

Create(m) ==
  /\ ~curve[m].born
  /\ Happens(m, [curve[m] EXCEPT !.born = TRUE])
  /\ Tell([kind |-> "create", mint |-> m], TRUE) /\ ElseUnchanged

Told(m, by, buy, level, echo) ==
  Tell([kind |-> "trade", mint |-> m, by |-> by, buy |-> buy, level |-> level,
        echo |-> echo], m \in serverMints \/ by \in serverAccounts)

Trade(m, by, buy, level) ==
  /\ curve[m].born /\ ~curve[m].done
  /\ Happens(m, [curve[m] EXCEPT !.trades = @ + 1])
  /\ Told(m, by, buy, level, FALSE) /\ ElseUnchanged

\* The creator's first buy may come with its amount in tokens.
Echo(m) ==
  /\ curve[m].born /\ ~curve[m].done /\ curve[m].trades = 0
  /\ Happens(m, [curve[m] EXCEPT !.trades = @ + 1])
  /\ Told(m, CreatorOf(m), TRUE, None, TRUE) /\ ElseUnchanged

\* pump.fun may tell of one graduation twice (migrate and complete).
Graduate(m) ==
  /\ curve[m].born /\ Happens(m, [curve[m] EXCEPT !.done = TRUE])
  /\ Tell([kind |-> "complete", mint |-> m], TRUE) /\ ElseUnchanged

Tick ==
  /\ now < TimeBound /\ now' = now + 1
  /\ UNCHANGED <<socketVars, Watching, Pipe, World, History>>

-----------------------------------------------------------------------------
(* The read loop.                                                          *)

Read(kind) ==
  /\ conn = "up" /\ sending = None /\ inbox # <<>> /\ Head(inbox).kind = kind
  /\ inbox' = Tail(inbox)

Dropped(f, x) == [y \in DOMAIN f \ {x} |-> f[y]]
Put(f, x, v) == [y \in DOMAIN f \cup {x} |-> IF y = x THEN v ELSE f[y]]

\* Mutant of Trimmed: the youngest go.
TrimmedYoungest(f, n) ==
  {[x \in S |-> f[x]] : S \in {T \in SUBSET DOMAIN f :
     /\ Cardinality(DOMAIN f \ T) = n
     /\ \A x \in T, y \in DOMAIN f \ T : f[x].at <= f[y].at}}

\* The n oldest entries go; those of one time in any order.
Trimmed(f, n) ==
  {[x \in S |-> f[x]] : S \in {T \in SUBSET DOMAIN f :
     /\ Cardinality(DOMAIN f \ T) = n
     /\ \A x \in T, y \in DOMAIN f \ T : f[y].at <= f[x].at}}

\* A watchlist, or the cache of scores, that has reached its limit loses its
\* oldest half.
Halved(f, limit) ==
  IF Cardinality(DOMAIN f) < limit THEN {f}
  ELSE Trimmed(f, Cardinality(DOMAIN f) \div 2)

\* compute_recent_label_signal: nothing for the empty label.
LabelOutcomes(m) ==
  IF LabelOf(m) = NoLabel
  THEN {<<labels, [mints |-> 0, creators |-> 0, gap |-> None]>>}
  ELSE {<<Noted(pruned, LabelOf(m), m, CreatorOf(m), now),
          LabelSignal(pruned, LabelOf(m), m, now)>> : pruned \in LabelPrunings(labels, now)}

\* The subscription to the trades of m; without a writer it fails, and the
\* entry stays.
Subscribe(m) ==
  outbox' = IF writer THEN Append(outbox, [op |-> "token", keys |-> {m}]) ELSE outbox

\* handle_new_token.
HandleNewToken ==
  /\ Read("create")
  /\ LET m == Head(inbox).mint
     IN  /\ \E outcome \in LabelOutcomes(m), kept \in Halved(watch, MaxWatch) :
              /\ labels' = outcome[1]
              /\ watch' = Put(kept, m, NewEntry(CreatorOf(m), outcome[2], now))
         /\ Subscribe(m)
         /\ created' = Append(created, [mint |-> m, at |-> now, in |-> generation])
  /\ UNCHANGED <<conn, generation, writer, roster, rosterChanges, accounts,
                 serverAccounts, serverMints, completed, scores, Pipe, curve,
                 events, fires, handed, now>>

Count(m, lanes) ==
  [fires EXCEPT ![m] = [l \in Lanes |-> IF l \in lanes THEN @[l] + 1 ELSE @[l]]]

\* The score of the volume signal, for the fast track of the filters.
Scored(m, e) ==
  Halved(Put(scores, m, [score |-> EntryScore(e), at |-> now]), MaxScores)

\* handle_token_trade: only the first-minute lane fires in skeleton mode.
HandleTokenTrade ==
  /\ Read("trade")
  /\ LET msg == Head(inbox)
         m == msg.mint
         e == Traded(watch[m], msg.by, msg.buy, msg.level)
         lanes == Firing(e, FirstMinuteLane(e, now)
                            \cup IF Skeleton THEN {} ELSE TradeLanes(e, msg.buy, now))
     IN  IF m \notin DOMAIN watch \/ msg.echo
         THEN UNCHANGED <<watch, scores, fires>>
         ELSE /\ watch' = [watch EXCEPT ![m] = Fired(e, lanes)]
              /\ fires' = Count(m, lanes)
              /\ scores' \in IF "volume_50sol" \in lanes THEN Scored(m, e) ELSE {scores}
  /\ UNCHANGED <<socketVars, labels, completed, Pipe, curve, events, created,
                 handed, now>>

\* What the history of a mint adds to its counts; a failed request adds
\* nothing, and with enough trades of its own none is made.
Fetched(m) ==
  IF m \in DOMAIN watch /\ Volume(watch[m]) >= EnoughTrades THEN {0}
  ELSE {0, curve[m].trades}

\* handle_token_complete with an entry or without.  The lanes see the counts
\* with the history merged in.
HandOn(m, more) ==
  LET known == m \in DOMAIN watch
      e == [watch[m] EXCEPT !.buys = @ + more]
      lanes == IF known THEN Firing(e, GraduationLanes(e)) ELSE {}
      token == [mint |-> m, at |-> now, in |-> generation, known |-> known,
                seen |-> known /\ watch[m].level # None,
                trades |-> more + IF known THEN Volume(watch[m]) ELSE 0]
  IN  /\ watch' = Dropped(watch, m)
      /\ sending' = token /\ handed' = Append(handed, token)
      /\ fires' = Count(m, lanes)

\* Mutant of Fresh: only the window is applied after the look-up.
FreshForgets == [m \in {} |-> 0]

\* emitted_complete without what is older than the window; its limit of 5000
\* in five minutes is not reached.
Fresh ==
  [m \in {n \in DOMAIN completed : now - completed[n] < DedupWindow} |-> completed[m]]

\* A graduation message: a second one within the window is dropped, and the
\* first is noted before it is handled.
HandleTokenComplete ==
  /\ Read("complete")
  /\ LET m == Head(inbox).mint
     IN  IF m \in DOMAIN Fresh
         THEN completed' = Fresh /\ UNCHANGED <<watch, sending, handed, fires>>
         ELSE /\ completed' = Put(Fresh, m, now)
              /\ IF Skeleton
                 THEN /\ watch' = Dropped(watch, m)
                      /\ UNCHANGED <<sending, handed, fires>>
                 ELSE \E more \in Fetched(m) : HandOn(m, more)
  /\ UNCHANGED <<socketVars, labels, scores, channel, curve, events, created, now>>

\* The last step of the handler waits for room in the channel.
SendToken ==
  /\ sending # None /\ Len(channel) < ChannelSize
  /\ channel' = Append(channel, sending) /\ sending' = None
  /\ UNCHANGED <<socketVars, Watching, World, History, now>>

\* The filters take the next token (external).
TakeToken ==
  /\ channel # <<>> /\ channel' = Tail(channel)
  /\ UNCHANGED <<socketVars, Watching, sending, World, History, now>>

-----------------------------------------------------------------------------
\* A connection starts with an empty watchlist, no labels and no graduations.
Connect ==
  /\ Opened /\ inbox' = <<>>
  /\ watch' = <<>> /\ labels' = <<>> /\ completed' = <<>>
  /\ UNCHANGED <<scores, Pipe, curve, events, History, now>>

\* The read loop ends between two messages; what is unread is lost, and with
\* it the watchlist.
Disconnect ==
  /\ sending = None /\ Lost /\ inbox' = <<>>
  /\ watch' = <<>> /\ labels' = <<>> /\ completed' = <<>>
  /\ UNCHANGED <<scores, Pipe, curve, events, History, now>>

SocketAlone ==
  SocketStep /\ UNCHANGED <<Watching, Pipe, World, History, now>>

PumpFun ==
  \/ \E m \in Mints : Create(m) \/ Echo(m) \/ Graduate(m)
  \/ \E m \in Mints, by \in Creators, buy \in BOOLEAN, level \in Levels :
        Trade(m, by, buy, level)

Next ==
  \/ PumpFun \/ Tick \/ SocketAlone \/ Connect
  \/ Disconnect
  \/ HandleNewToken \/ HandleTokenTrade \/ HandleTokenComplete
  \/ SendToken \/ TakeToken

Spec == Init /\ [][Next]_vars

-----------------------------------------------------------------------------
(* Properties.                                                             *)

\* Each lane is recorded at most once for a mint, whatever trades, doubled
\* graduations and reconnects come (the one-shot flags of types.rs:256-283).
LaneOnce == \A m \in Mints, l \in Lanes : fires[m][l] <= 1

\* A graduated token whose curve was seen has a row on every rung, so that
\* the buckets can be compared (pumpfun_ws.rs:1828-1833), and one of its
\* graduation; a higher rung is never fired before a lower one.
LadderComplete ==
  /\ \A i \in DOMAIN handed :
        LET t == handed[i]
        IN  /\ t.seen => \A l \in Ladder : fires[t.mint][l] = 1
            /\ t.known => fires[t.mint]["graduation_raw"] = 1
  /\ \A m \in Mints :
        /\ fires[m]["progress_90pct"] <= fires[m]["progress_75pct"]
        /\ fires[m]["progress_75pct"] <= fires[m]["progress_60pct"]
        /\ fires[m]["probe_add_add"] <= fires[m]["probe_add_probe"]

\* One connection hands a mint on once within the window, however often
\* pump.fun says that it has graduated (pumpfun_ws.rs:519-533).
OneTokenPerGraduation ==
  \A i, j \in DOMAIN handed :
     i < j /\ handed[i].mint = handed[j].mint /\ handed[i].in = handed[j].in
       => handed[j].at - handed[i].at >= DedupWindow

\* The label signal of a watched mint counts exactly the other mints of the
\* label that this connection saw created within the window before it.
LabelsExact ==
  \A m \in DOMAIN watch : LabelOf(m) # NoLabel =>
     \E i \in DOMAIN created :
        /\ created[i].mint = m /\ created[i].in = generation
        /\ watch[m].signal.mints = Cardinality({j \in 1..(i - 1) :
             /\ created[j].in = generation
             /\ LabelOf(created[j].mint) = LabelOf(m)
             /\ created[i].at - created[j].at <= LabelWindow})

\* A mint of this connection that is no longer watched has graduated, or a
\* full watchlist has dropped it, and then nothing older is watched still.
NewestWatched ==
  \A i \in DOMAIN created :
     LET c == created[i]
     IN  \/ c.in # generation \/ c.mint \in DOMAIN watch \/ curve[c.mint].done
         \/ \A m \in DOMAIN watch : watch[m].at >= c.at

\* While its writer lives, the trades of a watched mint are subscribed or
\* their subscription is on its way, and once everything is sent the server
\* has the accounts that the reconciler believes it has.
SubscribedWatched ==
  conn = "up" /\ writer =>
    /\ \A m \in DOMAIN watch :
         m \in serverMints \/ \E i \in DOMAIN outbox : outbox[i].keys = {m}
    /\ outbox = <<>> => serverAccounts = accounts
=============================================================================
