--------------------------- MODULE DetectionProofs ---------------------------
(***************************************************************************)
(* What holds of the detection socket for every finite set of mints, every *)
(* threshold and limit, and any number of connections, trades and          *)
(* graduations, told once, twice or never.                                 *)
(***************************************************************************)
EXTENDS Detection, FiniteSetTheorems, SequenceTheorems, TLAPS

-----------------------------------------------------------------------------
(* The entries of the watchlist. *)

Fields == {"at", "creator", "signal", "buys", "sells", "buyers", "log", "level",
           "fired", "probed"}

EntryOK(e) ==
  /\ DOMAIN e = Fields /\ e = [x \in Fields |-> e[x]]
  /\ e.at \in Nat /\ e.buys \in Nat /\ e.sells \in Nat
  /\ e.level \in Nat \cup {None} /\ e.fired \in SUBSET Lanes

LEMMA NewEntryOK ==
  ASSUME NEW by, NEW signal, NEW t \in Nat
  PROVE  /\ EntryOK(NewEntry(by, signal, t))
         /\ NewEntry(by, signal, t).at = t /\ NewEntry(by, signal, t).fired = {}
         /\ NewEntry(by, signal, t).signal = signal
         /\ NewEntry(by, signal, t).level = None
  BY DEF NewEntry, EntryOK, Fields

LEMMA TradedOK ==
  ASSUME NEW e, EntryOK(e), NEW by, NEW buy \in BOOLEAN, NEW level \in Nat \cup {None}
  PROVE  /\ EntryOK(Traded(e, by, buy, level))
         /\ Traded(e, by, buy, level).at = e.at
         /\ Traded(e, by, buy, level).fired = e.fired
         /\ Traded(e, by, buy, level).signal = e.signal
<1> DEFINE b == IF buy THEN e.buys + 1 ELSE e.buys
           s == IF buy THEN e.sells ELSE e.sells + 1
           y == IF buy THEN e.buyers \cup {by} ELSE e.buyers
           g == IF Len(e.log) < MaxLog THEN Append(e.log, [by |-> by, buy |-> buy])
                ELSE e.log
           v == IF level = None THEN e.level ELSE level
<1>1. Traded(e, by, buy, level) =
        [e EXCEPT !.buys = b, !.sells = s, !.buyers = y, !.log = g, !.level = v]
  BY DEF Traded, EntryOK, Fields
<1>2. b \in Nat /\ s \in Nat /\ v \in Nat \cup {None}
  BY DEF EntryOK
<1> HIDE DEF b, s, y, g, v
<1> QED
  BY <1>1, <1>2 DEF EntryOK, Fields

LEMMA FiredOK ==
  ASSUME NEW e, EntryOK(e), NEW lanes \in SUBSET Lanes
  PROVE  /\ EntryOK(Fired(e, lanes))
         /\ Fired(e, lanes).at = e.at /\ Fired(e, lanes).signal = e.signal
         /\ Fired(e, lanes).fired = e.fired \cup lanes
  BY DEF Fired, EntryOK, Fields

-----------------------------------------------------------------------------
(* The type of the state, as far as the proofs need it. *)

By == Creators \cup {CreatorOf(m) : m \in Mints}

Messages == [kind : {"create", "complete"}, mint : Mints]
              \cup [kind : {"trade"}, mint : Mints, by : By, buy : BOOLEAN,
                    level : Nat \cup {None}, echo : BOOLEAN]

Requested == [op : {"token", "add", "remove"}, keys : SUBSET (Mints \cup Accounts)]

Tokens == [mint : Mints, at : Nat, in : Nat, known : BOOLEAN, seen : BOOLEAN,
           trades : Nat]

Creations == [mint : Mints, at : Nat, in : Nat]

IsFcn(f) == f = [x \in DOMAIN f |-> f[x]]

SocketIs ==
  /\ conn \in {"down", "up"} /\ generation \in Nat /\ writer \in BOOLEAN
  /\ outbox \in Seq(Requested)
  /\ roster \in SUBSET Accounts /\ accounts \in SUBSET Accounts
  /\ serverAccounts \in SUBSET (Mints \cup Accounts)

WatchIs ==
  /\ IsFcn(watch) /\ DOMAIN watch \in SUBSET Mints
  /\ \A m \in DOMAIN watch : EntryOK(watch[m])
  /\ IsFcn(completed) /\ DOMAIN completed \in SUBSET Mints
  /\ \A m \in DOMAIN completed : completed[m] \in Nat

WorldIs ==
  /\ now \in Nat /\ inbox \in Seq(Messages)
  /\ curve \in [Mints -> [born : BOOLEAN, done : BOOLEAN, trades : Nat]]

HistoryIs ==
  /\ fires \in [Mints -> [Lanes -> Nat]]
  /\ created \in Seq(Creations)
  /\ handed \in Seq(Tokens)

DetIs == SocketIs /\ WatchIs /\ WorldIs /\ HistoryIs

LEMMA Empty == DOMAIN <<>> = {} /\ IsFcn(<<>>)
  BY DEF IsFcn

LEMMA DetInit == Init => DetIs
<1> SUFFICES ASSUME Init PROVE DetIs
  OBVIOUS
<1>1. SocketIs
  <2>1. /\ conn = "down" /\ generation = 0 /\ outbox = <<>>
        /\ roster \in SUBSET Accounts /\ accounts = {} /\ serverAccounts = {}
    BY DEF Init, SocketInit
  <2>2. writer \in BOOLEAN
    BY DEF Init, SocketInit
  <2> QED
    BY <2>1, <2>2 DEF SocketIs
<1>2. WatchIs
  BY Empty DEF Init, WatchIs
<1>3. WorldIs
  BY DEF Init, WorldIs
<1>4. HistoryIs
  BY DEF Init, HistoryIs
<1> QED
  BY <1>1, <1>2, <1>3, <1>4 DEF DetIs

-----------------------------------------------------------------------------
(* What the steps do, by the part of the state they touch. *)

\* Steps that leave the watchlist and what was learnt from it alone.
Outside ==
  /\ PumpFun \/ Tick \/ SocketAlone \/ SendToken \/ TakeToken
  /\ UNCHANGED <<Watching, History, conn, generation>>

LEMMA StepsOutside ==
  ASSUME PumpFun \/ Tick \/ SocketAlone \/ SendToken \/ TakeToken
  PROVE  Outside
<1>1. CASE PumpFun
  BY <1>1 DEF Outside, PumpFun, Create, Echo, Graduate, Trade, ElseUnchanged,
     Watching, History, socketVars
<1>2. CASE Tick
  BY <1>2 DEF Outside, Tick, Watching, History, socketVars
<1>3. CASE SocketAlone
  BY <1>3 DEF Outside, SocketAlone, SocketStep, WriterFails, Served, Reconcile,
     RosterChanges, Watching, History
<1>4. CASE SendToken \/ TakeToken
  BY <1>4 DEF Outside, SendToken, TakeToken, Watching, History, socketVars
<1> QED
  BY <1>1, <1>2, <1>3, <1>4

\* The message that is read.
LEMMA ReadIs ==
  ASSUME DetIs, NEW kind, Read(kind)
  PROVE  /\ Head(inbox) \in Messages /\ Head(inbox).kind = kind
         /\ Head(inbox).mint \in Mints /\ Head(inbox) = inbox[1]
         /\ 1 \in DOMAIN inbox
         /\ inbox' \in Seq(Messages) /\ Len(inbox') = Len(inbox) - 1
         /\ \A i \in DOMAIN inbox' : i + 1 \in DOMAIN inbox /\ inbox'[i] = inbox[i + 1]
         /\ conn = "up"
<1>1. inbox \in Seq(Messages) /\ inbox # <<>>
  BY DEF Read, DetIs, WorldIs
<1>2. Head(inbox) \in Messages /\ Head(inbox) = inbox[1] /\ 1 \in DOMAIN inbox
  BY <1>1
<1>3. Head(inbox).mint \in Mints
  BY <1>2 DEF Messages
<1> QED
  BY <1>1, <1>2, <1>3 DEF Read

-----------------------------------------------------------------------------
(* Tables: what is put in, dropped and trimmed. *)

\* What stays is what it was, and nothing that went is younger.
LEMMA HalvedIs ==
  ASSUME NEW f, NEW limit, IsFcn(f), NEW kept \in Halved(f, limit)
  PROVE  /\ IsFcn(kept) /\ DOMAIN kept \subseteq DOMAIN f
         /\ \A x \in DOMAIN kept : kept[x] = f[x]
         /\ \A x \in DOMAIN kept, y \in DOMAIN f \ DOMAIN kept : f[y].at <= f[x].at
<1>1. CASE kept = f
  BY <1>1
<1>2. CASE \E n : kept \in Trimmed(f, n)
  <2>1. PICK S \in SUBSET DOMAIN f :
               /\ kept = [x \in S |-> f[x]]
               /\ \A x \in S, y \in DOMAIN f \ S : f[y].at <= f[x].at
    BY <1>2 DEF Trimmed
  <2> QED
    BY <2>1 DEF IsFcn
<1> QED
  BY <1>1, <1>2 DEF Halved

LEMMA FreshIs ==
  /\ IsFcn(Fresh) /\ DOMAIN Fresh \subseteq DOMAIN completed
  /\ \A m \in DOMAIN Fresh : Fresh[m] = completed[m]
  /\ \A m \in DOMAIN completed : now - completed[m] < DedupWindow => m \in DOMAIN Fresh
  BY DEF Fresh, IsFcn

\* All lanes are known ones.
LEMMA LanesIn ==
  ASSUME NEW e, NEW buy, NEW t
  PROVE  /\ FirstMinuteLane(e, t) \subseteq Lanes
         /\ TradeLanes(e, buy, t) \subseteq Lanes
         /\ GraduationLanes(e) \subseteq Lanes
<1>1. FirstMinuteLane(e, t) \subseteq Lanes /\ LaunchLane(e, buy, t) \subseteq Lanes
  BY DEF FirstMinuteLane, LaunchLane, Lanes
<1>2. \A p : FlowLane(e, p) \subseteq Lanes /\ ProbeLane(e, p) \subseteq Lanes
  BY DEF FlowLane, ProbeLane, Lanes
<1>3. Ladder \subseteq Lanes /\ \A p : LadderUpTo(p) \subseteq Ladder
  BY DEF LadderUpTo, Ladder, Lanes
<1>4. {"volume_50sol", "control_no_fire", "graduation_raw"} \subseteq Lanes
  BY DEF Lanes
<1>5. TradeLanes(e, buy, t) \subseteq Lanes
  BY <1>1, <1>2, <1>3, <1>4 DEF TradeLanes
<1>6. GraduationLanes(e) \subseteq Lanes
  BY <1>2, <1>3, <1>4 DEF GraduationLanes
<1> QED
  BY <1>1, <1>5, <1>6

LEMMA CountIs ==
  ASSUME HistoryIs, NEW m \in Mints, NEW lanes \in SUBSET Lanes
  PROVE  /\ Count(m, lanes) \in [Mints -> [Lanes -> Nat]]
         /\ \A n \in Mints, l \in Lanes : Count(m, lanes)[n][l] =
              IF n = m /\ l \in lanes THEN fires[n][l] + 1 ELSE fires[n][l]
  BY DEF HistoryIs, Count

-----------------------------------------------------------------------------
(* The handlers, one fact for each. *)

\* handle_new_token.
LEMMA NewTokenDoes ==
  ASSUME DetIs, HandleNewToken
  PROVE  \E m \in Mints, kept \in Halved(watch, MaxWatch) :
           \E outcome \in LabelOutcomes(m) :
              /\ Read("create") /\ m = Head(inbox).mint
              /\ labels' = outcome[1]
              /\ watch' = Put(kept, m, NewEntry(CreatorOf(m), outcome[2], now))
              /\ Subscribe(m)
              /\ created' = Append(created, [mint |-> m, at |-> now, in |-> generation])
              /\ UNCHANGED <<conn, generation, writer, roster, accounts,
                             serverAccounts, serverMints, completed, curve, fires,
                             handed, now>>
<1>1. Read("create") /\ Head(inbox).mint \in Mints
  BY ReadIs DEF HandleNewToken
<1>2. PICK outcome \in LabelOutcomes(Head(inbox).mint), kept \in Halved(watch, MaxWatch) :
         /\ labels' = outcome[1]
         /\ watch' = Put(kept, Head(inbox).mint,
                         NewEntry(CreatorOf(Head(inbox).mint), outcome[2], now))
  BY DEF HandleNewToken
<1> QED
  BY <1>1, <1>2 DEF HandleNewToken, Pipe

\* The same without the labels and the subscription.
TakenIn(m, kept, signal) ==
  /\ Read("create") /\ m = Head(inbox).mint
  /\ watch' = Put(kept, m, NewEntry(CreatorOf(m), signal, now))
  /\ created' = Append(created, [mint |-> m, at |-> now, in |-> generation])
  /\ UNCHANGED <<conn, generation, completed, curve, fires, handed, now>>

LEMMA NewTokenTaken ==
  ASSUME DetIs, HandleNewToken
  PROVE  \E m \in Mints, kept \in Halved(watch, MaxWatch) : \E signal :
            TakenIn(m, kept, signal)
  BY NewTokenDoes DEF TakenIn

\* handle_token_trade: nothing, or one entry changes and its lanes are counted.
TradeOf(msg) ==
  LET e == Traded(watch[msg.mint], msg.by, msg.buy, msg.level)
      lanes == Firing(e, FirstMinuteLane(e, now)
                    \cup IF Skeleton THEN {} ELSE TradeLanes(e, msg.buy, now))
  IN  /\ watch' = [watch EXCEPT ![msg.mint] = Fired(e, lanes)]
      /\ fires' = Count(msg.mint, lanes)

LEMMA TradeDoes ==
  ASSUME DetIs, HandleTokenTrade
  PROVE  /\ Read("trade")
         /\ UNCHANGED <<socketVars, labels, completed, curve, created, handed, now>>
         /\ \/ UNCHANGED <<watch, fires>>
            \/ \E msg \in Messages : /\ msg.mint \in DOMAIN watch /\ msg.buy \in BOOLEAN
                                    /\ msg.level \in Nat \cup {None} /\ TradeOf(msg)
<1>1. Read("trade") /\ Head(inbox) \in Messages /\ Head(inbox).kind = "trade"
  BY ReadIs DEF HandleTokenTrade
<1>2. Head(inbox).buy \in BOOLEAN /\ Head(inbox).level \in Nat \cup {None}
  BY <1>1 DEF Messages
<1>3. UNCHANGED <<socketVars, labels, completed, curve, created, handed, now>>
  BY DEF HandleTokenTrade
<1>4. CASE Head(inbox).mint \notin DOMAIN watch \/ Head(inbox).echo
  BY <1>1, <1>3, <1>4 DEF HandleTokenTrade
<1>5. CASE ~(Head(inbox).mint \notin DOMAIN watch \/ Head(inbox).echo)
  <2>1. TradeOf(Head(inbox)) /\ Head(inbox).mint \in DOMAIN watch
    BY <1>5 DEF HandleTokenTrade, TradeOf
  <2> QED
    BY <1>1, <1>2, <1>3, <2>1
<1> QED
  BY <1>4, <1>5

\* handle_token_complete: a duplicate, a graduation in skeleton mode, or a token.
LEMMA CompleteDoes ==
  ASSUME DetIs, HandleTokenComplete
  PROVE  /\ Read("complete")
         /\ UNCHANGED <<socketVars, labels, curve, created, now>>
         /\ \E m \in Mints :
              /\ m = Head(inbox).mint
              /\ \/ m \in DOMAIN Fresh /\ completed' = Fresh
                    /\ UNCHANGED <<watch, handed, fires>>
                 \/ /\ m \notin DOMAIN Fresh /\ completed' = Put(Fresh, m, now)
                    /\ watch' = Dropped(watch, m) /\ UNCHANGED <<handed, fires>>
                 \/ /\ m \notin DOMAIN Fresh /\ completed' = Put(Fresh, m, now)
                    /\ \E more \in Nat : HandOn(m, more)
<1>1. Read("complete") /\ Head(inbox).mint \in Mints
  BY ReadIs DEF HandleTokenComplete
<1>2. \A more \in Fetched(Head(inbox).mint) : more \in Nat
  BY <1>1 DEF Fetched, DetIs, WorldIs
<1> QED
  BY <1>1, <1>2 DEF HandleTokenComplete

\* The watchlist after a trade.
TradeFires(msg, lanes, e) ==
  /\ lanes = Firing(e, FirstMinuteLane(e, now)
                          \cup IF Skeleton THEN {} ELSE TradeLanes(e, msg.buy, now))
  /\ e.fired = watch[msg.mint].fired /\ e.level \in Nat \cup {None}
  /\ watch'[msg.mint].fired = e.fired \cup lanes
  /\ fires' = Count(msg.mint, lanes)

LEMMA TradeWatch ==
  ASSUME DetIs, NEW msg \in Messages, msg.mint \in DOMAIN watch, msg.buy \in BOOLEAN,
         msg.level \in Nat \cup {None}, TradeOf(msg)
  PROVE  /\ IsFcn(watch') /\ DOMAIN watch' = DOMAIN watch
         /\ \A m \in DOMAIN watch : EntryOK(watch'[m]) /\ watch'[m].at = watch[m].at
                                   /\ watch'[m].signal = watch[m].signal
         /\ \A m \in DOMAIN watch \ {msg.mint} : watch'[m] = watch[m]
         /\ \E lanes \in SUBSET Lanes : \E e : TradeFires(msg, lanes, e)
<1> DEFINE m == msg.mint
           e == Traded(watch[m], msg.by, msg.buy, msg.level)
           lanes == Firing(e, FirstMinuteLane(e, now)
                         \cup IF Skeleton THEN {} ELSE TradeLanes(e, msg.buy, now))
<1>1. EntryOK(watch[m])
  BY DEF DetIs, WatchIs
<1>2. /\ EntryOK(e) /\ e.at = watch[m].at /\ e.fired = watch[m].fired
      /\ e.signal = watch[m].signal
  BY <1>1, TradedOK
<1>3. lanes \in SUBSET Lanes
  BY LanesIn DEF Firing
<1>4. /\ EntryOK(Fired(e, lanes)) /\ Fired(e, lanes).at = e.at
      /\ Fired(e, lanes).signal = e.signal /\ Fired(e, lanes).fired = e.fired \cup lanes
  <2> HIDE DEF e, lanes
  <2> QED
    BY <1>2, <1>3, FiredOK
<1>5. watch' = [watch EXCEPT ![m] = Fired(e, lanes)] /\ fires' = Count(m, lanes)
  BY DEF TradeOf
<1>6. lanes = Firing(e, FirstMinuteLane(e, now)
                     \cup IF Skeleton THEN {} ELSE TradeLanes(e, msg.buy, now))
  OBVIOUS
<1>7. e.level \in Nat \cup {None}
  BY <1>2 DEF EntryOK
<1>8. IsFcn(watch) /\ \A n \in DOMAIN watch : EntryOK(watch[n])
  BY DEF DetIs, WatchIs
<1> HIDE DEF e, lanes
<1>9. /\ IsFcn(watch') /\ DOMAIN watch' = DOMAIN watch
      /\ watch'[m] = Fired(e, lanes)
      /\ \A n \in DOMAIN watch \ {m} : watch'[n] = watch[n]
  BY <1>5, <1>8 DEF IsFcn
<1>10. \A n \in DOMAIN watch : /\ EntryOK(watch'[n]) /\ watch'[n].at = watch[n].at
                               /\ watch'[n].signal = watch[n].signal
  BY <1>2, <1>4, <1>8, <1>9
<1>11. TradeFires(msg, lanes, e)
  BY <1>2, <1>4, <1>5, <1>6, <1>7, <1>9 DEF TradeFires
<1> QED
  BY <1>3, <1>9, <1>10, <1>11

\* A graduation.
Graduates(m, token, lanes, e) ==
  /\ token.mint = m /\ token.at = now /\ token.in = generation
  /\ token.known <=> m \in DOMAIN watch
  /\ token.seen => m \in DOMAIN watch /\ e.level # None
  /\ handed' = Append(handed, token) /\ fires' = Count(m, lanes)
  /\ m \in DOMAIN watch => /\ e.fired = watch[m].fired
                          /\ lanes = Firing(e, GraduationLanes(e))
  /\ m \notin DOMAIN watch => lanes = {}

LEMMA HandOnDoes ==
  ASSUME DetIs, NEW m \in Mints, NEW more \in Nat, HandOn(m, more)
  PROVE  /\ watch' = Dropped(watch, m)
         /\ \E token \in Tokens, lanes \in SUBSET Lanes : \E e :
              Graduates(m, token, lanes, e)
<1> DEFINE known == m \in DOMAIN watch
           e == [watch[m] EXCEPT !.buys = @ + more]
           lanes == IF known THEN Firing(e, GraduationLanes(e)) ELSE {}
           token == [mint |-> m, at |-> now, in |-> generation, known |-> known,
                     seen |-> known /\ watch[m].level # None,
                     trades |-> more + IF known THEN Volume(watch[m]) ELSE 0]
<1>1. known => EntryOK(watch[m])
  BY DEF DetIs, WatchIs
<1>2. known => e.fired = watch[m].fired /\ e.level = watch[m].level
  BY <1>1 DEF EntryOK, Fields
<1>3. lanes \in SUBSET Lanes
  BY LanesIn DEF Firing
<1>4. (known => Volume(watch[m]) \in Nat) /\ now \in Nat /\ generation \in Nat
  BY <1>1 DEF EntryOK, Volume, DetIs, WorldIs, SocketIs
<1>5. token \in Tokens
  <2> DEFINE seen == known /\ watch[m].level # None
             trades == more + IF known THEN Volume(watch[m]) ELSE 0
  <2>1. known \in BOOLEAN /\ seen \in BOOLEAN
    OBVIOUS
  <2>2. trades \in Nat
    BY <1>4
  <2> HIDE DEF known, seen, trades
  <2> QED
    BY <1>4, <2>1, <2>2 DEF Tokens
<1>6. /\ watch' = Dropped(watch, m) /\ handed' = Append(handed, token)
      /\ fires' = Count(m, lanes)
  BY DEF HandOn
<1>7. /\ token.mint = m /\ token.at = now /\ token.in = generation
      /\ token.known <=> m \in DOMAIN watch
      /\ token.seen => m \in DOMAIN watch /\ e.level # None
  BY <1>2
<1>8. /\ known => lanes = Firing(e, GraduationLanes(e))
      /\ ~known => lanes = {}
  OBVIOUS
<1> HIDE DEF e, lanes, token
<1>9. Graduates(m, token, lanes, e)
  BY <1>2, <1>6, <1>7, <1>8 DEF Graduates
<1> QED
  BY <1>3, <1>5, <1>6, <1>9
-----------------------------------------------------------------------------
(* The type is kept. *)

LEMMA RequestsIs ==
  ASSUME NEW op \in {"add", "remove"}, NEW keys \in SUBSET Accounts
  PROVE  Requests(op, keys) \in Seq(Requested)
<1>1. [op |-> op, keys |-> keys] \in Requested
  BY DEF Requested
<1> QED
  BY <1>1 DEF Requests

LEMMA SocketNext ==
  ASSUME DetIs, Next PROVE SocketIs'
<1>1. SocketIs
  BY DEF DetIs
<1>2. CASE UNCHANGED socketVars
  BY <1>1, <1>2 DEF SocketIs, socketVars
<1>3. CASE Opened
  <2>1. writer' \in BOOLEAN
    BY <1>3 DEF Opened
  <2> QED
    BY <1>1, <1>3, <2>1 DEF SocketIs, Opened
<1>4. CASE Lost
  <2>1. writer' \in BOOLEAN
    BY <1>4 DEF Lost
  <2> QED
    BY <1>1, <1>4, <2>1 DEF SocketIs, Lost
<1>5. CASE WriterFails
  <2>1. writer' \in BOOLEAN
    BY <1>5 DEF WriterFails
  <2> QED
    BY <1>1, <1>5, <2>1 DEF SocketIs, WriterFails
<1>6. CASE Served
  <2>1. writer' \in BOOLEAN
    BY <1>1, <1>6 DEF Served, SocketIs
  <2>2. outbox' \in Seq(Requested) /\ Head(outbox) \in Requested
    BY <1>1, <1>6 DEF Served, SocketIs
  <2>3. serverAccounts' \in SUBSET (Mints \cup Accounts)
    BY <1>1, <1>6, <2>2 DEF Served, SocketIs, Requested
  <2> QED
    BY <1>1, <1>6, <2>1, <2>2, <2>3 DEF SocketIs, Served
<1>7. CASE Reconcile
  <2>1. writer' \in BOOLEAN
    BY <1>1, <1>7 DEF Reconcile, SocketIs
  <2>2. Difference \in Seq(Requested)
    <3>1. roster \ accounts \in SUBSET Accounts /\ accounts \ roster \in SUBSET Accounts
      BY <1>1 DEF SocketIs
    <3>2. /\ Requests("add", roster \ accounts) \in Seq(Requested)
          /\ Requests("remove", accounts \ roster) \in Seq(Requested)
      BY <3>1, RequestsIs
    <3> QED
      BY <3>2 DEF Difference
  <2>3. outbox' \in Seq(Requested)
    BY <1>1, <1>7, <2>2 DEF Reconcile, SocketIs
  <2> QED
    BY <1>1, <1>7, <2>1, <2>3 DEF SocketIs, Reconcile
<1>8. CASE \E new \in SUBSET Accounts : RosterChanges(new)
  <2>1. writer' \in BOOLEAN
    BY <1>1, <1>8 DEF RosterChanges, SocketIs
  <2> QED
    BY <1>1, <1>8, <2>1 DEF SocketIs, RosterChanges
<1>9. CASE HandleNewToken
  <2>1. PICK m \in Mints : Subscribe(m)
    BY <1>9, NewTokenDoes
  <2>2. [op |-> "token", keys |-> {m}] \in Requested
    BY DEF Requested
  <2>3. outbox' \in Seq(Requested)
    BY <1>1, <2>1, <2>2 DEF Subscribe, SocketIs
  <2>4. writer' \in BOOLEAN
    BY <1>1, <1>9 DEF HandleNewToken, SocketIs
  <2> QED
    BY <1>1, <1>9, <2>3, <2>4 DEF SocketIs, HandleNewToken
<1>10. CASE PumpFun
  BY <1>2, <1>10 DEF PumpFun, Create, Echo, Graduate, Trade, ElseUnchanged
<1>11. CASE Tick \/ HandleTokenTrade \/ HandleTokenComplete \/ SendToken \/ TakeToken
  BY <1>2, <1>11 DEF Tick, HandleTokenTrade, HandleTokenComplete, SendToken, TakeToken
<1> QED
  BY <1>3, <1>4, <1>5, <1>6, <1>7, <1>8, <1>9, <1>10, <1>11
     DEF Next, SocketAlone, SocketStep, Connect, Disconnect

LEMMA WatchNext ==
  ASSUME DetIs, Next PROVE WatchIs'
<1>1. WatchIs /\ now \in Nat
  BY DEF DetIs, WorldIs
<1>2. CASE PumpFun \/ Tick \/ SocketAlone \/ SendToken \/ TakeToken
  BY <1>1, <1>2, StepsOutside DEF Outside, Watching, WatchIs, IsFcn
<1>3. CASE Connect \/ Disconnect
  BY <1>3, Empty DEF Connect, Disconnect, WatchIs
<1>4. CASE HandleNewToken
  <2>1. PICK m \in Mints, kept \in Halved(watch, MaxWatch) :
          \E outcome \in LabelOutcomes(m) :
             /\ watch' = Put(kept, m, NewEntry(CreatorOf(m), outcome[2], now))
             /\ completed' = completed
    BY <1>4, NewTokenDoes
  <2>2. PICK e : watch' = Put(kept, m, e) /\ EntryOK(e)
    BY <1>1, <2>1, NewEntryOK
  <2>3. /\ DOMAIN kept \subseteq DOMAIN watch
        /\ \A x \in DOMAIN kept : kept[x] = watch[x]
    BY <1>1, HalvedIs DEF WatchIs
  <2>4. /\ IsFcn(watch') /\ DOMAIN watch' = DOMAIN kept \cup {m} /\ watch'[m] = e
        /\ \A y \in DOMAIN kept : y # m => watch'[y] = kept[y]
    BY <2>2 DEF Put, IsFcn
  <2> QED
    BY <1>1, <2>1, <2>2, <2>3, <2>4 DEF WatchIs, IsFcn
<1>5. CASE HandleTokenTrade
  <2>1. completed' = completed
    BY <1>5, TradeDoes
  <2>2. CASE watch' = watch
    BY <1>1, <2>1, <2>2 DEF WatchIs, IsFcn
  <2>3. CASE watch' # watch
    <3>1. PICK msg \in Messages : /\ msg.mint \in DOMAIN watch /\ msg.buy \in BOOLEAN
                                 /\ msg.level \in Nat \cup {None} /\ TradeOf(msg)
      BY <1>5, <2>3, TradeDoes
    <3>2. /\ IsFcn(watch') /\ DOMAIN watch' = DOMAIN watch
          /\ \A m \in DOMAIN watch : EntryOK(watch'[m])
      BY <3>1, TradeWatch
    <3> QED
      BY <1>1, <2>1, <3>2 DEF WatchIs, IsFcn
  <2> QED
    BY <2>2, <2>3
<1>6. CASE HandleTokenComplete
  <2>1. PICK m \in Mints :
            /\ watch' = watch \/ watch' = Dropped(watch, m)
            /\ completed' = Fresh \/ completed' = Put(Fresh, m, now)
    BY <1>6, CompleteDoes, HandOnDoes
  <2>2. /\ IsFcn(watch') /\ DOMAIN watch' \subseteq DOMAIN watch
        /\ \A x \in DOMAIN watch' : watch'[x] = watch[x]
    <3>1. CASE watch' = watch
      BY <1>1, <3>1 DEF WatchIs, IsFcn
    <3>2. CASE watch' = Dropped(watch, m)
      BY <3>2 DEF Dropped, IsFcn
    <3> QED
      BY <2>1, <3>1, <3>2
  <2>3. /\ IsFcn(completed') /\ DOMAIN completed' \subseteq Mints
        /\ \A x \in DOMAIN completed' : completed'[x] \in Nat
    <3>1. /\ IsFcn(Fresh) /\ DOMAIN Fresh \subseteq Mints
          /\ \A x \in DOMAIN Fresh : Fresh[x] \in Nat
      BY <1>1, FreshIs DEF WatchIs
    <3>2. CASE completed' = Fresh
      BY <3>1, <3>2 DEF IsFcn
    <3>3. CASE completed' = Put(Fresh, m, now)
      <4>1. /\ IsFcn(completed') /\ DOMAIN completed' = DOMAIN Fresh \cup {m}
            /\ completed'[m] = now
            /\ \A x \in DOMAIN Fresh : x # m => completed'[x] = Fresh[x]
        BY <3>3 DEF Put, IsFcn
      <4> QED
        BY <1>1, <3>1, <4>1
    <3> QED
      BY <2>1, <3>2, <3>3
  <2> QED
    BY <1>1, <2>2, <2>3 DEF WatchIs
<1> QED
  BY <1>2, <1>3, <1>4, <1>5, <1>6 DEF Next

LEMMA TellIs ==
  ASSUME DetIs, NEW msg \in Messages, NEW subscribed, Tell(msg, subscribed)
  PROVE  inbox' \in Seq(Messages)
  BY DEF Tell, DetIs, WorldIs

LEMMA HappensIs ==
  ASSUME DetIs, NEW m \in Mints, NEW c, Happens(m, c)
  PROVE  curve' = [curve EXCEPT ![m] = c] /\ curve[m] \in [born : BOOLEAN, done : BOOLEAN, trades : Nat]
  BY DEF Happens, DetIs, WorldIs

LEMMA WorldNext ==
  ASSUME DetIs, Next PROVE WorldIs'
<1>1. WorldIs
  BY DEF DetIs
<1> DEFINE Curves == [born : BOOLEAN, done : BOOLEAN, trades : Nat]
<1>2. \A m \in Mints : curve[m] \in Curves
  BY <1>1 DEF WorldIs
<1>3. ASSUME NEW m \in Mints, NEW c \in Curves, NEW msg \in Messages, NEW subscribed,
             Happens(m, c), Tell(msg, subscribed), now' = now
      PROVE  WorldIs'
  BY <1>1, <1>3, TellIs DEF Happens, WorldIs
<1>4. CASE PumpFun
  <2>1. ASSUME NEW m \in Mints, Create(m) PROVE WorldIs'
    <3>1. [curve[m] EXCEPT !.born = TRUE] \in Curves
      BY <1>2
    <3>2. [kind |-> "create", mint |-> m] \in Messages
      BY DEF Messages
    <3> QED
      BY <1>3, <2>1, <3>1, <3>2 DEF Create, ElseUnchanged
  <2>2. ASSUME NEW m \in Mints, Graduate(m) PROVE WorldIs'
    <3>1. [curve[m] EXCEPT !.done = TRUE] \in Curves
      BY <1>2
    <3>2. [kind |-> "complete", mint |-> m] \in Messages
      BY DEF Messages
    <3> QED
      BY <1>3, <2>2, <3>1, <3>2 DEF Graduate, ElseUnchanged
  <2>3. \A m \in Mints : [curve[m] EXCEPT !.trades = @ + 1] \in Curves
    BY <1>2
  <2>4. \A m \in Mints, by \in By, buy \in BOOLEAN, level \in Nat \cup {None}, echo \in BOOLEAN :
          [kind |-> "trade", mint |-> m, by |-> by, buy |-> buy, level |-> level,
           echo |-> echo] \in Messages
    BY DEF Messages
  <2>5. ASSUME NEW m \in Mints, Echo(m) PROVE WorldIs'
    <3>1. CreatorOf(m) \in By
      BY DEF By
    <3> QED
      BY <1>3, <2>3, <2>4, <2>5, <3>1 DEF Echo, ElseUnchanged, Told
  <2>6. ASSUME NEW m \in Mints, NEW by \in Creators, NEW buy \in BOOLEAN,
               NEW level \in Levels, Trade(m, by, buy, level)
        PROVE  WorldIs'
    <3>1. by \in By /\ level \in Nat \cup {None}
      BY DetectionAssumption DEF By
    <3> QED
      BY <1>3, <2>3, <2>4, <2>6, <3>1 DEF Trade, ElseUnchanged, Told
  <2> QED
    BY <1>4, <2>1, <2>2, <2>5, <2>6 DEF PumpFun
<1>5. CASE Tick
  BY <1>1, <1>5 DEF WorldIs, Tick, World
<1>6. CASE SocketAlone \/ SendToken \/ TakeToken
  BY <1>1, <1>6 DEF WorldIs, SocketAlone, SendToken, TakeToken, World
<1>7. CASE Connect \/ Disconnect
  <2>1. inbox' = <<>> /\ now' = now /\ curve' = curve
    BY <1>7 DEF Connect, Disconnect
  <2> QED
    BY <1>1, <2>1 DEF WorldIs
<1>8. CASE HandleNewToken
  BY <1>1, <1>8, ReadIs DEF WorldIs, HandleNewToken
<1>9. CASE HandleTokenTrade
  BY <1>1, <1>9, ReadIs DEF WorldIs, HandleTokenTrade
<1>10. CASE HandleTokenComplete
  BY <1>1, <1>10, ReadIs DEF WorldIs, HandleTokenComplete
<1> QED
  BY <1>4, <1>5, <1>6, <1>7, <1>8, <1>9, <1>10 DEF Next

LEMMA HistoryNext ==
  ASSUME DetIs, Next PROVE HistoryIs'
<1>1. HistoryIs /\ now \in Nat /\ generation \in Nat
  BY DEF DetIs, WorldIs, SocketIs
<1>2. CASE UNCHANGED History
  BY <1>1, <1>2 DEF HistoryIs, History
<1>3. CASE HandleNewToken
  <2>1. PICK m \in Mints :
            /\ created' = Append(created, [mint |-> m, at |-> now, in |-> generation])
            /\ fires' = fires /\ handed' = handed
    BY <1>3, NewTokenDoes
  <2> QED
    BY <1>1, <2>1 DEF HistoryIs, Creations
<1>4. CASE HandleTokenTrade
  <2>1. created' = created /\ handed' = handed
    BY <1>4, TradeDoes
  <2>2. CASE fires' = fires
    BY <1>1, <2>1, <2>2 DEF HistoryIs
  <2>3. CASE fires' # fires
    <3>1. PICK msg \in Messages : /\ msg.mint \in DOMAIN watch /\ msg.buy \in BOOLEAN
                                 /\ msg.level \in Nat \cup {None} /\ TradeOf(msg)
      BY <1>4, <2>3, TradeDoes
    <3>2. PICK lanes \in SUBSET Lanes : fires' = Count(msg.mint, lanes)
      BY <3>1, TradeWatch DEF TradeFires
    <3>3. msg.mint \in Mints
      BY <3>1 DEF DetIs, WatchIs
    <3> QED
      BY <1>1, <2>1, <3>2, <3>3, CountIs DEF HistoryIs
  <2> QED
    BY <2>2, <2>3
<1>5. CASE HandleTokenComplete
  <2>1. created' = created
    BY <1>5, CompleteDoes
  <2>2. PICK m \in Mints :
            UNCHANGED <<handed, fires>> \/ \E more \in Nat : HandOn(m, more)
    BY <1>5, CompleteDoes
  <2>3. CASE UNCHANGED <<handed, fires>>
    BY <1>1, <2>1, <2>3 DEF HistoryIs
  <2>4. CASE \E more \in Nat : HandOn(m, more)
    <3>1. PICK token \in Tokens, lanes \in SUBSET Lanes :
             handed' = Append(handed, token) /\ fires' = Count(m, lanes)
      BY <2>4, HandOnDoes DEF Graduates
    <3>2. handed' \in Seq(Tokens)
      BY <1>1, <3>1 DEF HistoryIs
    <3>3. fires' \in [Mints -> [Lanes -> Nat]]
      BY <1>1, <3>1, CountIs
    <3> QED
      BY <1>1, <2>1, <3>2, <3>3 DEF HistoryIs
  <2> QED
    BY <2>2, <2>3, <2>4
<1>6. CASE Connect \/ Disconnect
  BY <1>2, <1>6 DEF Connect, Disconnect
<1> QED
  BY <1>2, <1>3, <1>4, <1>5, <1>6, StepsOutside DEF Next, Outside

LEMMA DetNext ==
  ASSUME DetIs, [Next]_vars PROVE DetIs'
<1>1. CASE Next
  BY <1>1, SocketNext, WatchNext, WorldNext, HistoryNext DEF DetIs
<1>2. CASE UNCHANGED vars
  <2>1. SocketIs'
    <3>1. writer' \in BOOLEAN
      BY <1>2 DEF vars, socketVars, DetIs, SocketIs
    <3> QED
      BY <1>2, <3>1 DEF vars, socketVars, DetIs, SocketIs
  <2>2. WatchIs' /\ WorldIs' /\ HistoryIs'
    BY <1>2 DEF vars, DetIs, WatchIs, WorldIs, HistoryIs, IsFcn
  <2> QED
    BY <2>1, <2>2 DEF DetIs
<1> QED
  BY <1>1, <1>2
-----------------------------------------------------------------------------
(* Creations: pump.fun tells of each once, and one that is read is the     *)
(* youngest.                                                               *)

\* What is still unread.
Unread ==
  /\ \A i \in DOMAIN inbox :
        /\ inbox[i].kind = "create" =>
             /\ curve[inbox[i].mint].born
             /\ \A k \in DOMAIN created : created[k].mint # inbox[i].mint
        /\ inbox[i].kind = "complete" => curve[inbox[i].mint].done
  /\ \A i, j \in DOMAIN inbox :
        inbox[i].kind = "create" /\ inbox[j].kind = "create" /\ i # j
          => inbox[i].mint # inbox[j].mint

\* What was read.
Births ==
  /\ \A k \in DOMAIN created :
        curve[created[k].mint].born /\ created[k].at <= now /\ created[k].in <= generation
  /\ \A i, k \in DOMAIN created :
        i # k => created[i].mint # created[k].mint
  /\ \A i, k \in DOMAIN created : i < k => created[i].at <= created[k].at

\* A watched mint is one that this connection saw created.
Seen ==
  /\ \A m \in DOMAIN watch : \E k \in DOMAIN created :
        created[k].mint = m /\ created[k].at = watch[m].at /\ created[k].in = generation
  /\ conn = "down" => DOMAIN watch = {} /\ DOMAIN completed = {}

DetInv == DetIs /\ Unread /\ Births /\ Seen

LEMMA FirstsInit == Init => Unread /\ Births /\ Seen
<1>1. Init => DOMAIN inbox = {} /\ DOMAIN created = {} /\ DOMAIN watch = {}
              /\ DOMAIN completed = {}
  BY Empty DEF Init
<1> QED
  BY <1>1 DEF Unread, Births, Seen

\* What happens on pump.fun: one more message, or none.
NewsOf(m) ==
  /\ \A n \in Mints : /\ curve[n].born => curve'[n].born
                      /\ curve[n].done => curve'[n].done
  /\ \/ inbox' = inbox
     \/ \E msg \in Messages :
          /\ inbox' = Append(inbox, msg) /\ msg.mint = m
          /\ msg.kind = "create" => ~curve[m].born /\ curve'[m].born
          /\ msg.kind = "complete" => curve'[m].done

LEMMA ToldIs ==
  ASSUME DetIs, PumpFun
  PROVE  UNCHANGED <<now, created, generation, conn>> /\ \E m \in Mints : NewsOf(m)
<1>1. UNCHANGED <<now, created, generation, conn>>
  BY DEF PumpFun, Create, Echo, Graduate, Trade, ElseUnchanged, socketVars, History
<1> DEFINE Curves == [born : BOOLEAN, done : BOOLEAN, trades : Nat]
<1>2. curve \in [Mints -> Curves]
  BY DEF DetIs, WorldIs
<1>3. ASSUME NEW m \in Mints, NEW c, Happens(m, c),
             (curve[m].born => c.born) /\ (curve[m].done => c.done)
      PROVE  /\ curve'[m] = c
             /\ \A n \in Mints : /\ curve[n].born => curve'[n].born
                                 /\ curve[n].done => curve'[n].done
  BY <1>2, <1>3 DEF Happens
<1> HIDE DEF Curves
<1>4. ASSUME NEW m \in Mints, Create(m)
      PROVE  NewsOf(m)
  <2> DEFINE c == [curve[m] EXCEPT !.born = TRUE]
             msg == [kind |-> "create", mint |-> m]
  <2>1. c.born /\ c.done = curve[m].done
    BY <1>2 DEF Curves
  <2>2. /\ curve'[m] = c
        /\ \A k \in Mints : /\ curve[k].born => curve'[k].born
                            /\ curve[k].done => curve'[k].done
    <3>1. Happens(m, c)
      BY <1>4 DEF Create
    <3> HIDE DEF c
    <3> QED
      BY <1>3, <2>1, <3>1
  <2>3. msg \in Messages /\ msg.kind = "create" /\ msg.mint = m
    BY DEF Messages
  <2>4. ~curve[m].born /\ (inbox' = inbox \/ inbox' = Append(inbox, msg))
    BY <1>4 DEF Create, Tell
  <2> HIDE DEF c, msg
  <2> QED
    BY <2>1, <2>2, <2>3, <2>4 DEF NewsOf
<1>5. ASSUME NEW m \in Mints, Graduate(m)
      PROVE  NewsOf(m)
  <2> DEFINE c == [curve[m] EXCEPT !.done = TRUE]
             msg == [kind |-> "complete", mint |-> m]
  <2>1. c.done /\ c.born = curve[m].born
    BY <1>2 DEF Curves
  <2>2. /\ curve'[m] = c
        /\ \A k \in Mints : /\ curve[k].born => curve'[k].born
                            /\ curve[k].done => curve'[k].done
    <3>1. Happens(m, c)
      BY <1>5 DEF Graduate
    <3> HIDE DEF c
    <3> QED
      BY <1>3, <2>1, <3>1
  <2>3. msg \in Messages /\ msg.kind = "complete" /\ msg.mint = m
    BY DEF Messages
  <2>4. inbox' = inbox \/ inbox' = Append(inbox, msg)
    BY <1>5 DEF Graduate, Tell
  <2> HIDE DEF c, msg
  <2> QED
    BY <2>1, <2>2, <2>3, <2>4 DEF NewsOf
<1>6. ASSUME NEW m \in Mints, NEW by \in By, NEW buy \in BOOLEAN,
             NEW level \in Nat \cup {None}, NEW echo \in BOOLEAN,
             Happens(m, [curve[m] EXCEPT !.trades = @ + 1]), Told(m, by, buy, level, echo)
      PROVE  NewsOf(m)
  <2> DEFINE c == [curve[m] EXCEPT !.trades = @ + 1]
             msg == [kind |-> "trade", mint |-> m, by |-> by, buy |-> buy,
                     level |-> level, echo |-> echo]
  <2>1. c.done = curve[m].done /\ c.born = curve[m].born
    BY <1>2 DEF Curves
  <2>2. \A k \in Mints : /\ curve[k].born => curve'[k].born
                         /\ curve[k].done => curve'[k].done
    <3>1. Happens(m, c)
      BY <1>6
    <3> HIDE DEF c
    <3> QED
      BY <1>3, <2>1, <3>1
  <2>3. msg \in Messages /\ msg.kind = "trade" /\ msg.mint = m
    BY DEF Messages
  <2>4. inbox' = inbox \/ inbox' = Append(inbox, msg)
    BY <1>6 DEF Told, Tell
  <2> HIDE DEF c, msg
  <2> QED
    BY <2>2, <2>3, <2>4 DEF NewsOf
<1>7. CASE \E m \in Mints : Echo(m)
  <2>1. \A m \in Mints : CreatorOf(m) \in By
    BY DEF By
  <2> QED
    BY <1>1, <1>6, <1>7, <2>1 DEF Echo
<1>8. CASE \E m \in Mints, by \in Creators, buy \in BOOLEAN, level \in Levels :
              Trade(m, by, buy, level)
  <2>1. Creators \subseteq By /\ Levels \subseteq Nat \cup {None}
    BY DetectionAssumption DEF By
  <2> QED
    BY <1>1, <1>6, <1>8, <2>1 DEF Trade
<1> QED
  BY <1>1, <1>4, <1>5, <1>7, <1>8 DEF PumpFun

\* A sequence with one element more.
LEMMA AppendIs ==
  ASSUME NEW S, NEW s \in Seq(S), NEW x \in S
  PROVE  /\ Append(s, x) \in Seq(S) /\ Len(s) \in Nat
         /\ DOMAIN s = 1..Len(s) /\ DOMAIN Append(s, x) = 1..(Len(s) + 1)
         /\ \A i \in DOMAIN s : Append(s, x)[i] = s[i]
         /\ Append(s, x)[Len(s) + 1] = x
  OBVIOUS

\* A handler takes the first message.
LEMMA UnreadAfterRead ==
  ASSUME DetIs, Unread, NEW kind, Read(kind), curve' = curve,
         \/ created' = created
         \/ \E t \in Creations :
               created' = Append(created, t) /\ t.mint = Head(inbox).mint
                 /\ Head(inbox).kind = "create"
  PROVE  Unread'
<1>1. /\ 1 \in DOMAIN inbox /\ Head(inbox) = inbox[1]
      /\ \A i \in DOMAIN inbox' : i + 1 \in DOMAIN inbox /\ inbox'[i] = inbox[i + 1]
      /\ DOMAIN inbox' \subseteq Nat \ {0}
  BY ReadIs
<1>2. ASSUME NEW i \in DOMAIN inbox', inbox'[i].kind = "create", NEW k \in DOMAIN created'
      PROVE  created'[k].mint # inbox'[i].mint
  <2>1. i + 1 \in DOMAIN inbox /\ inbox'[i] = inbox[i + 1] /\ i + 1 # 1
    BY <1>1, <1>2
  <2>2. CASE k \in DOMAIN created /\ created'[k] = created[k]
    BY <1>2, <2>1, <2>2 DEF Unread
  <2>3. CASE created'[k].mint = inbox[1].mint /\ inbox[1].kind = "create"
    BY <1>1, <1>2, <2>1, <2>3 DEF Unread
  <2>4. created \in Seq(Creations)
    BY DEF DetIs, HistoryIs
  <2>5. CASE created' = created
    BY <2>2, <2>5
  <2>6. CASE created' # created
    <3>1. PICK t \in Creations : /\ created' = Append(created, t)
                                /\ t.mint = Head(inbox).mint /\ Head(inbox).kind = "create"
      BY <2>6
    <3>2. \/ k \in DOMAIN created /\ created'[k] = created[k]
          \/ created'[k] = t
      BY <2>4, <3>1, AppendIs
    <3> QED
      BY <1>1, <2>2, <2>3, <3>1, <3>2
  <2> QED
    BY <2>5, <2>6
<1>3. ASSUME NEW i \in DOMAIN inbox'
      PROVE  /\ inbox'[i].kind = "create" => curve'[inbox'[i].mint].born
             /\ inbox'[i].kind = "complete" => curve'[inbox'[i].mint].done
  BY <1>1 DEF Unread
<1>4. ASSUME NEW i \in DOMAIN inbox', NEW j \in DOMAIN inbox',
             inbox'[i].kind = "create", inbox'[j].kind = "create", i # j
      PROVE  inbox'[i].mint # inbox'[j].mint
  <2>1. /\ i + 1 \in DOMAIN inbox /\ inbox'[i] = inbox[i + 1]
        /\ j + 1 \in DOMAIN inbox /\ inbox'[j] = inbox[j + 1] /\ i + 1 # j + 1
    BY <1>1, <1>4
  <2> QED
    BY <1>4, <2>1 DEF Unread
<1> QED
  BY <1>2, <1>3, <1>4 DEF Unread

LEMMA UnreadNext ==
  ASSUME DetIs, Unread, Births, Next PROVE Unread'
<1>1. CASE PumpFun
  <2>1. PICK m \in Mints : NewsOf(m)
    BY <1>1, ToldIs
  <2>2. created' = created
    BY <1>1, ToldIs
  <2>3. inbox \in Seq(Messages)
    BY DEF DetIs, WorldIs
  <2>4. \A i \in DOMAIN inbox : inbox[i].mint \in Mints
    BY <2>3 DEF Messages
  <2>5. /\ \A n \in Mints : /\ curve[n].born => curve'[n].born
                            /\ curve[n].done => curve'[n].done
    BY <2>1 DEF NewsOf
  <2>6. CASE inbox' = inbox
    BY <2>2, <2>4, <2>5, <2>6 DEF Unread
  <2>7. CASE inbox' # inbox
    <3>1. PICK msg \in Messages :
             /\ inbox' = Append(inbox, msg) /\ msg.mint = m
             /\ msg.kind = "create" => ~curve[m].born /\ curve'[m].born
             /\ msg.kind = "complete" => curve'[m].done
      BY <2>1, <2>7 DEF NewsOf
    <3>2. \A i \in DOMAIN inbox' :
             \/ i \in DOMAIN inbox /\ inbox'[i] = inbox[i]
             \/ i = Len(inbox) + 1 /\ inbox'[i] = msg
      BY <2>3, <3>1, AppendIs
    <3>3. \A k \in DOMAIN created : curve[created[k].mint].born
      BY DEF Births
    <3>4. \A i \in DOMAIN inbox : inbox[i].kind = "create" => curve[inbox[i].mint].born
      BY DEF Unread
    <3>5. ASSUME NEW i \in DOMAIN inbox'
          PROVE  /\ inbox'[i].kind = "create" =>
                      /\ curve'[inbox'[i].mint].born
                      /\ \A k \in DOMAIN created' : created'[k].mint # inbox'[i].mint
                 /\ inbox'[i].kind = "complete" => curve'[inbox'[i].mint].done
      <4>1. CASE i \in DOMAIN inbox /\ inbox'[i] = inbox[i]
        BY <2>2, <2>4, <2>5, <4>1 DEF Unread
      <4>2. CASE inbox'[i] = msg
        BY <2>2, <3>1, <3>3, <4>2
      <4> QED
        BY <3>2, <4>1, <4>2
    <3>6. ASSUME NEW i \in DOMAIN inbox', NEW j \in DOMAIN inbox',
                 inbox'[i].kind = "create", inbox'[j].kind = "create", i # j
          PROVE  inbox'[i].mint # inbox'[j].mint
      <4>1. CASE i \in DOMAIN inbox /\ inbox'[i] = inbox[i]
                 /\ j \in DOMAIN inbox /\ inbox'[j] = inbox[j]
        BY <3>6, <4>1 DEF Unread
      <4>2. CASE i \in DOMAIN inbox /\ inbox'[i] = inbox[i] /\ inbox'[j] = msg
        BY <3>1, <3>4, <3>6, <4>2
      <4>3. CASE j \in DOMAIN inbox /\ inbox'[j] = inbox[j] /\ inbox'[i] = msg
        BY <3>1, <3>4, <3>6, <4>3
      <4> QED
        BY <3>2, <3>6, <4>1, <4>2, <4>3
    <3> QED
      BY <3>5, <3>6 DEF Unread
  <2> QED
    BY <2>6, <2>7
<1>2. CASE Tick \/ SocketAlone \/ SendToken \/ TakeToken
  <2>1. UNCHANGED <<inbox, curve, created>>
    BY <1>2 DEF Tick, SocketAlone, SendToken, TakeToken, World, History
  <2> QED
    BY <2>1 DEF Unread
<1>3. CASE Connect \/ Disconnect
  <2>1. inbox' = <<>>
    BY <1>3 DEF Connect, Disconnect
  <2> QED
    BY <2>1 DEF Unread
<1>4. CASE HandleNewToken
  <2>1. PICK m \in Mints :
           /\ Read("create") /\ m = Head(inbox).mint
           /\ created' = Append(created, [mint |-> m, at |-> now, in |-> generation])
           /\ curve' = curve
    BY <1>4, NewTokenDoes
  <2>2. Head(inbox).kind = "create"
    BY <2>1 DEF Read
  <2>3. [mint |-> m, at |-> now, in |-> generation] \in Creations
    BY DEF Creations, DetIs, WorldIs, SocketIs
  <2> QED
    BY <2>1, <2>2, <2>3, UnreadAfterRead
<1>5. CASE HandleTokenTrade
  BY <1>5, TradeDoes, UnreadAfterRead
<1>6. CASE HandleTokenComplete
  BY <1>6, CompleteDoes, UnreadAfterRead
<1> QED
  BY <1>1, <1>2, <1>3, <1>4, <1>5, <1>6 DEF Next

LEMMA BirthsNext ==
  ASSUME DetInv, Next PROVE Births'
<1>1. created \in Seq(Creations) /\ now \in Nat /\ generation \in Nat
  BY DEF DetInv, DetIs, HistoryIs, WorldIs, SocketIs
<1>2. \A k \in DOMAIN created : /\ created[k].mint \in Mints
                                /\ created[k].at \in Nat /\ created[k].in \in Nat
  <2>1. \A k \in DOMAIN created : created[k] \in Creations
    BY <1>1
  <2> QED
    BY <2>1 DEF Creations
<1>3. ASSUME created' = created, now' \in Nat, now' >= now,
             generation' \in Nat, generation' >= generation,
             \A n \in Mints : curve[n].born => curve'[n].born
      PROVE  Births'
  <2>1. \A k \in DOMAIN created' : /\ curve'[created'[k].mint].born
                                   /\ created'[k].at <= now' /\ created'[k].in <= generation'
    BY <1>1, <1>2, <1>3 DEF DetInv, Births
  <2> QED
    BY <1>3, <2>1 DEF DetInv, Births
<1>4. CASE PumpFun
  <2>1. UNCHANGED <<now, created, generation>> /\ \E m \in Mints : NewsOf(m)
    BY <1>4, ToldIs DEF DetInv
  <2>2. \A n \in Mints : curve[n].born => curve'[n].born
    BY <2>1 DEF NewsOf
  <2> QED
    BY <1>1, <1>3, <2>1, <2>2
<1>5. CASE Tick
  BY <1>1, <1>3, <1>5 DEF Tick, History, World, socketVars
<1>6. CASE SocketAlone \/ SendToken \/ TakeToken
  <2>1. UNCHANGED <<created, now, generation, curve>>
    BY <1>6, StepsOutside DEF Outside, SocketAlone, SendToken, TakeToken, World, History
  <2> QED
    BY <1>1, <1>3, <2>1
<1>7. CASE Connect \/ Disconnect
  <2>1. /\ UNCHANGED <<created, now, curve>>
        /\ generation' \in {generation, generation + 1}
    BY <1>7 DEF Connect, Disconnect, Opened, Lost, History
  <2> QED
    BY <1>1, <1>3, <2>1
<1>8. CASE HandleNewToken
  <2>1. PICK m \in Mints :
           /\ Read("create") /\ m = Head(inbox).mint
           /\ created' = Append(created, [mint |-> m, at |-> now, in |-> generation])
           /\ UNCHANGED <<curve, now, generation>>
    BY <1>8, NewTokenDoes DEF DetInv
  <2>2. Head(inbox).kind = "create" /\ 1 \in DOMAIN inbox /\ Head(inbox) = inbox[1]
    BY <2>1, ReadIs DEF DetInv
  <2>3. curve[m].born /\ \A k \in DOMAIN created : created[k].mint # m
    BY <2>1, <2>2 DEF DetInv, Unread
  <2> DEFINE c == [mint |-> m, at |-> now, in |-> generation]
  <2>4. c \in Creations /\ c.mint = m /\ c.at = now /\ c.in = generation
    BY <1>1 DEF Creations
  <2>5. created' = Append(created, c)
    BY <2>1
  <2> HIDE DEF c
  <2>6. \A k \in DOMAIN created' :
           \/ k \in DOMAIN created /\ created'[k] = created[k]
           \/ k = Len(created) + 1 /\ created'[k] = c
    BY <1>1, <2>4, <2>5, AppendIs
  <2>7. ASSUME NEW k \in DOMAIN created'
        PROVE  /\ curve'[created'[k].mint].born /\ created'[k].at <= now'
               /\ created'[k].in <= generation'
    <3>1. CASE k \in DOMAIN created /\ created'[k] = created[k]
      BY <2>1, <3>1 DEF DetInv, Births
    <3>2. CASE created'[k] = c
      BY <1>1, <2>1, <2>3, <2>4, <3>2
    <3> QED
      BY <2>6, <3>1, <3>2
  <2>8. ASSUME NEW i \in DOMAIN created', NEW k \in DOMAIN created', i # k
        PROVE  created'[i].mint # created'[k].mint
    <3>1. CASE i \in DOMAIN created /\ created'[i] = created[i]
      BY <2>3, <2>4, <2>6, <2>8, <3>1 DEF DetInv, Births
    <3>2. CASE i = Len(created) + 1 /\ created'[i] = c
      BY <2>3, <2>4, <2>6, <2>8, <3>2
    <3> QED
      BY <2>6, <3>1, <3>2
  <2>9. ASSUME NEW i \in DOMAIN created', NEW k \in DOMAIN created', i < k
        PROVE  created'[i].at <= created'[k].at
    <3>1. i \in DOMAIN created /\ created'[i] = created[i]
      BY <1>1, <2>5, <2>6, <2>9
    <3>2. CASE k \in DOMAIN created /\ created'[k] = created[k]
      BY <2>9, <3>1, <3>2 DEF DetInv, Births
    <3>3. CASE created'[k] = c
      BY <2>4, <3>1, <3>3 DEF DetInv, Births
    <3> QED
      BY <2>6, <3>2, <3>3
  <2> QED
    BY <2>7, <2>8, <2>9 DEF Births
<1>9. CASE HandleTokenTrade
  BY <1>1, <1>3, <1>9, TradeDoes DEF DetInv, socketVars
<1>10. CASE HandleTokenComplete
  BY <1>1, <1>3, <1>10, CompleteDoes DEF DetInv, socketVars
<1> QED
  BY <1>4, <1>5, <1>6, <1>7, <1>8, <1>9, <1>10 DEF Next

LEMMA SeenNext ==
  ASSUME DetInv, Next PROVE Seen'
<1>1. created \in Seq(Creations) /\ now \in Nat /\ generation \in Nat
  BY DEF DetInv, DetIs, HistoryIs, WorldIs, SocketIs
<1>2. CASE PumpFun \/ Tick \/ SocketAlone \/ SendToken \/ TakeToken
  BY <1>2, StepsOutside DEF Outside, Watching, History, DetInv, Seen
<1>3. CASE Connect \/ Disconnect
  BY <1>3, Empty DEF Connect, Disconnect, Seen
<1>4. CASE HandleNewToken
  <2>0. PICK m \in Mints, kept \in Halved(watch, MaxWatch) :
           \E signal : TakenIn(m, kept, signal)
    BY <1>4, NewTokenTaken DEF DetInv
  <2>1. PICK signal :
           /\ Read("create")
           /\ watch' = Put(kept, m, NewEntry(CreatorOf(m), signal, now))
           /\ created' = Append(created, [mint |-> m, at |-> now, in |-> generation])
           /\ UNCHANGED <<conn, generation>>
    BY <2>0 DEF TakenIn
  <2> DEFINE c == [mint |-> m, at |-> now, in |-> generation]
             e == NewEntry(CreatorOf(m), signal, now)
  <2>2. c \in Creations /\ c.mint = m /\ c.at = now /\ c.in = generation /\ e.at = now
    BY <1>1, NewEntryOK DEF Creations
  <2>3. created' = Append(created, c) /\ watch' = Put(kept, m, e)
    BY <2>1
  <2> HIDE DEF c, e
  <2>4. /\ \A k \in DOMAIN created : k \in DOMAIN created' /\ created'[k] = created[k]
        /\ Len(created) + 1 \in DOMAIN created' /\ created'[Len(created) + 1] = c
    BY <1>1, <2>2, <2>3, AppendIs
  <2>5. DOMAIN watch' = DOMAIN kept \cup {m} /\ watch'[m] = e
        /\ \A n \in DOMAIN kept \ {m} : watch'[n] = kept[n]
    BY <2>3 DEF Put
  <2>6. \A n \in DOMAIN kept : n \in DOMAIN watch /\ kept[n] = watch[n]
    BY HalvedIs DEF DetInv, DetIs, WatchIs
  <2>7. ASSUME NEW n \in DOMAIN watch'
        PROVE  \E k \in DOMAIN created' : /\ created'[k].mint = n
                 /\ created'[k].at = watch'[n].at /\ created'[k].in = generation'
    <3>1. CASE n = m
      BY <2>1, <2>2, <2>4, <2>5, <3>1
    <3>2. CASE n # m
      <4>1. n \in DOMAIN watch /\ watch'[n] = watch[n]
        BY <2>5, <2>6, <3>2
      <4> QED
        BY <2>1, <2>4, <4>1 DEF DetInv, Seen
    <3> QED
      BY <3>1, <3>2
  <2>8. conn' = "up"
    BY <2>1 DEF Read
  <2> QED
    BY <2>7, <2>8 DEF Seen
<1>5. CASE HandleTokenTrade
  <2>1. UNCHANGED <<conn, generation, created, completed>>
    BY <1>5, TradeDoes DEF DetInv, socketVars
  <2>2. DOMAIN watch' = DOMAIN watch /\ \A m \in DOMAIN watch : watch'[m].at = watch[m].at
    BY <1>5, TradeDoes, TradeWatch DEF DetInv
  <2> QED
    BY <2>1, <2>2 DEF DetInv, Seen
<1>6. CASE HandleTokenComplete
  <2>1. UNCHANGED <<conn, generation, created>> /\ conn = "up"
    BY <1>6, CompleteDoes, ReadIs DEF DetInv, socketVars
  <2>2. PICK m : watch' = watch \/ watch' = Dropped(watch, m)
    BY <1>6, CompleteDoes, HandOnDoes DEF DetInv
  <2>3. \A n \in DOMAIN watch' : n \in DOMAIN watch /\ watch'[n] = watch[n]
    BY <2>2 DEF Dropped
  <2> QED
    BY <2>1, <2>3 DEF DetInv, Seen
<1> QED
  BY <1>2, <1>3, <1>4, <1>5, <1>6 DEF Next

LEMMA DetInvariant == Spec => []DetInv
<1>1. Init => DetInv
  BY DetInit, FirstsInit DEF DetInv
<1>2. DetInv /\ [Next]_vars => DetInv'
  <2>1. ASSUME DetInv, Next PROVE DetInv'
    BY <2>1, DetNext, UnreadNext, BirthsNext, SeenNext DEF DetInv
  <2>2. ASSUME DetInv, UNCHANGED vars PROVE DetInv'
    <3>1. DetIs'
      BY <2>2, DetNext DEF DetInv
    <3> QED
      BY <2>2, <3>1 DEF DetInv, Unread, Births, Seen, vars, socketVars
  <2> QED
    BY <2>1, <2>2
<1> QED
  BY <1>1, <1>2, PTL DEF Spec
-----------------------------------------------------------------------------
(* A full watchlist drops what is oldest. *)

LEMMA NewestNext ==
  ASSUME DetInv, NewestWatched, Next PROVE NewestWatched'
<1>1. created \in Seq(Creations) /\ now \in Nat /\ generation \in Nat
  BY DEF DetInv, DetIs, HistoryIs, WorldIs, SocketIs
<1>2. \A k \in DOMAIN created : /\ created[k].mint \in Mints
                                /\ created[k].at \in Nat /\ created[k].in \in Nat
  <2>1. \A k \in DOMAIN created : created[k] \in Creations
    BY <1>1
  <2> QED
    BY <2>1 DEF Creations
<1>3. ASSUME UNCHANGED <<watch, created, generation>>,
             \A n \in Mints : curve[n].done => curve'[n].done
      PROVE  NewestWatched'
  BY <1>2, <1>3 DEF NewestWatched
<1>4. CASE PumpFun
  <2>1. UNCHANGED <<watch, created, generation>>
    BY <1>4, StepsOutside DEF Outside, Watching, History
  <2>2. \A n \in Mints : curve[n].done => curve'[n].done
    BY <1>4, ToldIs DEF NewsOf, DetInv
  <2> QED
    BY <1>3, <2>1, <2>2
<1>5. CASE Tick \/ SocketAlone \/ SendToken \/ TakeToken
  <2>1. UNCHANGED <<watch, created, generation>>
    BY <1>5, StepsOutside DEF Outside, Watching, History
  <2>2. curve' = curve
    BY <1>5 DEF Tick, SocketAlone, SendToken, TakeToken, World
  <2> QED
    BY <1>3, <2>1, <2>2
<1>6. CASE Connect \/ Disconnect
  <2>1. DOMAIN watch' = {}
    BY <1>6, Empty DEF Connect, Disconnect
  <2> QED
    BY <2>1 DEF NewestWatched
<1>7. CASE HandleNewToken
  <2>0. PICK m \in Mints, kept \in Halved(watch, MaxWatch) :
           \E signal : TakenIn(m, kept, signal)
    BY <1>7, NewTokenTaken DEF DetInv
  <2>1. PICK signal :
           /\ watch' = Put(kept, m, NewEntry(CreatorOf(m), signal, now))
           /\ created' = Append(created, [mint |-> m, at |-> now, in |-> generation])
           /\ UNCHANGED <<generation, curve>>
    BY <2>0 DEF TakenIn
  <2> DEFINE c == [mint |-> m, at |-> now, in |-> generation]
             e == NewEntry(CreatorOf(m), signal, now)
  <2>2. c \in Creations /\ c.mint = m /\ c.at = now /\ e.at = now
    BY <1>1, NewEntryOK DEF Creations
  <2>3. created' = Append(created, c) /\ watch' = Put(kept, m, e)
    BY <2>1
  <2> HIDE DEF c, e
  <2>4. \A k \in DOMAIN created' :
           \/ k \in DOMAIN created /\ created'[k] = created[k]
           \/ created'[k] = c
    BY <1>1, <2>2, <2>3, AppendIs
  <2>5. DOMAIN watch' = DOMAIN kept \cup {m} /\ watch'[m] = e
        /\ \A n \in DOMAIN kept \ {m} : watch'[n] = kept[n]
    BY <2>3 DEF Put
  <2>6. /\ \A n \in DOMAIN kept : n \in DOMAIN watch /\ kept[n] = watch[n]
        /\ \A x \in DOMAIN kept, y \in DOMAIN watch \ DOMAIN kept :
              watch[y].at <= watch[x].at
    BY HalvedIs DEF DetInv, DetIs, WatchIs
  <2>7. ASSUME NEW k \in DOMAIN created, created[k].in = generation,
               created[k].mint \notin DOMAIN watch', ~curve[created[k].mint].done,
               NEW n \in DOMAIN watch'
        PROVE  watch'[n].at >= created[k].at
    <3>1. CASE n = m
      BY <1>1, <2>2, <2>5, <3>1 DEF DetInv, Births
    <3>2. CASE n # m
      <4>1. n \in DOMAIN kept /\ n \in DOMAIN watch /\ watch'[n] = watch[n]
        BY <2>5, <2>6, <3>2
      <4>2. CASE created[k].mint \notin DOMAIN watch
        BY <2>7, <4>1, <4>2 DEF NewestWatched
      <4>3. CASE created[k].mint \in DOMAIN watch
        <5>1. created[k].mint \notin DOMAIN kept
          BY <2>5, <2>7
        <5>2. watch[created[k].mint].at <= watch[n].at
          BY <2>6, <4>1, <4>3, <5>1
        <5>3. PICK i \in DOMAIN created : created[i].mint = created[k].mint
                                         /\ created[i].at = watch[created[k].mint].at
          BY <4>3 DEF DetInv, Seen
        <5>4. i = k
          BY <5>3 DEF DetInv, Births
        <5>5. created[k].at \in Nat /\ watch[n].at \in Nat
          BY <1>2, <4>1 DEF DetInv, DetIs, WatchIs, EntryOK
        <5> QED
          BY <4>1, <5>2, <5>3, <5>4, <5>5
      <4> QED
        BY <4>2, <4>3
    <3> QED
      BY <3>1, <3>2
  <2> QED
    BY <2>1, <2>2, <2>4, <2>5, <2>7 DEF NewestWatched
<1>8. CASE HandleTokenTrade
  <2>1. UNCHANGED <<generation, created, curve>>
    BY <1>8, TradeDoes DEF DetInv, socketVars
  <2>2. DOMAIN watch' = DOMAIN watch /\ \A m \in DOMAIN watch : watch'[m].at = watch[m].at
    BY <1>8, TradeDoes, TradeWatch DEF DetInv
  <2> QED
    BY <2>1, <2>2 DEF NewestWatched
<1>9. CASE HandleTokenComplete
  <2>1. UNCHANGED <<generation, created, curve>> /\ Read("complete")
    BY <1>9, CompleteDoes DEF DetInv, socketVars
  <2>2. PICK m \in Mints : /\ m = Head(inbox).mint
                           /\ watch' = watch \/ watch' = Dropped(watch, m)
    BY <1>9, CompleteDoes, HandOnDoes DEF DetInv
  <2>3. /\ \A n \in DOMAIN watch' : n \in DOMAIN watch /\ watch'[n] = watch[n]
        /\ \A n \in DOMAIN watch : n = m \/ n \in DOMAIN watch'
    BY <2>2 DEF Dropped
  <2>4. curve[m].done
    BY <2>1, <2>2, ReadIs DEF DetInv, Unread
  <2> QED
    BY <2>1, <2>3, <2>4 DEF NewestWatched
<1> QED
  BY <1>4, <1>5, <1>6, <1>7, <1>8, <1>9 DEF Next

\* What a full watchlist drops is never younger than what it keeps: a mint of
\* this connection that is not watched has graduated, or all that is watched
\* was created at its time or later.
THEOREM YoungestWatched == Spec => []NewestWatched
<1>1. Init => NewestWatched
  BY DEF Init, NewestWatched
<1>2. DetInv /\ NewestWatched /\ [Next]_vars => NewestWatched'
  <2>1. ASSUME NewestWatched, UNCHANGED vars PROVE NewestWatched'
    BY <2>1 DEF NewestWatched, vars, socketVars
  <2> QED
    BY <2>1, NewestNext
<1> QED
  BY <1>1, <1>2, DetInvariant, PTL DEF Spec

-----------------------------------------------------------------------------
(* One token for one graduation. *)

\* What was handed on within the window is remembered.
HandInv ==
  /\ \A i \in DOMAIN handed : handed[i].at <= now /\ handed[i].in <= generation
  /\ \A m \in DOMAIN completed : completed[m] <= now
  /\ \A i \in DOMAIN handed :
        conn = "up" /\ handed[i].in = generation /\ now - handed[i].at < DedupWindow
          => handed[i].mint \in DOMAIN completed
             /\ completed[handed[i].mint] >= handed[i].at

LEMMA HandNext ==
  ASSUME DetInv, HandInv, OneTokenPerGraduation, Next
  PROVE  HandInv' /\ OneTokenPerGraduation'
<1>1. handed \in Seq(Tokens) /\ now \in Nat /\ generation \in Nat /\ DedupWindow \in Nat
  BY DetectionAssumption DEF DetInv, DetIs, HistoryIs, WorldIs, SocketIs
<1>2. \A k \in DOMAIN handed : /\ handed[k].mint \in Mints
                               /\ handed[k].at \in Nat /\ handed[k].in \in Nat
  <2>1. \A k \in DOMAIN handed : handed[k] \in Tokens
    BY <1>1
  <2> QED
    BY <2>1 DEF Tokens
<1>3. \A m \in DOMAIN completed : completed[m] \in Nat
  BY DEF DetInv, DetIs, WatchIs
<1>4. ASSUME UNCHANGED <<handed, completed, now, generation, conn>>
      PROVE  HandInv' /\ OneTokenPerGraduation'
  BY <1>4 DEF HandInv, OneTokenPerGraduation
<1>5. CASE PumpFun \/ SocketAlone \/ SendToken \/ TakeToken
  <2>1. UNCHANGED <<handed, completed, generation, conn>>
    BY <1>5, StepsOutside DEF Outside, Watching, History
  <2>2. now' = now
    BY <1>5, ToldIs DEF SocketAlone, SendToken, TakeToken, DetInv
  <2> QED
    BY <1>4, <2>1, <2>2
<1>6. CASE Tick
  <2>1. UNCHANGED <<handed, completed, generation, conn>> /\ now' = now + 1
    BY <1>6 DEF Tick, Watching, History, socketVars
  <2> QED
    BY <1>1, <1>2, <1>3, <2>1 DEF HandInv, OneTokenPerGraduation
<1>7. CASE Connect
  <2>1. UNCHANGED <<handed, now>> /\ DOMAIN completed' = {} /\ generation' = generation + 1
    BY <1>7, Empty DEF Connect, Opened, History
  <2> QED
    BY <1>1, <1>2, <2>1 DEF HandInv, OneTokenPerGraduation
<1>8. CASE Disconnect
  <2>1. /\ UNCHANGED <<handed, now, generation>> /\ DOMAIN completed' = {}
        /\ conn' = "down"
    BY <1>8, Empty DEF Disconnect, Lost, History
  <2> QED
    BY <1>1, <1>2, <2>1 DEF HandInv, OneTokenPerGraduation
<1>9. CASE HandleNewToken \/ HandleTokenTrade
  BY <1>4, <1>9, NewTokenDoes, TradeDoes DEF DetInv, socketVars
<1>10. CASE HandleTokenComplete
  <2>1. conn = "up" /\ UNCHANGED <<now, generation, conn>>
    BY <1>10, CompleteDoes, ReadIs DEF DetInv, socketVars
  <2>2. PICK m \in Mints :
          \/ completed' = Fresh /\ handed' = handed
          \/ /\ m \notin DOMAIN Fresh /\ completed' = Put(Fresh, m, now)
             /\ \/ handed' = handed
                \/ \E token \in Tokens : /\ token.mint = m /\ token.at = now
                      /\ token.in = generation /\ handed' = Append(handed, token)
    BY <1>10, CompleteDoes, HandOnDoes DEF DetInv, Graduates
  <2>3. /\ \A n \in DOMAIN completed' :
              \/ n \in DOMAIN completed /\ completed'[n] = completed[n]
              \/ n = m /\ completed'[n] = now
        /\ \A n \in DOMAIN completed : now - completed[n] < DedupWindow
              => /\ n \in DOMAIN completed'
                 /\ \/ completed'[n] = completed[n]
                    \/ n = m /\ completed'[n] = now
    BY <2>2 DEF Fresh, Put
  <2>4. ASSUME NEW i \in DOMAIN handed, handed[i].in = generation,
               now - handed[i].at < DedupWindow
        PROVE  /\ handed[i].mint \in DOMAIN completed
               /\ now - completed[handed[i].mint] < DedupWindow
               /\ completed[handed[i].mint] >= handed[i].at
    <3>1. /\ handed[i].mint \in DOMAIN completed
          /\ completed[handed[i].mint] >= handed[i].at
      BY <2>1, <2>4 DEF HandInv
    <3> QED
      BY <1>1, <1>2, <1>3, <2>4, <3>1
  <2>5. ASSUME NEW i \in DOMAIN handed
        PROVE  /\ handed[i].at <= now /\ handed[i].in <= generation
               /\ handed[i].in = generation /\ now - handed[i].at < DedupWindow
                    => handed[i].mint \in DOMAIN completed'
                       /\ completed'[handed[i].mint] >= handed[i].at
    <3>1. handed[i].at <= now /\ handed[i].in <= generation
      BY DEF HandInv
    <3>2. ASSUME handed[i].in = generation, now - handed[i].at < DedupWindow
          PROVE  handed[i].mint \in DOMAIN completed'
                 /\ completed'[handed[i].mint] >= handed[i].at
      BY <1>1, <1>2, <1>3, <2>3, <2>4, <3>1, <3>2
    <3> QED
      BY <3>1, <3>2
  <2>6. \A n \in DOMAIN completed' : completed'[n] <= now
    BY <1>1, <2>3 DEF HandInv
  <2>7. CASE handed' = handed
    BY <2>1, <2>5, <2>6, <2>7 DEF HandInv, OneTokenPerGraduation
  <2>8. CASE handed' # handed
    <3>1. PICK token \in Tokens :
             /\ token.mint = m /\ token.at = now /\ token.in = generation
             /\ handed' = Append(handed, token)
      BY <2>2, <2>8
    <3>2. m \notin DOMAIN Fresh /\ m \in DOMAIN completed' /\ completed'[m] = now
      BY <2>2, <2>8 DEF Put
    <3>3. \A i \in DOMAIN handed' :
             \/ i \in DOMAIN handed /\ handed'[i] = handed[i]
             \/ i = Len(handed) + 1 /\ handed'[i] = token
      BY <1>1, <3>1, AppendIs
    <3>4. \A i \in DOMAIN handed :
             handed[i].mint = m /\ handed[i].in = generation
               => now - handed[i].at >= DedupWindow
      <4>1. ASSUME NEW i \in DOMAIN handed, handed[i].mint = m,
                   handed[i].in = generation, now - handed[i].at < DedupWindow
            PROVE  FALSE
        BY <2>4, <3>2, <4>1 DEF Fresh
      <4> QED
        BY <1>1, <1>2, <4>1
    <3>5. HandInv'
      <4>1. ASSUME NEW i \in DOMAIN handed'
            PROVE  /\ handed'[i].at <= now /\ handed'[i].in <= generation
                   /\ handed'[i].in = generation /\ now - handed'[i].at < DedupWindow
                        => handed'[i].mint \in DOMAIN completed'
                           /\ completed'[handed'[i].mint] >= handed'[i].at
        <5>1. CASE i \in DOMAIN handed /\ handed'[i] = handed[i]
          BY <2>5, <5>1
        <5>2. CASE handed'[i] = token
          BY <1>1, <3>1, <3>2, <5>2
        <5> QED
          BY <3>3, <5>1, <5>2
      <4> QED
        BY <2>1, <2>6, <4>1 DEF HandInv
    <3>6. OneTokenPerGraduation'
      <4>1. ASSUME NEW i \in DOMAIN handed', NEW j \in DOMAIN handed', i < j,
                   handed'[i].mint = handed'[j].mint, handed'[i].in = handed'[j].in
            PROVE  handed'[j].at - handed'[i].at >= DedupWindow
        <5>1. i \in DOMAIN handed /\ handed'[i] = handed[i]
          BY <1>1, <3>1, <3>3, <4>1
        <5>2. CASE j \in DOMAIN handed /\ handed'[j] = handed[j]
          BY <4>1, <5>1, <5>2 DEF OneTokenPerGraduation
        <5>3. CASE handed'[j] = token
          BY <3>1, <3>4, <4>1, <5>1, <5>3
        <5> QED
          BY <3>3, <5>2, <5>3
      <4> QED
        BY <4>1 DEF OneTokenPerGraduation
    <3> QED
      BY <3>5, <3>6
  <2> QED
    BY <2>7, <2>8
<1> QED
  BY <1>5, <1>6, <1>7, <1>8, <1>9, <1>10 DEF Next

\* One connection never hands a mint on twice within the window.
THEOREM OneTokenEach == Spec => []OneTokenPerGraduation
<1>1. Init => HandInv /\ OneTokenPerGraduation
  <2>1. Init => DOMAIN handed = {} /\ DOMAIN completed = {}
    BY Empty DEF Init
  <2> QED
    BY <2>1 DEF HandInv, OneTokenPerGraduation
<1>2. DetInv /\ HandInv /\ OneTokenPerGraduation /\ [Next]_vars
        => HandInv' /\ OneTokenPerGraduation'
  <2>1. ASSUME HandInv, OneTokenPerGraduation, UNCHANGED vars
        PROVE  HandInv' /\ OneTokenPerGraduation'
    BY <2>1 DEF HandInv, OneTokenPerGraduation, vars, socketVars
  <2> QED
    BY <2>1, HandNext
<1> QED
  BY <1>1, <1>2, DetInvariant, PTL DEF Spec
-----------------------------------------------------------------------------
(* The lanes. *)

\* A rung has the lower ones below it, and an add its probe.
Ordered(F) ==
  /\ "progress_90pct" \in F => "progress_75pct" \in F
  /\ "progress_75pct" \in F => "progress_60pct" \in F
  /\ "probe_add_add" \in F => "probe_add_probe" \in F

\* The lanes of a trade keep the order, whatever level it reports.
LEMMA TradeOrdered ==
  ASSUME NEW e, e.level \in Nat \cup {None}, Ordered(e.fired), NEW buy, NEW t
  PROVE  /\ Ordered(e.fired \cup FirstMinuteLane(e, t))
         /\ Ordered(e.fired \cup FirstMinuteLane(e, t) \cup TradeLanes(e, buy, t))
<1> DEFINE First == FirstMinuteLane(e, t)
           Launch == LaunchLane(e, buy, t)
           Up == LadderUpTo(e.level)
           Flow == FlowLane(e, e.level)
           Probe == ProbeLane(e, e.level)
<1>1. First \subseteq {"first_minute_flow"} /\ Launch \subseteq {"launch_label_shadow"}
      /\ Flow \subseteq {"label_flow_shadow"}
  BY DEF FirstMinuteLane, LaunchLane, FlowLane
<1>2. /\ Probe \subseteq {"probe_add_probe", "probe_add_add"}
      /\ "probe_add_add" \in Probe => "probe_add_probe" \in e.fired
  <2>1. CASE "probe_add_probe" \notin e.fired
    BY <2>1 DEF ProbeLane
  <2>2. CASE "probe_add_probe" \in e.fired
    BY <2>2 DEF ProbeLane
  <2> QED
    BY <2>1, <2>2
<1>3. Up \subseteq Ladder
  BY DEF LadderUpTo
<1>4. ASSUME e.level # None
      PROVE  /\ "progress_90pct" \in Up => "progress_75pct" \in Up
             /\ "progress_75pct" \in Up => "progress_60pct" \in Up
  <2>1. e.level \in Nat
    BY <1>4
  <2>2. /\ "progress_90pct" \in Up <=> e.level >= 90
        /\ "progress_75pct" \in Up <=> e.level >= 75
        /\ "progress_60pct" \in Up <=> e.level >= 60
    BY DEF LadderUpTo, Ladder
  <2> QED
    BY <2>1, <2>2
<1>5. TradeLanes(e, buy, t) =
        (IF Volume(e) >= SignalVolume THEN {"volume_50sol"} ELSE {})
          \cup IF e.level = None THEN {}
               ELSE Launch \cup {l \in {"control_no_fire"} : e.level >= 30}
                     \cup Up \cup Flow \cup Probe
  BY DEF TradeLanes
<1> HIDE DEF First, Launch, Up, Flow, Probe
<1>6. Ordered(e.fired \cup First)
  BY <1>1 DEF Ordered
<1>7. CASE e.level = None
  BY <1>1, <1>5, <1>7 DEF Ordered, First
<1>8. CASE e.level # None
  <2>1. \A l : l \in TradeLanes(e, buy, t) =>
            \/ l \in {"volume_50sol", "control_no_fire"} \/ l \in Launch
            \/ l \in Up \/ l \in Flow \/ l \in Probe
    BY <1>5
  <2>2. Up \subseteq TradeLanes(e, buy, t) /\ Probe \subseteq TradeLanes(e, buy, t)
    BY <1>5, <1>8
  <2>3. \A l \in Ladder : l \in TradeLanes(e, buy, t) <=> l \in Up
    BY <1>1, <1>2, <2>1, <2>2 DEF Ladder
  <2>4. "probe_add_add" \in TradeLanes(e, buy, t) => "probe_add_probe" \in e.fired
    BY <1>1, <1>2, <1>3, <2>1 DEF Ladder
  <2> QED
    BY <1>1, <1>4, <1>8, <2>3, <2>4 DEF Ordered, Ladder, First
<1> QED
  BY <1>6, <1>7, <1>8 DEF First

\* So do those of a graduation, which have every rung once the curve was seen.
LEMMA GraduationOrdered ==
  ASSUME NEW e, Ordered(e.fired)
  PROVE  /\ Ordered(e.fired \cup GraduationLanes(e))
         /\ e.level # None => Ladder \subseteq GraduationLanes(e)
         /\ "graduation_raw" \in GraduationLanes(e)
<1> DEFINE progress == IF e.level = None THEN 100 ELSE e.level
           Flow == FlowLane(e, progress)
           Probe == ProbeLane(e, progress)
<1>1. Flow \subseteq {"label_flow_shadow"}
  BY DEF FlowLane
<1>2. /\ Probe \subseteq {"probe_add_probe", "probe_add_add"}
      /\ "probe_add_add" \in Probe => "probe_add_probe" \in e.fired
  <2>1. CASE "probe_add_probe" \notin e.fired
    BY <2>1 DEF ProbeLane
  <2>2. CASE "probe_add_probe" \in e.fired
    BY <2>2 DEF ProbeLane
  <2> QED
    BY <2>1, <2>2
<1>3. GraduationLanes(e) = (IF e.level = None THEN {} ELSE Ladder)
                              \cup Flow \cup Probe \cup {"graduation_raw"}
  BY DEF GraduationLanes
<1> HIDE DEF Flow, Probe
<1> QED
  BY <1>1, <1>2, <1>3 DEF Ordered, Ladder

FiredOf(m) == {l \in Lanes : fires[m][l] = 1}

LanesInv ==
  /\ \A m \in Mints, l \in Lanes : fires[m][l] \in {0, 1}
  /\ \A m \in Mints : Ordered(FiredOf(m))
  /\ \A m \in DOMAIN watch : watch[m].fired = FiredOf(m)
  /\ \A m \in Mints :
        (\A k \in DOMAIN created : created[k].mint # m) => FiredOf(m) = {}
  /\ \A i \in DOMAIN handed :
        /\ handed[i].seen => Ladder \subseteq FiredOf(handed[i].mint)
        /\ handed[i].known => "graduation_raw" \in FiredOf(handed[i].mint)

\* What is counted is what is fired.
LEMMA CountFires ==
  ASSUME DetInv, LanesInv, NEW m \in Mints, NEW lanes \in SUBSET Lanes,
         lanes \cap FiredOf(m) = {}, fires' = Count(m, lanes)
  PROVE  /\ \A n \in Mints, l \in Lanes : fires'[n][l] \in {0, 1}
         /\ FiredOf(m)' = FiredOf(m) \cup lanes
         /\ \A n \in Mints \ {m} : FiredOf(n)' = FiredOf(n)
<1>1. \A n \in Mints, l \in Lanes :
         /\ n = m /\ l \in lanes => fires'[n][l] = fires[n][l] + 1
         /\ ~(n = m /\ l \in lanes) => fires'[n][l] = fires[n][l]
  BY CountIs DEF DetInv, DetIs
<1>2. \A l \in lanes : fires[m][l] = 0
  BY DEF LanesInv, FiredOf
<1> QED
  BY <1>1, <1>2 DEF LanesInv, FiredOf

\* A handler that fires lanes of m, and may hand m on.
LEMMA LanesStep ==
  ASSUME DetInv, LanesInv, NEW m \in Mints, NEW lanes \in SUBSET Lanes,
         lanes \cap FiredOf(m) = {}, Ordered(FiredOf(m) \cup lanes),
         fires' = Count(m, lanes), created' = created,
         lanes = {} \/ m \in DOMAIN watch,
         \A n \in DOMAIN watch' : n \in DOMAIN watch,
         \A n \in DOMAIN watch' \ {m} : watch'[n].fired = watch[n].fired,
         m \in DOMAIN watch' => watch'[m].fired = watch[m].fired \cup lanes,
         \A i \in DOMAIN handed' :
            \/ i \in DOMAIN handed /\ handed'[i] = handed[i]
            \/ /\ handed'[i].mint = m
               /\ handed'[i].seen => Ladder \subseteq FiredOf(m) \cup lanes
               /\ handed'[i].known => "graduation_raw" \in FiredOf(m) \cup lanes
  PROVE  LanesInv'
<1>1. /\ \A n \in Mints, l \in Lanes : fires'[n][l] \in {0, 1}
      /\ FiredOf(m)' = FiredOf(m) \cup lanes
      /\ \A n \in Mints \ {m} : FiredOf(n)' = FiredOf(n)
  BY CountFires
<1>2. \A n \in Mints : FiredOf(n) \subseteq FiredOf(n)'
  BY <1>1
<1>3. \A n \in Mints : Ordered(FiredOf(n)') 
  <2>1. ASSUME NEW n \in Mints PROVE Ordered(FiredOf(n)')
    <3>1. CASE n = m
      BY <1>1, <3>1
    <3>2. CASE n # m
      <4>1. FiredOf(n)' = FiredOf(n) /\ Ordered(FiredOf(n))
        BY <1>1, <3>2 DEF LanesInv
      <4> QED
        BY <4>1 DEF Ordered
    <3> QED
      BY <3>1, <3>2
  <2> QED
    BY <2>1
<1>4. \A n \in Mints : Ordered(FiredOf(n))'
  BY <1>3 DEF Ordered
<1>5. DOMAIN watch \subseteq Mints
  BY DEF DetInv, DetIs, WatchIs
<1>6. ASSUME NEW n \in DOMAIN watch' PROVE watch'[n].fired = FiredOf(n)'
  <2>1. n \in DOMAIN watch /\ watch[n].fired = FiredOf(n) /\ n \in Mints
    BY <1>5, <1>6 DEF LanesInv
  <2>2. CASE n = m
    BY <1>1, <1>6, <2>1, <2>2
  <2>3. CASE n # m
    BY <1>1, <1>6, <2>1, <2>3
  <2> QED
    BY <2>2, <2>3
<1>7. ASSUME NEW n \in Mints, \A k \in DOMAIN created' : created'[k].mint # n
      PROVE  FiredOf(n)' = {}
  <2>1. FiredOf(n) = {} /\ n \notin DOMAIN watch
    BY <1>7 DEF LanesInv, DetInv, Seen
  <2>2. CASE n = m
    BY <1>1, <2>1, <2>2
  <2>3. CASE n # m
    BY <1>1, <2>1, <2>3
  <2> QED
    BY <2>2, <2>3
<1>8. ASSUME NEW i \in DOMAIN handed'
      PROVE  \E n \in Mints :
               /\ handed'[i].mint = n
               /\ handed'[i].seen => Ladder \subseteq FiredOf(n)'
               /\ handed'[i].known => "graduation_raw" \in FiredOf(n)'
  <2>1. CASE i \in DOMAIN handed /\ handed'[i] = handed[i]
    <3>1. handed[i] \in Tokens
      BY <2>1 DEF DetInv, DetIs, HistoryIs
    <3>2. PICK n \in Mints : handed[i].mint = n
      BY <3>1 DEF Tokens
    <3>3. /\ handed[i].seen => Ladder \subseteq FiredOf(n)
          /\ handed[i].known => "graduation_raw" \in FiredOf(n)
      BY <2>1, <3>2 DEF LanesInv
    <3>4. FiredOf(n) \subseteq FiredOf(n)'
      BY <1>2
    <3> QED
      BY <2>1, <3>2, <3>3, <3>4
  <2>2. CASE /\ handed'[i].mint = m
             /\ handed'[i].seen => Ladder \subseteq FiredOf(m) \cup lanes
             /\ handed'[i].known => "graduation_raw" \in FiredOf(m) \cup lanes
    BY <1>1, <2>2
  <2> QED
    BY <2>1, <2>2
<1>9. ASSUME NEW i \in DOMAIN handed'
      PROVE  (/\ handed[i].seen => Ladder \subseteq FiredOf(handed[i].mint)
              /\ handed[i].known => "graduation_raw" \in FiredOf(handed[i].mint))'
  BY <1>8 DEF FiredOf
<1> QED
  BY <1>1, <1>4, <1>6, <1>7, <1>9 DEF LanesInv

LEMMA LanesNext ==
  ASSUME DetInv, LanesInv, Next PROVE LanesInv'
<1>1. ASSUME UNCHANGED <<fires, created, handed>>,
             \A n \in DOMAIN watch' : n \in DOMAIN watch /\ watch'[n].fired = watch[n].fired
      PROVE  LanesInv'
  BY <1>1 DEF LanesInv, FiredOf, Ordered
<1>2. CASE PumpFun \/ Tick \/ SocketAlone \/ SendToken \/ TakeToken
  BY <1>1, <1>2, StepsOutside DEF Outside, Watching, History
<1>3. CASE Connect \/ Disconnect
  BY <1>1, <1>3, Empty DEF Connect, Disconnect, History
<1>4. CASE HandleNewToken
  <2>0. PICK m \in Mints, kept \in Halved(watch, MaxWatch) :
           \E signal : TakenIn(m, kept, signal)
    BY <1>4, NewTokenTaken DEF DetInv
  <2>1. PICK signal :
           /\ Read("create") /\ m = Head(inbox).mint
           /\ watch' = Put(kept, m, NewEntry(CreatorOf(m), signal, now))
           /\ created' = Append(created, [mint |-> m, at |-> now, in |-> generation])
           /\ UNCHANGED <<fires, handed>>
    BY <2>0 DEF TakenIn
  <2> DEFINE c == [mint |-> m, at |-> now, in |-> generation]
             e == NewEntry(CreatorOf(m), signal, now)
  <2>2. now \in Nat /\ generation \in Nat /\ created \in Seq(Creations)
    BY DEF DetInv, DetIs, HistoryIs, WorldIs, SocketIs
  <2>3. c \in Creations /\ c.mint = m /\ e.fired = {}
    BY <2>2, NewEntryOK DEF Creations
  <2>4. created' = Append(created, c) /\ watch' = Put(kept, m, e)
    BY <2>1
  <2>5. FiredOf(m) = {}
    <3>1. Head(inbox).kind = "create" /\ 1 \in DOMAIN inbox /\ Head(inbox) = inbox[1]
      BY <2>1, ReadIs DEF DetInv
    <3>2. \A k \in DOMAIN created : created[k].mint # m
      BY <2>1, <3>1 DEF DetInv, Unread
    <3> QED
      BY <3>2 DEF LanesInv
  <2> HIDE DEF c, e
  <2>6. /\ \A k \in DOMAIN created : k \in DOMAIN created' /\ created'[k] = created[k]
        /\ Len(created) + 1 \in DOMAIN created' /\ created'[Len(created) + 1].mint = m
    BY <2>2, <2>3, <2>4, AppendIs
  <2>7. DOMAIN watch' = DOMAIN kept \cup {m} /\ watch'[m] = e
        /\ \A n \in DOMAIN kept \ {m} : watch'[n] = kept[n]
    BY <2>4 DEF Put
  <2>8. \A n \in DOMAIN kept : n \in DOMAIN watch /\ kept[n] = watch[n]
    BY HalvedIs DEF DetInv, DetIs, WatchIs
  <2>9. \A n \in Mints : FiredOf(n)' = FiredOf(n)
    BY <2>1 DEF FiredOf
  <2>10. ASSUME NEW n \in DOMAIN watch' PROVE watch'[n].fired = FiredOf(n)'
    <3>1. CASE n = m
      BY <2>3, <2>5, <2>7, <2>9, <3>1
    <3>2. CASE n # m
      <4>1. n \in DOMAIN watch /\ watch'[n] = watch[n] /\ n \in Mints
        BY <2>7, <2>8, <3>2 DEF DetInv, DetIs, WatchIs
      <4> QED
        BY <2>9, <4>1 DEF LanesInv
    <3> QED
      BY <3>1, <3>2
  <2>11. ASSUME NEW n \in Mints, \A k \in DOMAIN created' : created'[k].mint # n
         PROVE  FiredOf(n)' = {}
    BY <2>6, <2>9, <2>11 DEF LanesInv
  <2>12. /\ \A n \in Mints, l \in Lanes : fires'[n][l] \in {0, 1}
         /\ \A n \in Mints : Ordered(FiredOf(n))'
         /\ (\A i \in DOMAIN handed :
               /\ handed[i].seen => Ladder \subseteq FiredOf(handed[i].mint)
               /\ handed[i].known => "graduation_raw" \in FiredOf(handed[i].mint))'
    BY <2>1 DEF LanesInv, FiredOf, Ordered
  <2> QED
    BY <2>10, <2>11, <2>12 DEF LanesInv
<1>5. CASE HandleTokenTrade
  <2>1. UNCHANGED <<created, handed>>
    BY <1>5, TradeDoes DEF DetInv
  <2>2. CASE UNCHANGED <<watch, fires>>
    BY <1>1, <2>1, <2>2
  <2>3. CASE ~UNCHANGED <<watch, fires>>
    <3>1. PICK msg \in Messages : /\ msg.mint \in DOMAIN watch /\ msg.buy \in BOOLEAN
                                 /\ msg.level \in Nat \cup {None} /\ TradeOf(msg)
      BY <1>5, <2>3, TradeDoes DEF DetInv
    <3>0. PICK lanes \in SUBSET Lanes : \E e : TradeFires(msg, lanes, e)
      BY <3>1, TradeWatch DEF DetInv
    <3>2. PICK e :
              /\ lanes = Firing(e, FirstMinuteLane(e, now)
                           \cup IF Skeleton THEN {} ELSE TradeLanes(e, msg.buy, now))
              /\ e.fired = watch[msg.mint].fired
              /\ e.level \in Nat \cup {None}
              /\ watch'[msg.mint].fired = e.fired \cup lanes
              /\ fires' = Count(msg.mint, lanes)
      BY <3>0 DEF TradeFires
    <3>3. msg.mint \in Mints /\ e.fired = FiredOf(msg.mint) /\ Ordered(e.fired)
      BY <3>1, <3>2 DEF DetInv, DetIs, WatchIs, LanesInv
    <3>4. Ordered(e.fired \cup lanes)
      <4>1. /\ Ordered(e.fired \cup FirstMinuteLane(e, now))
            /\ Ordered(e.fired \cup FirstMinuteLane(e, now) \cup TradeLanes(e, msg.buy, now))
        BY <3>2, <3>3, TradeOrdered
      <4> QED
        BY <3>2, <4>1 DEF Firing, Ordered
    <3>5. lanes \cap FiredOf(msg.mint) = {}
      BY <3>2, <3>3 DEF Firing
    <3>6. /\ DOMAIN watch' = DOMAIN watch
          /\ \A n \in DOMAIN watch \ {msg.mint} : watch'[n] = watch[n]
      BY <3>1, TradeWatch DEF DetInv
    <3>7. /\ Ordered(FiredOf(msg.mint) \cup lanes)
          /\ watch'[msg.mint].fired = watch[msg.mint].fired \cup lanes
          /\ \A n \in DOMAIN watch' \ {msg.mint} : watch'[n].fired = watch[n].fired
      BY <3>2, <3>3, <3>4, <3>6
    <3> QED
      BY <2>1, <3>1, <3>2, <3>3, <3>5, <3>6, <3>7, LanesStep
  <2> QED
    BY <2>2, <2>3
<1>6. CASE HandleTokenComplete
  <2>1. created' = created
    BY <1>6, CompleteDoes DEF DetInv
  <2>2. PICK m \in Mints :
           \/ UNCHANGED <<watch, handed, fires>>
           \/ watch' = Dropped(watch, m) /\ UNCHANGED <<handed, fires>>
           \/ \E more \in Nat : HandOn(m, more)
    BY <1>6, CompleteDoes DEF DetInv
  <2>3. CASE UNCHANGED <<watch, handed, fires>>
    BY <1>1, <2>1, <2>3
  <2>4. CASE watch' = Dropped(watch, m) /\ UNCHANGED <<handed, fires>>
    <3>1. \A n \in DOMAIN watch' : n \in DOMAIN watch /\ watch'[n] = watch[n]
      BY <2>4 DEF Dropped
    <3> QED
      BY <1>1, <2>1, <2>4, <3>1
  <2>5. CASE \E more \in Nat : HandOn(m, more)
    <3>0. PICK token \in Tokens, lanes \in SUBSET Lanes : \E e : Graduates(m, token, lanes, e)
      BY <2>5, HandOnDoes DEF DetInv
    <3>1. PICK e :
              /\ token.mint = m
              /\ token.known <=> m \in DOMAIN watch
              /\ token.seen => m \in DOMAIN watch /\ e.level # None
              /\ handed' = Append(handed, token) /\ fires' = Count(m, lanes)
              /\ m \in DOMAIN watch => /\ e.fired = watch[m].fired
                                      /\ lanes = Firing(e, GraduationLanes(e))
              /\ m \notin DOMAIN watch => lanes = {}
      BY <3>0 DEF Graduates
    <3>2. \A n \in DOMAIN watch' : n # m /\ n \in DOMAIN watch /\ watch'[n] = watch[n]
      BY <2>5 DEF HandOn, Dropped
    <3>3. \A i \in DOMAIN handed' :
             \/ i \in DOMAIN handed /\ handed'[i] = handed[i]
             \/ i = Len(handed) + 1 /\ handed'[i] = token
      <4>1. handed \in Seq(Tokens)
        BY DEF DetInv, DetIs, HistoryIs
      <4> QED
        BY <3>1, <4>1, AppendIs
    <3>4. CASE m \in DOMAIN watch
      <4>1. e.fired = FiredOf(m) /\ Ordered(e.fired)
        BY <3>1, <3>4 DEF LanesInv
      <4>2. e.fired \cup lanes = e.fired \cup GraduationLanes(e)
        BY <3>1, <3>4 DEF Firing
      <4>3. /\ Ordered(FiredOf(m) \cup lanes)
            /\ token.seen => Ladder \subseteq FiredOf(m) \cup lanes
            /\ "graduation_raw" \in FiredOf(m) \cup lanes
        BY <3>1, <4>1, <4>2, GraduationOrdered
      <4>4. lanes \cap FiredOf(m) = {}
        BY <3>1, <3>4, <4>1 DEF Firing
      <4>5. \A i \in DOMAIN handed' :
               \/ i \in DOMAIN handed /\ handed'[i] = handed[i]
               \/ /\ handed'[i].mint = m
                  /\ handed'[i].seen => Ladder \subseteq FiredOf(m) \cup lanes
                  /\ handed'[i].known => "graduation_raw" \in FiredOf(m) \cup lanes
        BY <3>1, <3>3, <4>3
      <4> QED
        BY <2>1, <3>1, <3>2, <3>4, <4>3, <4>4, <4>5, LanesStep
    <3>5. CASE m \notin DOMAIN watch
      <4>1. lanes = {} /\ ~token.seen /\ ~token.known
        BY <3>1, <3>5
      <4>2. Ordered(FiredOf(m) \cup lanes) /\ lanes \cap FiredOf(m) = {}
        BY <4>1 DEF LanesInv, Ordered
      <4>3. \A i \in DOMAIN handed' :
               \/ i \in DOMAIN handed /\ handed'[i] = handed[i]
               \/ /\ handed'[i].mint = m
                  /\ handed'[i].seen => Ladder \subseteq FiredOf(m) \cup lanes
                  /\ handed'[i].known => "graduation_raw" \in FiredOf(m) \cup lanes
        BY <3>1, <3>3, <4>1
      <4> QED
        BY <2>1, <3>1, <3>2, <4>1, <4>2, <4>3, LanesStep
    <3> QED
      BY <3>4, <3>5
  <2> QED
    BY <2>2, <2>3, <2>4, <2>5
<1> QED
  BY <1>2, <1>3, <1>4, <1>5, <1>6 DEF Next

LEMMA LanesInvariant == Spec => []LanesInv
<1>1. Init => LanesInv
  <2>1. ASSUME Init PROVE /\ \A m \in Mints, l \in Lanes : fires[m][l] = 0
                          /\ DOMAIN handed = {} /\ DOMAIN watch = {}
    BY <2>1, Empty DEF Init
  <2> QED
    BY <2>1 DEF LanesInv, FiredOf, Ordered
<1>2. DetInv /\ LanesInv /\ [Next]_vars => LanesInv'
  <2>1. ASSUME LanesInv, UNCHANGED vars PROVE LanesInv'
    BY <2>1 DEF LanesInv, FiredOf, Ordered, vars
  <2> QED
    BY <2>1, LanesNext
<1> QED
  BY <1>1, <1>2, DetInvariant, PTL DEF Spec

\* No lane is recorded twice for a mint, whatever trades, doubled graduations
\* and reconnects come.
THEOREM LanesFireOnce == Spec => []LaneOnce
<1>1. LanesInv => LaneOnce
  <2>1. \A x \in {0, 1} : x <= 1
    OBVIOUS
  <2> QED
    BY <2>1 DEF LanesInv, LaneOnce
<1> QED
  BY <1>1, LanesInvariant, PTL

\* Every rung of the ladder has its row once the curve was seen, a higher one
\* never before a lower, and every known graduation has its own.
THEOREM LadderFilled == Spec => []LadderComplete
<1>1. DetInv /\ LanesInv => LadderComplete
  <2> SUFFICES ASSUME DetInv, LanesInv PROVE LadderComplete
    OBVIOUS
  <2>1. ASSUME NEW i \in DOMAIN handed
        PROVE  /\ handed[i].seen => \A l \in Ladder : fires[handed[i].mint][l] = 1
               /\ handed[i].known => fires[handed[i].mint]["graduation_raw"] = 1
    BY DEF LanesInv, FiredOf
  <2>2. ASSUME NEW m \in Mints, NEW l \in Lanes, NEW k \in Lanes,
               l \in FiredOf(m) => k \in FiredOf(m)
        PROVE  fires[m][l] <= fires[m][k]
    <3>1. fires[m][l] \in {0, 1} /\ fires[m][k] \in {0, 1}
      BY DEF LanesInv
    <3> QED
      BY <2>2, <3>1 DEF FiredOf
  <2>3. {"progress_60pct", "progress_75pct", "progress_90pct", "probe_add_add",
         "probe_add_probe"} \subseteq Lanes
    BY DEF Lanes, Ladder
  <2>4. ASSUME NEW m \in Mints
        PROVE  /\ fires[m]["progress_90pct"] <= fires[m]["progress_75pct"]
               /\ fires[m]["progress_75pct"] <= fires[m]["progress_60pct"]
               /\ fires[m]["probe_add_add"] <= fires[m]["probe_add_probe"]
    <3>1. Ordered(FiredOf(m))
      BY DEF LanesInv
    <3> QED
      BY <2>2, <2>3, <3>1 DEF Ordered
  <2> QED
    BY <2>1, <2>4 DEF LadderComplete
<1> QED
  BY <1>1, DetInvariant, LanesInvariant, PTL

-----------------------------------------------------------------------------
(* Subscriptions. *)

\* A message about the subscription to account a.
About(msg, a) == msg.op # "token" /\ a \in msg.keys

\* The last message about an account says what the reconciler believes; with
\* none on its way, the server has it.
SubBody ==
  /\ \A m \in DOMAIN watch : m \in serverMints
        \/ \E i \in DOMAIN outbox : outbox[i].op = "token" /\ outbox[i].keys = {m}
  /\ \A a : (\A i \in DOMAIN outbox : ~About(outbox[i], a))
               => (a \in serverAccounts <=> a \in accounts)
  /\ \A a : \A i \in DOMAIN outbox :
        About(outbox[i], a) /\ (\A j \in DOMAIN outbox : j > i => ~About(outbox[j], a))
          => (outbox[i].op = "add" <=> a \in accounts)

SubInv == conn = "up" /\ writer => SubBody

LEMMA RequestsAre ==
  ASSUME NEW op, NEW keys
  PROVE  /\ keys = {} => Requests(op, keys) = <<>>
         /\ keys # {} => Requests(op, keys) = <<[op |-> op, keys |-> keys]>>
  BY DEF Requests

\* One message at most to add and one to remove, and together they are about
\* every account in which the roster and the belief differ.
LEMMA DifferenceIs ==
  ASSUME SocketIs
  PROVE  /\ Difference \in Seq(Requested)
         /\ \A i \in DOMAIN Difference : \A a : About(Difference[i], a) =>
               \/ Difference[i].op = "add" /\ a \in roster \ accounts
               \/ Difference[i].op = "remove" /\ a \in accounts \ roster
         /\ \A a : ~(a \in roster <=> a \in accounts)
               => \E i \in DOMAIN Difference : About(Difference[i], a)
<1> DEFINE More == roster \ accounts
           Less == accounts \ roster
           more == [op |-> "add", keys |-> More]
           less == [op |-> "remove", keys |-> Less]
<1>1. more \in Requested /\ less \in Requested
  BY DEF Requested, SocketIs
<1>2. /\ more.op = "add" /\ \A a : About(more, a) <=> a \in More
      /\ less.op = "remove" /\ \A a : About(less, a) <=> a \in Less
  BY DEF About
<1>3. Difference = Requests("add", More) \o Requests("remove", Less)
  BY DEF Difference
<1>4. /\ Requests("add", More) = IF More = {} THEN <<>> ELSE <<more>>
      /\ Requests("remove", Less) = IF Less = {} THEN <<>> ELSE <<less>>
  BY DEF Requests
<1>5. /\ \A a : ~(a \in roster <=> a \in accounts) => a \in More \/ a \in Less
      /\ \A a : a \in More => a \in roster \ accounts
      /\ \A a : a \in Less => a \in accounts \ roster
  OBVIOUS
<1> HIDE DEF More, Less, more, less
<1>6. CASE More = {} /\ Less = {}
  <2>1. Difference = <<>>
    BY <1>3, <1>4, <1>6
  <2> QED
    BY <1>5, <1>6, <2>1
<1>7. CASE More # {} /\ Less = {}
  <2>1. Difference = <<more>>
    <3>1. Difference = <<more>> \o <<>>
      BY <1>3, <1>4, <1>7
    <3>2. <<more>> \in Seq(Requested)
      BY <1>1
    <3> QED
      BY <3>1, <3>2, ConcatEmptySeq
  <2>2. DOMAIN Difference = {1} /\ Difference[1] = more /\ Difference \in Seq(Requested)
    BY <1>1, <2>1
  <2> QED
    BY <1>2, <1>5, <1>7, <2>2
<1>8. CASE More = {} /\ Less # {}
  <2>1. Difference = <<less>>
    <3>1. Difference = <<>> \o <<less>>
      BY <1>3, <1>4, <1>8
    <3>2. <<less>> \in Seq(Requested)
      BY <1>1
    <3> QED
      BY <3>1, <3>2, ConcatEmptySeq
  <2>2. DOMAIN Difference = {1} /\ Difference[1] = less /\ Difference \in Seq(Requested)
    BY <1>1, <2>1
  <2> QED
    BY <1>2, <1>5, <1>8, <2>2
<1>9. CASE More # {} /\ Less # {}
  <2>1. Difference = <<more>> \o <<less>>
    BY <1>3, <1>4, <1>9
  <2>2. /\ DOMAIN Difference = {1, 2} /\ Difference[1] = more /\ Difference[2] = less
        /\ Difference \in Seq(Requested)
    BY <1>1, <2>1
  <2> QED
    BY <1>2, <1>5, <2>2
<1> QED
  BY <1>6, <1>7, <1>8, <1>9

LEMMA ServedKeeps ==
  ASSUME DetInv, SubBody, Served, watch' = watch PROVE SubBody'
<1>1. outbox \in Seq(Requested) /\ outbox # <<>> /\ outbox' = Tail(outbox)
  BY DEF DetInv, DetIs, SocketIs, Served
<1>2. /\ 1 \in DOMAIN outbox /\ Head(outbox) = outbox[1]
      /\ \A i \in DOMAIN outbox' : i + 1 \in DOMAIN outbox /\ outbox'[i] = outbox[i + 1]
      /\ \A i \in DOMAIN outbox : i # 1 => i - 1 \in DOMAIN outbox'
                                          /\ outbox'[i - 1] = outbox[i]
      /\ DOMAIN outbox \subseteq Nat \ {0} /\ DOMAIN outbox' \subseteq Nat \ {0}
  BY <1>1
<1>3. outbox[1] \in Requested
  BY <1>1, <1>2
<1>4. outbox[1].op \in {"token", "add", "remove"}
  BY <1>3 DEF Requested
<1>5. /\ outbox[1].op = "token" => serverMints' = serverMints \cup outbox[1].keys
      /\ outbox[1].op # "token" => serverMints' = serverMints
      /\ outbox[1].op = "token" => serverAccounts' = serverAccounts
      /\ outbox[1].op = "add" => serverAccounts' = serverAccounts \cup outbox[1].keys
      /\ outbox[1].op = "remove" => serverAccounts' = serverAccounts \ outbox[1].keys
      /\ accounts' = accounts
  BY <1>2 DEF Served
<1>6. ASSUME NEW m \in DOMAIN watch'
      PROVE  m \in serverMints'
        \/ \E i \in DOMAIN outbox' : outbox'[i].op = "token" /\ outbox'[i].keys = {m}
  <2>1. CASE m \in serverMints
    BY <1>4, <1>5, <2>1
  <2>2. CASE m \notin serverMints
    <3>1. PICK i \in DOMAIN outbox : outbox[i].op = "token" /\ outbox[i].keys = {m}
      BY <2>2 DEF SubBody
    <3>2. CASE i = 1
      BY <1>5, <3>1, <3>2
    <3>3. CASE i # 1
      BY <1>2, <3>1, <3>3
    <3> QED
      BY <3>2, <3>3
  <2> QED
    BY <2>1, <2>2
<1>7. ASSUME NEW a, \A i \in DOMAIN outbox' : ~About(outbox'[i], a)
      PROVE  a \in serverAccounts' <=> a \in accounts'
  <2>1. \A i \in DOMAIN outbox : i # 1 => ~About(outbox[i], a)
    BY <1>2, <1>7
  <2>2. CASE About(outbox[1], a)
    <3>1. \A j \in DOMAIN outbox : j > 1 => ~About(outbox[j], a)
      BY <1>2, <2>1
    <3>2. outbox[1].op = "add" <=> a \in accounts
      BY <1>2, <2>2, <3>1 DEF SubBody
    <3> QED
      BY <1>4, <1>5, <2>2, <3>2 DEF About
  <2>3. CASE ~About(outbox[1], a)
    <3>1. a \in serverAccounts <=> a \in accounts
      BY <2>1, <2>3 DEF SubBody
    <3> QED
      BY <1>4, <1>5, <2>3, <3>1 DEF About
  <2> QED
    BY <2>2, <2>3
<1>8. ASSUME NEW a, NEW i \in DOMAIN outbox', About(outbox'[i], a),
             \A j \in DOMAIN outbox' : j > i => ~About(outbox'[j], a)
      PROVE  outbox'[i].op = "add" <=> a \in accounts'
  <2>1. i + 1 \in DOMAIN outbox /\ outbox'[i] = outbox[i + 1] /\ i \in Nat
    BY <1>2
  <2>2. ASSUME NEW j \in DOMAIN outbox, j > i + 1 PROVE ~About(outbox[j], a)
    <3>1. j - 1 \in DOMAIN outbox' /\ outbox'[j - 1] = outbox[j] /\ j - 1 > i
      BY <1>2, <2>1, <2>2
    <3> QED
      BY <1>8, <3>1
  <2> QED
    BY <1>5, <1>8, <2>1, <2>2 DEF SubBody
<1> QED
  BY <1>6, <1>7, <1>8 DEF SubBody

\* What is appended, if it is about every account whose state it changes and
\* about no account twice.
LEMMA AppendedKeeps ==
  ASSUME DetInv, SubBody, NEW more \in Seq(Requested), outbox' = outbox \o more,
         \A a : \A i \in DOMAIN more :
            About(more[i], a) => (more[i].op = "add" <=> a \in accounts'),
         \A a : ~(a \in accounts <=> a \in accounts')
            => \E i \in DOMAIN more : About(more[i], a),
         UNCHANGED <<serverMints, serverAccounts>>,
         \A m \in DOMAIN watch' : \/ m \in DOMAIN watch
            \/ \E i \in DOMAIN more : more[i].op = "token" /\ more[i].keys = {m}
  PROVE  SubBody'
<1>1. outbox \in Seq(Requested)
  BY DEF DetInv, DetIs, SocketIs
<1>2. /\ \A i \in DOMAIN outbox : i \in DOMAIN outbox' /\ outbox'[i] = outbox[i]
      /\ \A i \in DOMAIN more : /\ i + Len(outbox) \in DOMAIN outbox'
                                /\ outbox'[i + Len(outbox)] = more[i]
      /\ \A i \in DOMAIN outbox' :
            \/ i \in DOMAIN outbox
            \/ i - Len(outbox) \in DOMAIN more /\ outbox'[i] = more[i - Len(outbox)]
      /\ \A i \in DOMAIN outbox : i \in Nat /\ i <= Len(outbox)
      /\ \A i \in DOMAIN more : i \in Nat \ {0}
      /\ Len(outbox) \in Nat
  BY <1>1
<1>3. ASSUME NEW m \in DOMAIN watch'
      PROVE  m \in serverMints'
        \/ \E i \in DOMAIN outbox' : outbox'[i].op = "token" /\ outbox'[i].keys = {m}
  <2>1. CASE m \in DOMAIN watch
    <3>1. CASE m \in serverMints
      BY <3>1
    <3>2. CASE m \notin serverMints
      <4>1. PICK i \in DOMAIN outbox : outbox[i].op = "token" /\ outbox[i].keys = {m}
        BY <2>1, <3>2 DEF SubBody
      <4> QED
        BY <1>2, <4>1
    <3> QED
      BY <3>1, <3>2
  <2>2. CASE \E i \in DOMAIN more : more[i].op = "token" /\ more[i].keys = {m}
    <3>1. PICK i \in DOMAIN more : more[i].op = "token" /\ more[i].keys = {m}
      BY <2>2
    <3>2. i + Len(outbox) \in DOMAIN outbox' /\ outbox'[i + Len(outbox)] = more[i]
      BY <1>2
    <3> QED
      BY <3>1, <3>2
  <2> QED
    BY <1>3, <2>1, <2>2
<1>4. ASSUME NEW a, \A i \in DOMAIN outbox' : ~About(outbox'[i], a)
      PROVE  a \in serverAccounts' <=> a \in accounts'
  <2>1. /\ \A i \in DOMAIN outbox : ~About(outbox[i], a)
        /\ \A i \in DOMAIN more : ~About(more[i], a)
    BY <1>2, <1>4
  <2> QED
    BY <2>1 DEF SubBody
<1>5. ASSUME NEW a, NEW i \in DOMAIN outbox', About(outbox'[i], a),
             \A j \in DOMAIN outbox' : j > i => ~About(outbox'[j], a)
      PROVE  outbox'[i].op = "add" <=> a \in accounts'
  <2>1. CASE i \in DOMAIN outbox
    <3>1. \A j \in DOMAIN outbox : j > i => ~About(outbox[j], a)
      BY <1>2, <1>5
    <3>2. ASSUME NEW j \in DOMAIN more PROVE ~About(more[j], a)
      <4>1. /\ j + Len(outbox) \in DOMAIN outbox' /\ outbox'[j + Len(outbox)] = more[j]
            /\ j + Len(outbox) > i
        BY <1>2, <2>1
      <4> QED
        BY <1>5, <4>1
    <3>3. a \in accounts <=> a \in accounts'
      BY <3>2
    <3> QED
      BY <1>2, <1>5, <2>1, <3>1, <3>3 DEF SubBody
  <2>2. CASE i \notin DOMAIN outbox
    BY <1>2, <1>5, <2>2
  <2> QED
    BY <2>1, <2>2
<1> QED
  BY <1>3, <1>4, <1>5 DEF SubBody

LEMMA SubNext ==
  ASSUME DetInv, SubInv, Next PROVE SubInv'
<1> SUFFICES ASSUME conn' = "up", writer' PROVE SubBody'
  BY DEF SubInv
<1>1. ASSUME conn = "up", writer,
             UNCHANGED <<outbox, accounts, serverAccounts, serverMints>>,
             \A m \in DOMAIN watch' : m \in DOMAIN watch
      PROVE  SubBody'
  BY <1>1 DEF SubInv, SubBody
<1>2. CASE PumpFun \/ Tick \/ SendToken \/ TakeToken
  <2>1. UNCHANGED <<socketVars, watch>>
    BY <1>2, StepsOutside DEF Outside, Watching, PumpFun, Create, Echo, Graduate,
       Trade, ElseUnchanged, Tick, SendToken, TakeToken
  <2> QED
    BY <1>1, <2>1 DEF socketVars
<1>3. CASE SocketAlone
  <2>1. watch' = watch
    BY <1>3 DEF SocketAlone, Watching
  <2>2. CASE WriterFails
    BY <2>2 DEF WriterFails
  <2>3. CASE Served
    <3>1. conn = "up" /\ writer
      BY <2>3 DEF Served
    <3> QED
      BY <2>1, <2>3, <3>1, ServedKeeps DEF SubInv
  <2>4. CASE Reconcile
    <3>1. conn = "up" /\ writer
      BY <2>4 DEF Reconcile
    <3>2. outbox' = outbox \o Difference /\ accounts' = roster
          /\ UNCHANGED <<serverMints, serverAccounts>>
      BY <2>4 DEF Reconcile
    <3>3. /\ Difference \in Seq(Requested)
          /\ \A i \in DOMAIN Difference : \A a : About(Difference[i], a) =>
                \/ Difference[i].op = "add" /\ a \in roster \ accounts
                \/ Difference[i].op = "remove" /\ a \in accounts \ roster
          /\ \A a : ~(a \in roster <=> a \in accounts)
                => \E i \in DOMAIN Difference : About(Difference[i], a)
      BY DifferenceIs DEF DetInv, DetIs
    <3>4. \A a : \A i \in DOMAIN Difference :
             About(Difference[i], a) => (Difference[i].op = "add" <=> a \in accounts')
      BY <3>2, <3>3
    <3>5. \A a : ~(a \in accounts <=> a \in accounts')
             => \E i \in DOMAIN Difference : About(Difference[i], a)
      BY <3>2, <3>3
    <3> QED
      BY <2>1, <3>1, <3>2, <3>3, <3>4, <3>5, AppendedKeeps DEF SubInv
  <2>5. CASE \E new \in SUBSET Accounts : RosterChanges(new)
    BY <1>1, <2>1, <2>5 DEF RosterChanges
  <2> QED
    BY <1>3, <2>2, <2>3, <2>4, <2>5 DEF SocketAlone, SocketStep
<1>4. CASE Connect
  <2>1. /\ DOMAIN watch' = {} /\ DOMAIN outbox' = {} /\ accounts' = {}
        /\ serverAccounts' = {}
    BY <1>4, Empty DEF Connect, Opened
  <2> QED
    BY <2>1 DEF SubBody
<1>5. CASE Disconnect
  BY <1>5 DEF Disconnect, Lost
<1>6. CASE HandleNewToken
  <2>1. PICK m \in Mints, kept \in Halved(watch, MaxWatch) :
           \E outcome \in LabelOutcomes(m) :
              /\ watch' = Put(kept, m, NewEntry(CreatorOf(m), outcome[2], now))
              /\ Subscribe(m)
              /\ UNCHANGED <<conn, writer, accounts, serverAccounts, serverMints>>
    BY <1>6, NewTokenDoes DEF DetInv
  <2> DEFINE msg == [op |-> "token", keys |-> {m}]
  <2>2. msg \in Requested /\ msg.op = "token" /\ msg.keys = {m}
    BY DEF Requested
  <2>3. outbox' = Append(outbox, msg)
    BY <2>1 DEF Subscribe
  <2> HIDE DEF msg
  <2>4. <<msg>> \in Seq(Requested) /\ DOMAIN <<msg>> = {1} /\ <<msg>>[1] = msg
    BY <2>2
  <2>5. outbox' = outbox \o <<msg>>
    <3>1. outbox \in Seq(Requested)
      BY DEF DetInv, DetIs, SocketIs
    <3> QED
      BY <2>2, <2>3, <3>1, AppendIsConcat
  <2>6. \A n \in DOMAIN watch' : n = m \/ n \in DOMAIN watch
    <3>1. DOMAIN watch' = DOMAIN kept \cup {m}
      BY <2>1 DEF Put
    <3>2. DOMAIN kept \subseteq DOMAIN watch
      BY HalvedIs DEF DetInv, DetIs, WatchIs
    <3> QED
      BY <3>1, <3>2
  <2>7. \A a : ~About(msg, a)
    BY <2>2 DEF About
  <2>8. SubBody
    BY <2>1 DEF SubInv
  <2>9. \A n \in DOMAIN watch' : \/ n \in DOMAIN watch
           \/ \E i \in DOMAIN <<msg>> : <<msg>>[i].op = "token" /\ <<msg>>[i].keys = {n}
    BY <2>2, <2>4, <2>6
  <2>10. \A a : \A i \in DOMAIN <<msg>> : ~About(<<msg>>[i], a)
    BY <2>4, <2>7
  <2>11. UNCHANGED <<accounts, serverAccounts, serverMints>>
    BY <2>1
  <2> QED
    BY <2>4, <2>5, <2>8, <2>9, <2>10, <2>11, AppendedKeeps
<1>7. CASE HandleTokenTrade
  <2>1. UNCHANGED socketVars /\ DOMAIN watch' = DOMAIN watch
    BY <1>7, TradeDoes, TradeWatch DEF DetInv
  <2> QED
    BY <1>1, <2>1 DEF socketVars
<1>8. CASE HandleTokenComplete
  <2>1. PICK m : watch' = watch \/ watch' = Dropped(watch, m)
    BY <1>8, CompleteDoes, HandOnDoes DEF DetInv
  <2>2. UNCHANGED socketVars /\ \A n \in DOMAIN watch' : n \in DOMAIN watch
    BY <1>8, <2>1, CompleteDoes DEF DetInv, Dropped
  <2> QED
    BY <1>1, <2>2 DEF socketVars
<1> QED
  BY <1>2, <1>3, <1>4, <1>5, <1>6, <1>7, <1>8 DEF Next

\* While its writer lives, a watched mint's trades are subscribed or about to
\* be, and the server ends up with the accounts the reconciler believes in.
THEOREM AllSubscribed == Spec => []SubscribedWatched
<1>1. Init => SubInv
  BY DEF Init, SocketInit, SubInv
<1>2. DetInv /\ SubInv /\ [Next]_vars => SubInv'
  <2>1. ASSUME SubInv, UNCHANGED vars PROVE SubInv'
    BY <2>1 DEF SubInv, SubBody, vars, socketVars
  <2> QED
    BY <2>1, SubNext
<1>3. DetInv /\ SubInv => SubscribedWatched
  <2> SUFFICES ASSUME DetInv, SubBody, outbox = <<>> PROVE serverAccounts = accounts
    BY DEF SubInv, SubBody, SubscribedWatched
  <2>1. \A a : a \in serverAccounts <=> a \in accounts
    BY Empty DEF SubBody
  <2> QED
    BY <2>1
<1> QED
  BY <1>1, <1>2, <1>3, DetInvariant, PTL DEF Spec

-----------------------------------------------------------------------------
(* Labels. *)

LabelsOfMints == {LabelOf(m) : m \in Mints} \ {NoLabel}

\* The mints bear no more labels than the cache holds (MAX_LABEL_CACHE_SIZE);
\* of more labels the cache forgets the longest unseen.
FewLabels == Cardinality(LabelsOfMints) <= MaxLabels

\* What the cache keeps of a creation.
Obs(c) == <<c.mint, CreatorOf(c.mint), c.at>>

\* The cache has creations of this connection, and all within the window.
LabelInv ==
  /\ DOMAIN labels \subseteq LabelsOfMints
  /\ \A l \in DOMAIN labels : \A o \in labels[l] : \E k \in DOMAIN created :
        /\ created[k].in = generation /\ LabelOf(created[k].mint) = l
        /\ o = Obs(created[k])
  /\ conn = "up" => \A k \in DOMAIN created :
        /\ created[k].in = generation /\ LabelOf(created[k].mint) # NoLabel
        /\ now - created[k].at <= LabelWindow
        => /\ LabelOf(created[k].mint) \in DOMAIN labels
           /\ Obs(created[k]) \in labels[LabelOf(created[k].mint)]

LEMMA LabelsFinite == IsFiniteSet(LabelsOfMints)
<1> DEFINE T == {LabelOf(m) : m \in Mints}
           f == [m \in Mints |-> LabelOf(m)]
<1>1. f \in Surjection(Mints, T)
  BY DEF Surjection
<1>2. IsFiniteSet(Mints)
  BY DetectionAssumption
<1>3. IsFiniteSet(T)
  <2> HIDE DEF f, T
  <2> QED
    BY <1>1, <1>2, FS_Surjection
<1>4. LabelsOfMints \in SUBSET T
  BY DEF LabelsOfMints
<1> QED
  BY <1>3, <1>4, FS_Subset

\* A pruning drops what is older than the window and nothing else.
LEMMA PrunedIs ==
  ASSUME FewLabels, DOMAIN labels \subseteq LabelsOfMints,
         NEW pruned \in LabelPrunings(labels, now)
  PROVE  /\ DOMAIN pruned \subseteq DOMAIN labels
         /\ \A l \in DOMAIN pruned :
               pruned[l] = {o \in labels[l] : now - o[3] <= LabelWindow}
         /\ \A l \in DOMAIN labels : \A o \in labels[l] :
               now - o[3] <= LabelWindow => l \in DOMAIN pruned
<1> DEFINE recent(l) == {o \in labels[l] : now - o[3] <= LabelWindow}
           kept == {l \in DOMAIN labels : recent(l) # {}}
<1>1. kept \in SUBSET LabelsOfMints
  OBVIOUS
<1>2. /\ Cardinality(kept) \in Nat /\ Cardinality(LabelsOfMints) \in Nat
      /\ Cardinality(kept) <= Cardinality(LabelsOfMints)
  <2> HIDE DEF kept
  <2> QED
    BY <1>1, LabelsFinite, FS_Subset, FS_CardinalityType
<1>3. Cardinality(kept) <= MaxLabels
  BY <1>2, LanesAssumption DEF FewLabels
<1>4. pruned = [l \in kept |-> recent(l)]
  BY <1>3 DEF LabelPrunings
<1>5. DOMAIN pruned = kept /\ \A l \in kept : pruned[l] = recent(l)
  BY <1>4
<1> QED
  BY <1>5

\* The creations of this connection with the label of m, within the window.
Others(m) ==
  {j \in DOMAIN created :
     /\ created[j].in = generation /\ LabelOf(created[j].mint) = LabelOf(m)
     /\ now - created[j].at <= LabelWindow}

\* The signal of a mint not created before counts them.
LEMMA SignalCounts ==
  ASSUME DetInv, LabelInv, FewLabels, conn = "up", NEW m \in Mints,
         LabelOf(m) # NoLabel, \A k \in DOMAIN created : created[k].mint # m,
         NEW pruned \in LabelPrunings(labels, now)
  PROVE  /\ LabelSignal(pruned, LabelOf(m), m, now).mints = Cardinality(Others(m))
         /\ \A o \in (IF LabelOf(m) \in DOMAIN pruned THEN pruned[LabelOf(m)] ELSE {}) :
               o[1] # m
<1> DEFINE L == LabelOf(m)
           bucket == IF L \in DOMAIN pruned THEN pruned[L] ELSE {}
           S == Others(m)
           T == {created[j].mint : j \in S}
<1>1. /\ DOMAIN pruned \subseteq DOMAIN labels
      /\ \A l \in DOMAIN pruned :
            pruned[l] = {o \in labels[l] : now - o[3] <= LabelWindow}
      /\ \A l \in DOMAIN labels : \A o \in labels[l] :
            now - o[3] <= LabelWindow => l \in DOMAIN pruned
  BY PrunedIs DEF LabelInv
<1>2. \A c : Obs(c)[1] = c.mint /\ Obs(c)[3] = c.at
  BY DEF Obs
<1>3. ASSUME NEW o \in bucket
      PROVE  \E j \in S : o[1] = created[j].mint
  <2>1. L \in DOMAIN labels /\ o \in labels[L] /\ now - o[3] <= LabelWindow
    BY <1>1, <1>3
  <2>2. PICK k \in DOMAIN created :
           /\ created[k].in = generation /\ LabelOf(created[k].mint) = L
           /\ o = Obs(created[k])
    BY <2>1 DEF LabelInv
  <2>3. k \in S
    BY <1>2, <2>1, <2>2 DEF Others
  <2> QED
    BY <1>2, <2>2, <2>3
<1>4. ASSUME NEW j \in S
      PROVE  \E o \in bucket : o[1] = created[j].mint
  <2>1. /\ L \in DOMAIN labels /\ Obs(created[j]) \in labels[L]
        /\ now - created[j].at <= LabelWindow /\ j \in DOMAIN created
    BY DEF LabelInv, Others
  <2>2. Obs(created[j]) \in bucket
    BY <1>1, <1>2, <2>1
  <2> QED
    BY <1>2, <2>2
<1>5. \A o \in bucket : o[1] # m
  BY <1>3 DEF Others
<1> DEFINE others == IF L \in DOMAIN pruned THEN {o \in pruned[L] : o[1] # m} ELSE {}
<1>6. others = bucket
  BY <1>5
<1>7. {o[1] : o \in others} = T
  <2> HIDE DEF bucket, S, others
  <2> QED
    BY <1>3, <1>4, <1>6
<1>8. LabelSignal(pruned, L, m, now).mints = Cardinality({o[1] : o \in others})
  BY DEF LabelSignal
<1>9. IsFiniteSet(S)
  <2>1. created \in Seq(Creations)
    BY DEF DetInv, DetIs, HistoryIs
  <2>2. S \in SUBSET (1..Len(created)) /\ Len(created) \in Nat
    BY <2>1 DEF Others
  <2>3. IsFiniteSet(1..Len(created))
    BY <2>2, FS_Interval
  <2> HIDE DEF S
  <2> QED
    BY <2>2, <2>3, FS_Subset
<1>10. ExistsBijection(S, T)
  <2> DEFINE f == [j \in S |-> created[j].mint]
  <2>1. \A i, j \in S : created[i].mint = created[j].mint => i = j
    BY DEF DetInv, Births, Others
  <2>2. f \in Bijection(S, T)
    <3> HIDE DEF S
    <3> QED
      BY <2>1 DEF Bijection, Injection, Surjection, IsInjective
  <2> QED
    BY <2>2 DEF ExistsBijection
<1>11. Cardinality(T) = Cardinality(S)
  <2> HIDE DEF S, T
  <2> QED
    BY <1>9, <1>10, FS_Bijection
<1> QED
  BY <1>5, <1>7, <1>8, <1>11

\* The creations before the i-th that its signal should count.
Before(i) ==
  {j \in 1..(i - 1) :
     /\ created[j].in = generation
     /\ LabelOf(created[j].mint) = LabelOf(created[i].mint)
     /\ created[i].at - created[j].at <= LabelWindow}

SignalInv ==
  \A m \in DOMAIN watch : LabelOf(m) # NoLabel =>
     \E i \in DOMAIN created :
        /\ created[i].mint = m /\ created[i].in = generation
        /\ watch[m].signal.mints = Cardinality(Before(i))

LEMMA SignalIsExact == SignalInv => LabelsExact
<1> SUFFICES ASSUME SignalInv, NEW m \in DOMAIN watch, LabelOf(m) # NoLabel
             PROVE  \E i \in DOMAIN created :
                      /\ created[i].mint = m /\ created[i].in = generation
                      /\ watch[m].signal.mints = Cardinality({j \in 1..(i - 1) :
                           /\ created[j].in = generation
                           /\ LabelOf(created[j].mint) = LabelOf(m)
                           /\ created[i].at - created[j].at <= LabelWindow})
  BY DEF LabelsExact
<1>1. PICK i \in DOMAIN created :
         /\ created[i].mint = m /\ created[i].in = generation
         /\ watch[m].signal.mints = Cardinality(Before(i))
  BY DEF SignalInv
<1>2. Before(i) = {j \in 1..(i - 1) :
                     /\ created[j].in = generation
                     /\ LabelOf(created[j].mint) = LabelOf(m)
                     /\ created[i].at - created[j].at <= LabelWindow}
  BY <1>1 DEF Before
<1> QED
  BY <1>1, <1>2

\* A creation, with its label.
Learnt(m, kept, outcome) ==
  /\ Read("create") /\ m = Head(inbox).mint /\ labels' = outcome[1]
  /\ watch' = Put(kept, m, NewEntry(CreatorOf(m), outcome[2], now))
  /\ created' = Append(created, [mint |-> m, at |-> now, in |-> generation])
  /\ UNCHANGED <<conn, generation, now>>

\* The labels after a creation.
LEMMA NewLabels ==
  ASSUME DetInv, LabelInv, FewLabels, HandleNewToken
  PROVE  LabelInv'
<1>0. PICK m \in Mints, kept \in Halved(watch, MaxWatch) :
         \E outcome \in LabelOutcomes(m) : Learnt(m, kept, outcome)
  BY NewTokenDoes DEF DetInv, Learnt
<1>1. PICK outcome \in LabelOutcomes(m) :
         /\ Read("create") /\ m = Head(inbox).mint /\ labels' = outcome[1]
         /\ created' = Append(created, [mint |-> m, at |-> now, in |-> generation])
         /\ UNCHANGED <<conn, generation, now>>
  BY <1>0 DEF Learnt
<1> DEFINE c == [mint |-> m, at |-> now, in |-> generation]
<1>2. now \in Nat /\ generation \in Nat /\ created \in Seq(Creations)
  BY DEF DetInv, DetIs, HistoryIs, WorldIs, SocketIs
<1>3. c \in Creations /\ c.mint = m /\ c.at = now /\ c.in = generation
  BY <1>2 DEF Creations
<1>4. created' = Append(created, c)
  BY <1>1
<1>5. \A k \in DOMAIN created : created[k].mint # m
  <2>1. Head(inbox).kind = "create" /\ 1 \in DOMAIN inbox /\ Head(inbox) = inbox[1]
    BY <1>1, ReadIs DEF DetInv
  <2> QED
    BY <1>1, <2>1 DEF DetInv, Unread
<1> HIDE DEF c
<1>6. /\ \A k \in DOMAIN created : k \in DOMAIN created' /\ created'[k] = created[k]
      /\ Len(created) + 1 \in DOMAIN created' /\ created'[Len(created) + 1] = c
      /\ \A k \in DOMAIN created' : \/ k \in DOMAIN created /\ created'[k] = created[k]
                                    \/ created'[k] = c
  BY <1>2, <1>3, <1>4, AppendIs
<1>7. conn = "up"
  BY <1>1 DEF Read
<1>8. CASE LabelOf(m) = NoLabel
  <2>1. labels' = labels
    BY <1>1, <1>8 DEF LabelOutcomes
  <2>2. ASSUME NEW l \in DOMAIN labels', NEW o \in labels'[l]
        PROVE  \E k \in DOMAIN created' :
                 /\ created'[k].in = generation' /\ LabelOf(created'[k].mint) = l
                 /\ o = Obs(created'[k])
    BY <1>1, <1>6, <2>1 DEF LabelInv
  <2>3. ASSUME NEW k \in DOMAIN created', created'[k].in = generation',
               LabelOf(created'[k].mint) # NoLabel, now' - created'[k].at <= LabelWindow
        PROVE  /\ LabelOf(created'[k].mint) \in DOMAIN labels'
               /\ Obs(created'[k]) \in labels'[LabelOf(created'[k].mint)]
    BY <1>1, <1>3, <1>6, <1>7, <1>8, <2>1, <2>3 DEF LabelInv
  <2>4. DOMAIN labels' \subseteq LabelsOfMints
    BY <2>1 DEF LabelInv
  <2> QED
    BY <2>2, <2>3, <2>4 DEF LabelInv, Obs
<1>9. CASE LabelOf(m) # NoLabel
  <2> DEFINE L == LabelOf(m)
  <2>1. PICK pruned \in LabelPrunings(labels, now) :
           labels' = Noted(pruned, L, m, CreatorOf(m), now)
    BY <1>1, <1>9 DEF LabelOutcomes
  <2> DEFINE bucket == IF L \in DOMAIN pruned THEN pruned[L] ELSE {}
  <2>2. \A o \in bucket : o[1] # m
    BY <1>5, <1>7, <1>9, SignalCounts
  <2>3. /\ DOMAIN labels' = DOMAIN pruned \cup {L}
        /\ labels'[L] = bucket \cup {<<m, CreatorOf(m), now>>}
        /\ \A l \in DOMAIN pruned \ {L} : labels'[l] = pruned[l]
    BY <2>1, <2>2 DEF Noted
  <2>4. <<m, CreatorOf(m), now>> = Obs(c)
    BY <1>3 DEF Obs
  <2>5. /\ DOMAIN pruned \subseteq DOMAIN labels
        /\ \A l \in DOMAIN pruned :
              pruned[l] = {o \in labels[l] : now - o[3] <= LabelWindow}
        /\ \A l \in DOMAIN labels : \A o \in labels[l] :
              now - o[3] <= LabelWindow => l \in DOMAIN pruned
    BY PrunedIs DEF LabelInv
  <2>6. /\ \A l \in DOMAIN labels' : \A o \in labels'[l] :
              \/ l \in DOMAIN labels /\ o \in labels[l]
              \/ l = L /\ o = Obs(c)
        /\ Obs(c) \in labels'[L] /\ L \in DOMAIN labels'
        /\ \A l \in DOMAIN labels : \A o \in labels[l] :
              now - o[3] <= LabelWindow => l \in DOMAIN labels' /\ o \in labels'[l]
    <3>1. ASSUME NEW l \in DOMAIN labels', NEW o \in labels'[l]
          PROVE  \/ l \in DOMAIN labels /\ o \in labels[l]
                 \/ l = L /\ o = Obs(c)
      <4>1. CASE l = L
        BY <2>3, <2>4, <2>5, <3>1, <4>1
      <4>2. CASE l # L
        BY <2>3, <2>5, <3>1, <4>2
      <4> QED
        BY <4>1, <4>2
    <3>2. Obs(c) \in labels'[L] /\ L \in DOMAIN labels'
      BY <2>3, <2>4
    <3>3. ASSUME NEW l \in DOMAIN labels, NEW o \in labels[l], now - o[3] <= LabelWindow
          PROVE  l \in DOMAIN labels' /\ o \in labels'[l]
      <4>1. l \in DOMAIN pruned /\ o \in pruned[l]
        BY <2>5, <3>3
      <4>2. CASE l = L
        BY <2>3, <4>1, <4>2
      <4>3. CASE l # L
        BY <2>3, <4>1, <4>3
      <4> QED
        BY <4>2, <4>3
    <3> QED
      BY <3>1, <3>2, <3>3
  <2> HIDE DEF L, bucket
  <2>7. L = LabelOf(c.mint) /\ L \in LabelsOfMints
    BY <1>3, <1>9 DEF L, LabelsOfMints
  <2>8. ASSUME NEW l \in DOMAIN labels', NEW o \in labels'[l]
        PROVE  \E k \in DOMAIN created' :
                 /\ created'[k].in = generation' /\ LabelOf(created'[k].mint) = l
                 /\ o = Obs(created'[k])
    <3>1. CASE l \in DOMAIN labels /\ o \in labels[l]
      BY <1>1, <1>6, <3>1 DEF LabelInv
    <3>2. CASE l = L /\ o = Obs(c)
      BY <1>1, <1>3, <1>6, <2>7, <3>2
    <3> QED
      BY <2>6, <3>1, <3>2
  <2>9. ASSUME NEW k \in DOMAIN created', created'[k].in = generation',
               LabelOf(created'[k].mint) # NoLabel, now' - created'[k].at <= LabelWindow
        PROVE  /\ LabelOf(created'[k].mint) \in DOMAIN labels'
               /\ Obs(created'[k]) \in labels'[LabelOf(created'[k].mint)]
    <3>1. CASE k \in DOMAIN created /\ created'[k] = created[k]
      <4>1. /\ LabelOf(created[k].mint) \in DOMAIN labels
            /\ Obs(created[k]) \in labels[LabelOf(created[k].mint)]
        BY <1>1, <1>7, <2>9, <3>1 DEF LabelInv
      <4>2. now - Obs(created[k])[3] <= LabelWindow
        BY <1>1, <2>9, <3>1 DEF Obs
      <4> QED
        BY <2>6, <3>1, <4>1, <4>2
    <3>2. CASE created'[k] = c
      BY <2>6, <2>7, <3>2
    <3> QED
      BY <1>6, <3>1, <3>2
  <2>10. DOMAIN labels' \subseteq LabelsOfMints
    BY <2>3, <2>5, <2>7 DEF LabelInv
  <2> QED
    BY <2>8, <2>9, <2>10 DEF LabelInv, Obs
<1> QED
  BY <1>8, <1>9

LEMMA LabelNext ==
  ASSUME DetInv, LabelInv, FewLabels, Next PROVE LabelInv'
<1>1. created \in Seq(Creations) /\ now \in Nat /\ generation \in Nat
      /\ LabelWindow \in Nat
  BY LanesAssumption DEF DetInv, DetIs, HistoryIs, WorldIs, SocketIs
<1>2. \A k \in DOMAIN created : created[k].at \in Nat /\ created[k].in \in Nat
  <2>1. \A k \in DOMAIN created : created[k] \in Creations
    BY <1>1
  <2> QED
    BY <2>1 DEF Creations
<1>3. ASSUME UNCHANGED <<labels, created, generation, conn>>, now' \in {now, now + 1}
      PROVE  LabelInv'
  <2>1. \A k \in DOMAIN created :
           now' - created[k].at <= LabelWindow => now - created[k].at <= LabelWindow
    BY <1>1, <1>2, <1>3
  <2> QED
    BY <1>3, <2>1 DEF LabelInv, Obs
<1>4. CASE PumpFun \/ Tick \/ SocketAlone \/ SendToken \/ TakeToken
  <2>1. UNCHANGED <<labels, created, generation, conn>>
    BY <1>4, StepsOutside DEF Outside, Watching, History
  <2>2. now' \in {now, now + 1}
    BY <1>4, ToldIs DEF Tick, SocketAlone, SendToken, TakeToken, DetInv
  <2> QED
    BY <1>3, <2>1, <2>2
<1>5. CASE Connect
  <2>1. DOMAIN labels' = {} /\ generation' = generation + 1 /\ created' = created
    BY <1>5, Empty DEF Connect, Opened, History
  <2>2. \A k \in DOMAIN created' : created'[k].in # generation'
    BY <1>1, <1>2, <2>1 DEF DetInv, Births
  <2> QED
    BY <2>1, <2>2 DEF LabelInv
<1>6. CASE Disconnect
  <2>1. DOMAIN labels' = {} /\ conn' = "down"
    BY <1>6, Empty DEF Disconnect, Lost
  <2> QED
    BY <2>1 DEF LabelInv
<1>7. CASE HandleNewToken
  BY <1>7, NewLabels
<1>8. CASE HandleTokenTrade
  BY <1>3, <1>8, TradeDoes DEF DetInv, socketVars
<1>9. CASE HandleTokenComplete
  BY <1>3, <1>9, CompleteDoes DEF DetInv, socketVars
<1> QED
  BY <1>4, <1>5, <1>6, <1>7, <1>8, <1>9 DEF Next

LEMMA SignalNext ==
  ASSUME DetInv, LabelInv, SignalInv, FewLabels, Next PROVE SignalInv'
<1>1. created \in Seq(Creations) /\ now \in Nat /\ generation \in Nat
  BY DEF DetInv, DetIs, HistoryIs, WorldIs, SocketIs
<1>2. ASSUME UNCHANGED <<created, generation>>,
             \A m \in DOMAIN watch' : /\ m \in DOMAIN watch
                                      /\ watch'[m].signal = watch[m].signal
      PROVE  SignalInv'
  <2>1. ASSUME NEW m \in DOMAIN watch', LabelOf(m) # NoLabel
        PROVE  \E i \in DOMAIN created' :
                 /\ created'[i].mint = m /\ created'[i].in = generation'
                 /\ watch'[m].signal.mints = Cardinality(Before(i)')
    <3>1. PICK i \in DOMAIN created :
             /\ created[i].mint = m /\ created[i].in = generation
             /\ watch[m].signal.mints = Cardinality(Before(i))
      BY <1>2, <2>1 DEF SignalInv
    <3>2. Before(i)' = Before(i)
      BY <1>2 DEF Before
    <3>3. watch'[m].signal = watch[m].signal
      BY <1>2
    <3> QED
      BY <1>2, <3>1, <3>2, <3>3
  <2> QED
    BY <2>1 DEF SignalInv, Before
<1>3. CASE PumpFun \/ Tick \/ SocketAlone \/ SendToken \/ TakeToken
  BY <1>2, <1>3, StepsOutside DEF Outside, Watching, History
<1>4. CASE Connect \/ Disconnect
  BY <1>4, Empty DEF Connect, Disconnect, SignalInv
<1>5. CASE HandleTokenTrade
  <2>1. UNCHANGED <<created, generation>>
    BY <1>5, TradeDoes DEF DetInv, socketVars
  <2>2. \A m \in DOMAIN watch' : m \in DOMAIN watch /\ watch'[m].signal = watch[m].signal
    BY <1>5, TradeDoes, TradeWatch DEF DetInv
  <2> QED
    BY <1>2, <2>1, <2>2
<1>6. CASE HandleTokenComplete
  <2>1. UNCHANGED <<created, generation>>
    BY <1>6, CompleteDoes DEF DetInv, socketVars
  <2>2. PICK m : watch' = watch \/ watch' = Dropped(watch, m)
    BY <1>6, CompleteDoes, HandOnDoes DEF DetInv
  <2>3. \A n \in DOMAIN watch' : n \in DOMAIN watch /\ watch'[n].signal = watch[n].signal
    BY <2>2 DEF Dropped
  <2> QED
    BY <1>2, <2>1, <2>3
<1>7. CASE HandleNewToken
  <2>0. PICK m \in Mints, kept \in Halved(watch, MaxWatch) :
           \E outcome \in LabelOutcomes(m) : Learnt(m, kept, outcome)
    BY <1>7, NewTokenDoes DEF DetInv, Learnt
  <2>1. PICK outcome \in LabelOutcomes(m) : Learnt(m, kept, outcome)
    BY <2>0
  <2> DEFINE c == [mint |-> m, at |-> now, in |-> generation]
             e == NewEntry(CreatorOf(m), outcome[2], now)
  <2>2. c \in Creations /\ c.mint = m /\ c.at = now /\ c.in = generation
        /\ e.signal = outcome[2]
    BY <1>1, NewEntryOK DEF Creations
  <2>3. /\ created' = Append(created, c) /\ watch' = Put(kept, m, e)
        /\ generation' = generation /\ conn = "up" /\ m = Head(inbox).mint
        /\ Read("create")
    BY <2>1 DEF Learnt, Read
  <2>4. \A k \in DOMAIN created : created[k].mint # m
    <3>1. Head(inbox).kind = "create" /\ 1 \in DOMAIN inbox /\ Head(inbox) = inbox[1]
      BY <2>3, ReadIs DEF DetInv
    <3> QED
      BY <2>3, <3>1 DEF DetInv, Unread
  <2> HIDE DEF c, e
  <2>5. /\ DOMAIN created = 1..Len(created) /\ Len(created) \in Nat
        /\ \A k \in DOMAIN created : k \in DOMAIN created' /\ created'[k] = created[k]
        /\ Len(created) + 1 \in DOMAIN created' /\ created'[Len(created) + 1] = c
    BY <1>1, <2>2, <2>3, AppendIs
  <2>6. ASSUME NEW i \in DOMAIN created PROVE Before(i)' = Before(i)
    <3>1. i \in Nat /\ i <= Len(created)
      BY <2>5
    <3>2. \A j \in 1..(i - 1) : created'[j] = created[j]
      BY <2>5, <3>1
    <3> QED
      BY <2>3, <2>5, <3>2 DEF Before
  <2>11. PICK last \in Nat : last = Len(created) + 1
    BY <2>5
  <2>7. Before(last)' = Others(m)
    <3>1. 1..(last - 1) = DOMAIN created /\ created'[last] = c
      BY <2>5, <2>11
    <3>2. Before(last)' =
            {j \in DOMAIN created : /\ created'[j].in = generation
                                   /\ LabelOf(created'[j].mint) = LabelOf(m)
                                   /\ now - created'[j].at <= LabelWindow}
      BY <2>2, <2>3, <3>1 DEF Before
    <3> QED
      BY <2>5, <3>2 DEF Others
  <2>8. /\ DOMAIN watch' = DOMAIN kept \cup {m} /\ watch'[m] = e
        /\ \A n \in DOMAIN kept \ {m} : watch'[n] = kept[n]
    BY <2>3 DEF Put
  <2>9. \A n \in DOMAIN kept : n \in DOMAIN watch /\ kept[n] = watch[n]
    BY HalvedIs DEF DetInv, DetIs, WatchIs
  <2>10. ASSUME NEW n \in DOMAIN watch', LabelOf(n) # NoLabel
         PROVE  \E i \in DOMAIN created' :
                  /\ created'[i].mint = n /\ created'[i].in = generation'
                  /\ watch'[n].signal.mints = Cardinality(Before(i)')
    <3>1. CASE n = m
      <4>1. PICK pruned \in LabelPrunings(labels, now) :
               outcome[2] = LabelSignal(pruned, LabelOf(m), m, now)
        BY <2>10, <3>1 DEF LabelOutcomes
      <4>2. outcome[2].mints = Cardinality(Others(m))
        BY <2>3, <2>4, <2>10, <3>1, <4>1, SignalCounts
      <4> QED
        BY <2>2, <2>3, <2>5, <2>7, <2>8, <2>11, <3>1, <4>2
    <3>2. CASE n # m
      <4>1. n \in DOMAIN watch /\ watch'[n] = watch[n]
        BY <2>8, <2>9, <2>10, <3>2
      <4>2. PICK i \in DOMAIN created :
               /\ created[i].mint = n /\ created[i].in = generation
               /\ watch[n].signal.mints = Cardinality(Before(i))
        BY <2>10, <4>1 DEF SignalInv
      <4> QED
        BY <2>3, <2>5, <2>6, <4>1, <4>2
    <3> QED
      BY <3>1, <3>2
  <2> QED
    BY <2>10 DEF SignalInv, Before
<1> QED
  BY <1>3, <1>4, <1>5, <1>6, <1>7 DEF Next

\* The label signal of a watched mint counts exactly the other mints of its
\* label that the connection saw created within the window, as long as the
\* cache has room for all the labels.
THEOREM LabelsCounted ==
  ASSUME FewLabels
  PROVE  Spec => []LabelsExact
<1>1. Init => LabelInv /\ SignalInv
  <2>1. Init => DOMAIN labels = {} /\ DOMAIN watch = {} /\ DOMAIN created = {}
    BY Empty DEF Init
  <2> QED
    BY <2>1 DEF LabelInv, SignalInv
<1>2. DetInv /\ LabelInv /\ SignalInv /\ [Next]_vars => LabelInv' /\ SignalInv'
  <2>1. ASSUME LabelInv, SignalInv, UNCHANGED vars PROVE LabelInv' /\ SignalInv'
    BY <2>1 DEF LabelInv, SignalInv, Before, Obs, vars, socketVars
  <2> QED
    BY <2>1, LabelNext, SignalNext
<1> QED
  BY <1>1, <1>2, SignalIsExact, DetInvariant, PTL DEF Spec
=============================================================================
