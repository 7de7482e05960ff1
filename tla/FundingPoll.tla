---------------------------- MODULE FundingPoll ----------------------------
(***************************************************************************)
(* The loop of monitoring/wallet_graph.rs that polls the transactions of   *)
(* the proven parents, together with the trades that the detection socket  *)
(* reports, over the graph of WalletGraph.                                 *)
(*                                                                         *)
(* A trade of a parent reaches the graph twice: from the socket, and again *)
(* when the loop reads its transaction.  A funding reaches it only through *)
(* the loop, and a trade of a child only through the socket.               *)
(***************************************************************************)
EXTENDS WalletGraph

CONSTANTS
  Rosters,        \* answers the table of proven parents may give
  Fresh,          \* wallets with no past (external: count_previous_signatures)
  SignatureLimit, \* proven_wallet_graph_signature_limit
  MaxEvents,      \* bound of the model: things that happen on the chain
  SocketMayMiss,  \* the socket may be away when a trade happens
  RpcMayFail      \* a request of the loop may fail

ASSUME PollAssumption ==
  /\ Rosters \subseteq SUBSET Wallets /\ Rosters # {} /\ Fresh \subseteq Wallets
  /\ SignatureLimit \in Nat \ {0} /\ MaxEvents \in Nat
  /\ SocketMayMiss \in BOOLEAN /\ RpcMayFail \in BOOLEAN

VARIABLES
  chain,          \* parent |-> its transactions, oldest first (external)
  created,        \* the mints that exist (external)
  buys,           \* history: buys of watched wallets, <<wallet, mint, time>>
  events,         \* how much happened on the chain
  cursor,         \* last_seen_signature_by_parent, as a position in chain
  todo,           \* parents this turn of the loop has still to poll
  polling,        \* the parent whose page is being processed, or None
  page,           \* positions of the page that are still to be processed
  lost            \* history: positions passed over

pollVars == <<chain, created, buys, events, cursor, todo, polling, page,
              lost>>
vars == <<graphVars, pollVars>>

Latest(p) == Len(chain[p])
External == <<chain, created, buys, events>>
Loop == <<cursor, todo, polling, page, lost>>

Init ==
  /\ GraphInit(IF RpcMayFail THEN Rosters \cup {{}} ELSE Rosters)
  /\ chain = [w \in Wallets |-> <<>>] /\ created \in SUBSET Mints
  /\ buys = {} /\ events = 0
  /\ cursor = [w \in Wallets |-> 0] /\ todo = parents
  /\ polling = None /\ page = <<>>
  /\ lost = {}

-----------------------------------------------------------------------------
\* What happens to a mint: it is created once, then traded.
OnMint(w, m, kind) ==
  /\ events < MaxEvents /\ events' = events + 1
  /\ (kind = "create") <=> (m \notin created)
  /\ created' = created \cup {m}
  /\ buys' = IF kind = "buy" /\ w \in parents \cup DOMAIN Watched
             THEN buys \cup {<<w, m, now>>} ELSE buys

Observe(w, m, kind) ==
  IF kind = "create" THEN ObserveCreate(w, m) ELSE ObserveTrade(w, m, kind = "buy")

\* A parent creates or trades a mint; the socket reports it at once.
ParentTrades(p, m, kind) ==
  /\ OnMint(p, m, kind)
  /\ chain' = [chain EXCEPT ![p] = Append(@, [kind |-> kind, on |-> m])]
  /\ Observe(p, m, kind) \/ (SocketMayMiss /\ UNCHANGED graphVars)
  /\ UNCHANGED Loop

\* A parent funds a wallet.
ParentFunds(p, w) ==
  /\ events < MaxEvents /\ events' = events + 1 /\ w # p
  /\ chain' = [chain EXCEPT ![p] = Append(@, [kind |-> "fund", on |-> w, at |-> now])]
  /\ UNCHANGED <<created, buys, Loop, graphVars>>

\* A wallet that is no parent creates or trades a mint, seen on the socket.
ChildTrades(w, m, kind) ==
  /\ w \notin parents
  /\ OnMint(w, m, kind)
  /\ Observe(w, m, kind)
  /\ UNCHANGED <<chain, Loop>>

\* The clock.  A due snapshot is never a whole unit late: the loop's turn is
\* much shorter than the unit.
Tick ==
  /\ now < TimeBound
  /\ SnapshotsDue(conv) = {}
  /\ now' = now + 1
  /\ UNCHANGED <<parents, children, parentTouched, childTouched, emitted, conv,
                 signalRows, snapshots, pollVars>>

-----------------------------------------------------------------------------
\* The head of a turn: the roster is reloaded when that is due.
Reload ==
  /\ polling = None /\ todo = parents
  /\ \E rows \in Rosters : ReloadRoster(rows) /\ todo' = rows
  /\ UNCHANGED <<cursor, polling, page, lost, External>>

\* fetch_new_signatures_for_parent: the newest SignatureLimit signatures down
\* to the cursor, oldest first.
Oldest(p) == IF Latest(p) - SignatureLimit > cursor[p]
             THEN Latest(p) - SignatureLimit ELSE cursor[p]
NewSignatures(p) == [i \in 1..(Latest(p) - Oldest(p)) |-> Oldest(p) + i]

Fetch(p) ==
  /\ polling = None /\ p \in todo
  /\ todo' = todo \ {p}
  /\ page' = NewSignatures(p)
  /\ polling' = IF page' = <<>> THEN None ELSE p
  /\ lost' = lost \cup {<<p, i>> : i \in (cursor[p] + 1)..Oldest(p)}
  /\ UNCHANGED <<cursor, External, graphVars>>

\* A request for signatures that fails ends the poll for all parents left.
FetchFails ==
  /\ RpcMayFail /\ polling = None /\ todo # {}
  /\ todo' = {}
  /\ UNCHANGED <<cursor, polling, page, lost, External, graphVars>>

\* process_parent_signature: what the transaction did is observed, as of now;
\* a funded wallet is watched when it is fresh (external).  A transaction that
\* cannot be read is passed over.
Processed(p, tx) ==
  \/ tx.kind # "fund" /\ Observe(p, tx.on, tx.kind)
  \/ tx.kind = "fund" /\ tx.on \in Fresh /\ CacheChild(tx.on, p, tx.at)
  \/ tx.kind = "fund" /\ tx.on \notin Fresh /\ UNCHANGED graphVars

\* Mutant of CursorAfter: the cursor goes to what is the newest by then.
CursorToNewest(p, rest, i) == IF rest = <<>> THEN Latest(p) ELSE cursor[p]

\* The cursor goes to the last signature of the page when all of them were
\* tried, whether they succeeded or not.
CursorAfter(p, rest, i) == IF rest = <<>> THEN i ELSE cursor[p]

ProcessNext ==
  /\ page # <<>>
  /\ LET i == Head(page)
     IN  /\ \/ Processed(polling, chain[polling][i]) /\ UNCHANGED lost
            \/ RpcMayFail /\ lost' = lost \cup {<<polling, i>>} /\ UNCHANGED graphVars
         /\ cursor' = [cursor EXCEPT ![polling] = CursorAfter(polling, Tail(page), i)]
  /\ page' = Tail(page)
  /\ polling' = IF page' = <<>> THEN None ELSE polling
  /\ UNCHANGED <<todo, External>>

\* The end of a turn, and the sleep until the next.
EndTurn ==
  /\ polling = None /\ todo = {}
  /\ todo' = parents
  /\ CollectDue
  /\ UNCHANGED <<cursor, polling, page, lost, External>>

Kinds == {"create", "buy", "sell"}

Next ==
  \/ \E p \in parents, m \in Mints, kind \in Kinds : ParentTrades(p, m, kind)
  \/ \E p \in parents, w \in Wallets : ParentFunds(p, w)
  \/ \E w \in Wallets, m \in Mints, kind \in Kinds : ChildTrades(w, m, kind)
  \/ Tick
  \/ Reload \/ (\E p \in Wallets : Fetch(p)) \/ FetchFails \/ ProcessNext
  \/ EndTurn

Spec == Init /\ [][Next]_vars

-----------------------------------------------------------------------------
\* The history of a child and of its parent on one mint, in whatever order
\* the two touched it, gives a row for the cluster.  Clearing the key set
\* loses none.
ClusterSeen ==
  \A p \in Wallets, m \in Mints :
     (<<p, m>> \in parentTouched /\ \E t \in childTouched : t[1] = p /\ t[2] = m)
       => \E k \in signalRows : k[1] = "PARENT_CHILD" /\ k[2] = m /\ k[3] = p

\* An episode of convergence is about two watched wallets that bought.
ConvergedForReal ==
  \A m \in DOMAIN conv : DOMAIN conv[m].signals # {} =>
     Cardinality({w \in Wallets : \E b \in buys : b[1] = w /\ b[2] = m}) >= 2

\* A follow-up counts every wallet that was part of the convergence, however
\* long before it bought: no pruning takes one away while the follow-up is
\* awaited.
WatchedKept ==
  \A s \in snapshots, b \in buys :
     (b[2] = s.mint /\ b[3] <= s.at /\ b[3] >= s.at - Window)
       => b[1] \in s.wallets

\* A wallet that a follow-up says has added after the signal did buy after it.
AddedIsNew ==
  \A s \in snapshots : \A w \in s.added :
     \E b \in buys : b[1] = w /\ b[2] = s.mint /\ b[3] > s.at + Grace

\* Behind the cursor no funding of a fresh wallet was passed over, except
\* those that one page could not hold or whose transaction could not be read:
\* the wallet is watched, or a watch that a funding gave it has run out.  The
\* cursor moves after a page was processed, and transactions come while it is.
WatchRanOut(w) ==
  \E q \in Wallets : \E j \in 1..Latest(q) :
     /\ chain[q][j].kind = "fund" /\ chain[q][j].on = w
     /\ now > chain[q][j].at + ChildWatch
NothingSkipped ==
  \A p \in Wallets : \A i \in 1..cursor[p] :
     (chain[p][i].kind = "fund" /\ chain[p][i].on \in Fresh /\ <<p, i>> \notin lost)
       => chain[p][i].on \in DOMAIN children \/ WatchRanOut(chain[p][i].on)
=============================================================================
