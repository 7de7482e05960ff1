---------------------------- MODULE WalletGraph ----------------------------
(***************************************************************************)
(* The in-memory graph of proven wallets (monitoring/wallet_graph.rs):     *)
(* which watched wallets touched which mint, the signals this gives, the   *)
(* convergence of several wallets on one mint and the follow-up snapshots  *)
(* ("retention") of a convergence.  Every observation runs under one write *)
(* lock and is therefore one step; the rows it sends are written by tasks  *)
(* of their own, keyed so that repeating one is harmless.                  *)
(*                                                                         *)
(* Amounts are one unit per trade; scores and the flow data of a payload   *)
(* are not modelled here.                                                  *)
(***************************************************************************)
EXTENDS Integers, FiniteSets, Sequences

CONSTANTS
  Wallets,        \* wallets that may be parents or children
  Mints,
  None,           \* "-" in a key: no child
  Window,         \* CONVERGENCE_WINDOW_MS
  Checkpoints,    \* RETENTION_CHECKPOINTS_MS
  Slack,          \* the 60 s a late snapshot is waited for
  Grace,          \* RETENTION_ADD_GRACE_MS
  EarlierRows,    \* answers of the table of children at the start
  ChildWatch,     \* proven_wallet_graph_child_watch_hours
  MaxKeys,        \* MAX_EMITTED_SIGNAL_KEYS
  MaxMints,       \* MAX_CONVERGENCE_MINTS
  TimeBound       \* bound of the model: the clock stops here

ASSUME GraphAssumption ==
  /\ Window \in Nat /\ Slack \in Nat /\ Grace \in Nat /\ ChildWatch \in Nat
  /\ MaxKeys \in Nat /\ MaxMints \in Nat \ {0} /\ TimeBound \in Nat
  /\ Checkpoints \in SUBSET (Nat \ {0}) /\ Checkpoints # {}
  /\ IsFiniteSet(Checkpoints)
  /\ IsFiniteSet(Wallets) /\ IsFiniteSet(Mints) /\ None \notin Wallets
  /\ \A rows \in EarlierRows : \A w \in DOMAIN rows :
       w \in Wallets /\ rows[w].parent \in Wallets /\ rows[w].seen \in Int

VARIABLES
  now,            \* the clock
  parents,        \* the roster of proven parents
  children,       \* child |-> the parent that funded it, and when it expires
  parentTouched,  \* parent_mint_touches: <<parent, mint>>
  childTouched,   \* child_mint_touches: <<parent, mint, child>>
  emitted,        \* emitted_signals
  conv,           \* convergence_by_mint
  signalRows,     \* wallet_linked_mint_signals (external)
  snapshots       \* wallet_convergence_retention_snapshots, as sent (external)

graphVars == <<now, parents, children, parentTouched, childTouched, emitted,
               conv, signalRows, snapshots>>

Reasons == {"TWO_PARENTS_SAME_MINT", "PARENT_CHILD_SAME_MINT",
            "MULTI_CHILD_SAME_MINT"}
LastCheckpoint == CHOOSE c \in Checkpoints : \A d \in Checkpoints : d <= c
Restricted(f, S) == [x \in DOMAIN f \cap S |-> f[x]]
With(f, x, v) == [y \in DOMAIN f \cup {x} |-> IF y = x THEN v ELSE f[y]]
Unseen == [parents |-> <<>>, children |-> <<>>, signals |-> <<>>]

\* load_recent_children, once at the start: children seen within the watch,
\* each until its own watch ends.
Recalled(rows) ==
  [w \in {v \in DOMAIN rows : rows[v].seen >= -ChildWatch} |->
     [parent |-> rows[w].parent, until |-> rows[w].seen + ChildWatch]]

\* The loop starts with a roster and the children of earlier runs.
GraphInit(rosters) ==
  /\ now = 0 /\ parents \in rosters
  /\ children \in {Recalled(rows) : rows \in EarlierRows}
  /\ parentTouched = {} /\ childTouched = {} /\ emitted = {}
  /\ conv = <<>> /\ signalRows = {} /\ snapshots = {}

-----------------------------------------------------------------------------
\* prune_expired_children, at the head of every observation.
Watched == Restricted(children, {w \in DOMAIN children : children[w].until >= now})

\* The key set is cleared when it has grown too large.
KnownKeys == IF Cardinality(emitted) > MaxKeys THEN {} ELSE emitted

\* prune_completed_retention_checkpoints.
LiveSignals(s) ==
  Restricted(s.signals, {r \in DOMAIN s.signals :
     \/ s.signals[r].done # Checkpoints
     \/ now <= s.signals[r].at + LastCheckpoint + Slack})

\* has_pending_retention.
Pending(signals) ==
  \E r \in DOMAIN signals :
     /\ signals[r].done # Checkpoints
     /\ now <= signals[r].at + LastCheckpoint + Slack

Recent(touches) ==
  Restricted(touches, {w \in DOMAIN touches : touches[w].last >= now - Window})

\* Mutant of PrunedMint: an awaited follow-up does not hold the touches.
PrunedMintAlways(s) ==
  [parents |-> Recent(s.parents), children |-> Recent(s.children),
   signals |-> LiveSignals(s)]

PrunedMint(s) ==
  LET signals == LiveSignals(s)
      keep(touches) == IF Pending(signals) THEN touches ELSE Recent(touches)
  IN  [parents |-> keep(s.parents), children |-> keep(s.children),
       signals |-> signals]

LastSeen(s) ==
  LET times == {s.parents[w].last : w \in DOMAIN s.parents}
                 \cup {s.children[w].last : w \in DOMAIN s.children}
  IN  CHOOSE t \in times : \A u \in times : u <= t

\* prune_convergence_state: every mint is pruned, empty ones go, and when
\* there are too many the longest unseen go until half the capacity is left.
\* Mints seen at the same time are dropped in any order.
Prunings ==
  LET all == [m \in DOMAIN conv |-> PrunedMint(conv[m])]
      kept == {m \in DOMAIN all : DOMAIN all[m].parents # {}
                                    \/ DOMAIN all[m].children # {}}
      half(S) == /\ Cardinality(S) = MaxMints \div 2
                 /\ \A m \in S, n \in kept \ S : LastSeen(all[n]) <= LastSeen(all[m])
  IN  IF Cardinality(kept) <= MaxMints THEN {Restricted(all, kept)}
      ELSE {Restricted(all, S) : S \in {T \in SUBSET kept : half(T)}}

\* record_parent_convergence_touch and record_child_convergence_touch.
Bought(touches, w) ==
  With(touches, w,
       IF w \in DOMAIN touches
       THEN [touches[w] EXCEPT !.buys = Append(@, now), !.last = now]
       ELSE [buys |-> <<now>>, sold |-> 0, last |-> now])

\* record_parent_convergence_sell and record_child_convergence_sell: a sell
\* of a wallet that was not seen buying is ignored.
Sold(touches, w) ==
  IF w \in DOMAIN touches THEN [touches EXCEPT ![w].sold = @ + 1] ELSE touches

MintState(c, m) == IF m \in DOMAIN c THEN c[m] ELSE Unseen

\* The touches of one trade: a wallet that is a parent and a child is both.
Touched(c, w, m, buy) ==
  LET s == MintState(c, m)
      ps == IF w \notin parents THEN s.parents
            ELSE IF buy THEN Bought(s.parents, w) ELSE Sold(s.parents, w)
      cs == IF w \notin DOMAIN Watched THEN s.children
            ELSE IF buy THEN Bought(s.children, w) ELSE Sold(s.children, w)
  IN  IF m \notin DOMAIN c /\ ~(buy /\ w \in parents \cup DOMAIN Watched) THEN c
      ELSE With(c, m, [s EXCEPT !.parents = ps, !.children = cs])

\* Mutant of Converging: buys are counted, not the wallets that bought.
ConvergingByBuys(s) ==
  LET n(t) == IF DOMAIN t = {} THEN 0
              ELSE LET w == CHOOSE v \in DOMAIN t :
                              \A u \in DOMAIN t : Len(t[u].buys) <= Len(t[v].buys)
                   IN  Len(t[w].buys)
  IN  {r \in Reasons : \/ r = "TWO_PARENTS_SAME_MINT" /\ n(s.parents) >= 2
                       \/ r = "MULTI_CHILD_SAME_MINT" /\ n(s.children) >= 2}

\* The reasons for which the wallets of s converge.
Converging(s) ==
  LET p == Cardinality(DOMAIN Recent(s.parents))
      c == Cardinality(DOMAIN Recent(s.children))
  IN  {r \in Reasons :
        \/ r = "TWO_PARENTS_SAME_MINT" /\ p >= 2
        \/ r = "PARENT_CHILD_SAME_MINT" /\ p >= 1 /\ c >= 1
        \/ r = "MULTI_CHILD_SAME_MINT" /\ c >= 2}

\* maybe_queue_convergence_signals: any buy of the mint, watched or not, may
\* open an episode; one that is open keeps the time of its first signal.
Signalled(c, m) ==
  IF m \notin DOMAIN c THEN c
  ELSE LET old == c[m].signals
           rs  == DOMAIN old \cup Converging(c[m])
       IN  [c EXCEPT ![m].signals =
              [r \in rs |-> IF r \in DOMAIN old THEN old[r]
                            ELSE [at |-> now, done |-> {}]]]

-----------------------------------------------------------------------------
\* What the wallets of a mint did, as a snapshot tells it.
Touches(s) == {s.parents[w] : w \in DOMAIN s.parents}
                \cup {s.children[w] : w \in DOMAIN s.children}
AddedBy(touch, at) ==
  Cardinality({i \in DOMAIN touch.buys : touch.buys[i] > at + Grace})
WalletsOf(s) == DOMAIN s.parents \cup DOMAIN s.children

\* build_retention_payload and classify_retention_snapshot, the wallets and
\* the verdicts only: dumped at 75% and more, held at 25% and less.
Snapshot(m, r, s, c) ==
  LET at == s.signals[r].at
  IN  [mint |-> m, reason |-> r, at |-> at, checkpoint |-> c, checked |-> now,
       wallets |-> WalletsOf(s),
       added |-> {w \in WalletsOf(s) :
                   \/ w \in DOMAIN s.parents /\ AddedBy(s.parents[w], at) > 0
                   \/ w \in DOMAIN s.children /\ AddedBy(s.children[w], at) > 0},
       exited |-> {w \in WalletsOf(s) :
                   \/ w \in DOMAIN s.parents
                        /\ 4 * s.parents[w].sold >= 3 * Len(s.parents[w].buys)
                   \/ w \in DOMAIN s.children
                        /\ 4 * s.children[w].sold >= 3 * Len(s.children[w].buys)}]

Due(s, r) == {c \in Checkpoints \ s.signals[r].done : now - s.signals[r].at >= c}

\* maybe_queue_due_retention_snapshots: every mint, every episode; a
\* checkpoint is marked when its row is queued, not when it is written.
SnapshotsDue(c) ==
  UNION {UNION {{Snapshot(m, r, c[m], k) : k \in Due(c[m], r)} :
                  r \in DOMAIN c[m].signals} : m \in DOMAIN c}
Marked(c) ==
  [m \in DOMAIN c |->
     [c[m] EXCEPT !.signals =
        [r \in DOMAIN c[m].signals |->
           [c[m].signals[r] EXCEPT !.done = @ \cup Due(c[m], r)]]]]

-----------------------------------------------------------------------------
Key(type, m, p, w) == <<type, m, p, w>>

\* maybe_queue_create_signal and maybe_queue_trade_signal: a key that is
\* known queues nothing; the table ignores a duplicate.
Queue(keys) ==
  /\ emitted' = KnownKeys \cup keys
  /\ signalRows' = signalRows \cup (keys \ KnownKeys)

\* observe_pumpfun_create.  A create does not look for a cluster.
ObserveCreate(w, m) ==
  LET p == IF w \in DOMAIN Watched THEN Watched[w].parent ELSE None
  IN  /\ parentTouched' = IF w \in parents THEN parentTouched \cup {<<w, m>>}
                          ELSE parentTouched
      /\ childTouched' = IF p # None THEN childTouched \cup {<<p, m, w>>}
                         ELSE childTouched
      /\ Queue({Key("PARENT_CREATED", m, q, None) : q \in {w} \cap parents}
                 \cup {Key("CHILD_CREATED", m, q, w) : q \in {p} \ {None}})
      /\ children' = Watched
      /\ UNCHANGED <<now, parents, conv, snapshots>>

\* Mutant of ParentKeys: only the child's buy looks for a cluster.
ParentKeysAlone(w, m) ==
  IF w \notin parents THEN {} ELSE {Key("PARENT_BOUGHT", m, w, None)}

\* The signals of a buy by w: of the parent, and of the child with its
\* cluster as it is with this buy.
ParentKeys(w, m) ==
  IF w \notin parents THEN {}
  ELSE {k \in {Key("PARENT_BOUGHT", m, w, None), Key("PARENT_CHILD", m, w, None)} :
          k[1] = "PARENT_CHILD" =>
            \E t \in childTouched : t[1] = w /\ t[2] = m}
ChildKeys(w, m, touchedByParent, cluster) ==
  IF w \notin DOMAIN Watched THEN {}
  ELSE LET p == Watched[w].parent
       IN  {k \in {Key("CHILD_BOUGHT", m, p, w), Key("MULTI_CHILD", m, p, None),
                   Key("PARENT_CHILD", m, p, w)} :
              /\ k[1] = "MULTI_CHILD" => Cardinality(cluster) >= 2
              /\ k[1] = "PARENT_CHILD" => <<p, m>> \in touchedByParent}

\* observe_pumpfun_trade.
ObserveTrade(w, m, buy) ==
  \E c \in Prunings :
    LET pt == IF buy /\ w \in parents THEN parentTouched \cup {<<w, m>>}
              ELSE parentTouched
        p  == IF w \in DOMAIN Watched THEN Watched[w].parent ELSE None
        ct == IF buy /\ p # None THEN childTouched \cup {<<p, m, w>>}
              ELSE childTouched
        keys == IF ~buy THEN {}
                ELSE ParentKeys(w, m) \cup ChildKeys(w, m, pt,
                       {t[3] : t \in {u \in ct : u[1] = p /\ u[2] = m}})
        touched == Touched(c, w, m, buy)
        after == IF buy THEN Signalled(touched, m) ELSE touched
    IN  /\ parentTouched' = pt
        /\ childTouched' = ct
        /\ Queue(keys)
        /\ children' = Watched
        /\ snapshots' = snapshots \cup SnapshotsDue(after)
        /\ conv' = Marked(after)
        /\ UNCHANGED <<now, parents>>

\* collect_due_retention_snapshots, once in each turn of the poll loop.
CollectDue ==
  \E c \in Prunings :
    /\ snapshots' = snapshots \cup SnapshotsDue(c)
    /\ conv' = Marked(c)
    /\ UNCHANGED <<now, parents, children, parentTouched, childTouched,
                   emitted, signalRows>>

\* cache_child_from_edge: the watch runs from the time of the funding, and a
\* wallet that is funded again belongs to the parent that funded it last.
CacheChild(w, p, fundedAt) ==
  /\ children' = With(children, w, [parent |-> p, until |-> fundedAt + ChildWatch])
  /\ UNCHANGED <<now, parents, parentTouched, childTouched, emitted, conv,
                 signalRows, snapshots>>

\* reload_parent_roster replaces the roster; a failed request keeps the old.
ReloadRoster(rows) ==
  /\ parents' = rows
  /\ UNCHANGED <<now, children, parentTouched, childTouched, emitted, conv,
                 signalRows, snapshots>>
=============================================================================
