------------------------- MODULE FundingPollProofs -------------------------
(***************************************************************************)
(* What holds of the wallet graph and its poll for every finite set of     *)
(* wallets and mints, any rosters and fundings, any number of turns, pages *)
(* and failing requests.                                                   *)
(***************************************************************************)
EXTENDS FundingPoll, SumLemmas, SequenceTheorems

-----------------------------------------------------------------------------
(* The convergence of a mint, and what pruning leaves of it. *)

IsFcn(f) == f = [x \in DOMAIN f |-> f[x]]

Touch == [buys : Seq(Nat), sold : Nat, last : Nat]
Episode == [at : Nat, done : SUBSET Checkpoints]

TouchesOK(t) ==
  /\ IsFcn(t) /\ DOMAIN t \subseteq Wallets
  /\ \A w \in DOMAIN t : t[w] \in Touch

SignalsOK(g) ==
  /\ IsFcn(g) /\ DOMAIN g \subseteq Reasons
  /\ \A r \in DOMAIN g : g[r] \in Episode

Parts == {"parents", "children", "signals"}

StateOK(s) ==
  /\ DOMAIN s = Parts /\ s = [x \in Parts |-> s[x]]
  /\ TouchesOK(s.parents) /\ TouchesOK(s.children) /\ SignalsOK(s.signals)

ConvOK(c) ==
  /\ IsFcn(c) /\ DOMAIN c \subseteq Mints
  /\ \A m \in DOMAIN c : StateOK(c[m])

\* A wallet is among the touches, seen at t or later.
Has(s, w, t) ==
  \/ w \in DOMAIN s.parents /\ s.parents[w].last >= t
  \/ w \in DOMAIN s.children /\ s.children[w].last >= t

\* An episode that has follow-ups left, none of which is late.
Awaited(e) ==
  /\ e.done # Checkpoints
  /\ \A k \in Checkpoints \ e.done : now <= e.at + k

LEMMA RecordIs ==
  ASSUME NEW p, NEW c, NEW g
  PROVE  LET s == [parents |-> p, children |-> c, signals |-> g]
         IN  /\ DOMAIN s = Parts /\ s = [x \in Parts |-> s[x]]
             /\ s.parents = p /\ s.children = c /\ s.signals = g
  BY DEF Parts

LEMMA LastIs ==
  /\ LastCheckpoint \in Checkpoints
  /\ \A k \in Checkpoints : k <= LastCheckpoint /\ k \in Nat /\ k > 0
<1> DEFINE P == {T \in SUBSET Checkpoints :
                   T # {} => \E c \in T : \A d \in T : d <= c}
<1>1. Checkpoints \in SUBSET (Nat \ {0}) /\ Checkpoints # {} /\ IsFiniteSet(Checkpoints)
  BY GraphAssumption
<1>2. {} \in P
  OBVIOUS
<1>3. ASSUME NEW T \in SUBSET Checkpoints, NEW x \in T, T \ {x} \in P
      PROVE  T \in P
  <2>1. CASE T \ {x} = {}
    <3>1. \A d \in T : d <= x
      BY <1>1, <2>1
    <3> QED
      BY <3>1
  <2>2. CASE T \ {x} # {}
    <3>1. PICK c \in T \ {x} : \A d \in T \ {x} : d <= c
      BY <1>3, <2>2
    <3>2. \A d \in T : d \in Nat
      BY <1>1
    <3>3. CASE x <= c
      BY <3>1, <3>3
    <3>4. CASE ~(x <= c)
      <4>1. \A d \in T : d <= x
        BY <3>1, <3>2, <3>4
      <4> QED
        BY <4>1
    <3> QED
      BY <3>3, <3>4
  <2> QED
    BY <2>1, <2>2
<1>4. SUBSET Checkpoints \subseteq P
  <2> HIDE DEF P
  <2> QED
    BY <1>1, <1>2, <1>3, ElementInduction
<1>5. \E c \in Checkpoints : \A d \in Checkpoints : d <= c
  BY <1>1, <1>4
<1>6. LastCheckpoint \in Checkpoints /\ \A k \in Checkpoints : k <= LastCheckpoint
  BY <1>5, Zenon DEF LastCheckpoint
<1>7. \A k \in Checkpoints : k \in Nat /\ k > 0
  BY <1>1
<1> QED
  BY <1>6, <1>7

LEMMA RecentIs ==
  ASSUME NEW t, TouchesOK(t)
  PROVE  /\ TouchesOK(Recent(t))
         /\ DOMAIN Recent(t) = {w \in DOMAIN t : t[w].last >= now - Window}
         /\ \A w \in DOMAIN Recent(t) : Recent(t)[w] = t[w]
<1> DEFINE S == {w \in DOMAIN t : t[w].last >= now - Window}
<1>1. Recent(t) = Restricted(t, S)
  BY DEF Recent
<1>2. DOMAIN t \cap S = S
  OBVIOUS
<1> HIDE DEF S
<1>3. /\ IsFcn(Recent(t)) /\ DOMAIN Recent(t) = S
      /\ \A w \in S : Recent(t)[w] = t[w]
  BY <1>1, <1>2 DEF Restricted, IsFcn
<1>4. S \subseteq DOMAIN t
  BY DEF S
<1> QED
  BY <1>3, <1>4 DEF TouchesOK, S

LEMMA LiveIs ==
  ASSUME NEW s, StateOK(s)
  PROVE  /\ SignalsOK(LiveSignals(s))
         /\ \A r \in DOMAIN LiveSignals(s) :
              r \in DOMAIN s.signals /\ LiveSignals(s)[r] = s.signals[r]
         /\ \A r \in DOMAIN s.signals :
              s.signals[r].done # Checkpoints => r \in DOMAIN LiveSignals(s)
<1> DEFINE g == s.signals
           S == {r \in DOMAIN g : \/ g[r].done # Checkpoints
                                  \/ now <= g[r].at + LastCheckpoint + Slack}
<1>1. LiveSignals(s) = Restricted(g, S)
  BY DEF LiveSignals
<1>2. DOMAIN g \cap S = S /\ S \subseteq DOMAIN g
  OBVIOUS
<1>3. \A r \in DOMAIN g : g[r].done # Checkpoints => r \in S
  OBVIOUS
<1> HIDE DEF S
<1>4. /\ IsFcn(LiveSignals(s)) /\ DOMAIN LiveSignals(s) = S
      /\ \A r \in S : LiveSignals(s)[r] = g[r]
  BY <1>1, <1>2 DEF Restricted, IsFcn
<1>5. SignalsOK(g)
  BY DEF StateOK
<1> QED
  BY <1>2, <1>3, <1>4, <1>5 DEF SignalsOK

LEMMA PendingIs ==
  ASSUME NEW s, StateOK(s), now \in Nat, NEW r \in DOMAIN s.signals,
         Awaited(s.signals[r])
  PROVE  Pending(LiveSignals(s))
<1> DEFINE e == s.signals[r]
<1>1. e \in Episode
  BY DEF StateOK, SignalsOK
<1>2. PICK k \in Checkpoints : k \notin e.done
  BY <1>1 DEF Awaited, Episode
<1>3. now <= e.at + k /\ e.at \in Nat
  BY <1>1, <1>2 DEF Awaited, Episode
<1>4. now <= e.at + LastCheckpoint + Slack
  BY <1>2, <1>3, LastIs, GraphAssumption
<1>5. r \in DOMAIN LiveSignals(s) /\ LiveSignals(s)[r] = e
  BY LiveIs DEF Awaited
<1> QED
  BY <1>4, <1>5 DEF Pending, Awaited

\* What pruning leaves of a mint: of the touches those of the window, and all
\* while a follow-up is awaited.
LEMMA PrunedIs ==
  ASSUME NEW s, StateOK(s), now \in Nat
  PROVE  LET n == PrunedMint(s)
         IN  /\ StateOK(n)
             /\ DOMAIN n.parents \subseteq DOMAIN s.parents
             /\ DOMAIN n.children \subseteq DOMAIN s.children
             /\ \A r \in DOMAIN n.signals :
                  r \in DOMAIN s.signals /\ n.signals[r] = s.signals[r]
             /\ \A w, t : t >= now - Window /\ t \in Nat /\ Has(s, w, t) => Has(n, w, t)
             /\ (\E r \in DOMAIN s.signals : Awaited(s.signals[r]))
                  => n.parents = s.parents /\ n.children = s.children
<1> DEFINE n == PrunedMint(s)
           g == LiveSignals(s)
           p == IF Pending(g) THEN s.parents ELSE Recent(s.parents)
           c == IF Pending(g) THEN s.children ELSE Recent(s.children)
<1>1. n = [parents |-> p, children |-> c, signals |-> g]
  BY DEF PrunedMint
<1> HIDE DEF n, g, p, c
<1>2. /\ DOMAIN n = Parts /\ n = [x \in Parts |-> n[x]]
      /\ n.parents = p /\ n.children = c /\ n.signals = g
  BY <1>1, RecordIs
<1>3. TouchesOK(s.parents) /\ TouchesOK(s.children)
  BY DEF StateOK
<1>4. /\ TouchesOK(p) /\ DOMAIN p \subseteq DOMAIN s.parents
      /\ \A w \in DOMAIN s.parents :
           s.parents[w].last >= now - Window => w \in DOMAIN p /\ p[w] = s.parents[w]
  BY <1>3, RecentIs DEF p
<1>5. /\ TouchesOK(c) /\ DOMAIN c \subseteq DOMAIN s.children
      /\ \A w \in DOMAIN s.children :
           s.children[w].last >= now - Window => w \in DOMAIN c /\ c[w] = s.children[w]
  BY <1>3, RecentIs DEF c
<1>6. /\ SignalsOK(g)
      /\ \A r \in DOMAIN g : r \in DOMAIN s.signals /\ g[r] = s.signals[r]
  BY LiveIs DEF g
<1>7. StateOK(n)
  BY <1>2, <1>4, <1>5, <1>6 DEF StateOK
<1>8. ASSUME NEW w, NEW t \in Nat, t >= now - Window, Has(s, w, t)
      PROVE  Has(n, w, t)
  <2>1. CASE w \in DOMAIN s.parents /\ s.parents[w].last >= t
    <3>1. s.parents[w].last \in Nat
      BY <1>3, <2>1 DEF TouchesOK, Touch
    <3>2. s.parents[w].last >= now - Window
      BY <1>8, <2>1, <3>1, GraphAssumption
    <3> QED
      BY <1>2, <1>4, <2>1, <3>2 DEF Has
  <2>2. CASE w \in DOMAIN s.children /\ s.children[w].last >= t
    <3>1. s.children[w].last \in Nat
      BY <1>3, <2>2 DEF TouchesOK, Touch
    <3>2. s.children[w].last >= now - Window
      BY <1>8, <2>2, <3>1, GraphAssumption
    <3> QED
      BY <1>2, <1>5, <2>2, <3>2 DEF Has
  <2> QED
    BY <1>8, <2>1, <2>2 DEF Has
<1>9. (\E r \in DOMAIN s.signals : Awaited(s.signals[r]))
        => n.parents = s.parents /\ n.children = s.children
  BY <1>2, PendingIs DEF p, c, g
<1>10. \A w, t : t >= now - Window /\ t \in Nat /\ Has(s, w, t) => Has(n, w, t)
  BY <1>8
<1> QED
  BY <1>2, <1>4, <1>5, <1>6, <1>7, <1>9, <1>10 DEF n

-----------------------------------------------------------------------------
(* One trade in the convergence: touches, episodes, follow-ups. *)

LEMMA BoughtIs ==
  ASSUME NEW t, TouchesOK(t), NEW w \in Wallets, now \in Nat
  PROVE  /\ TouchesOK(Bought(t, w))
         /\ DOMAIN Bought(t, w) = DOMAIN t \cup {w}
         /\ Bought(t, w)[w].last = now
         /\ \A v \in DOMAIN t \ {w} : Bought(t, w)[v] = t[v]
<1> DEFINE e == IF w \in DOMAIN t
                THEN [t[w] EXCEPT !.buys = Append(@, now), !.last = now]
                ELSE [buys |-> <<now>>, sold |-> 0, last |-> now]
<1>1. e \in Touch /\ e.last = now
  <2>1. CASE w \in DOMAIN t
    <3>1. t[w] \in Touch
      BY <2>1 DEF TouchesOK
    <3>2. Append(t[w].buys, now) \in Seq(Nat)
      BY <3>1, AppendProperties DEF Touch
    <3>3. e = [t[w] EXCEPT !.buys = Append(t[w].buys, now), !.last = now]
      BY <2>1
    <3> QED
      BY <3>1, <3>2, <3>3 DEF Touch
  <2>2. CASE w \notin DOMAIN t
    <3> DEFINE l == <<now>>
    <3>1. e = [buys |-> l, sold |-> 0, last |-> now]
      BY <2>2
    <3>2. l \in Seq(Nat)
      OBVIOUS
    <3> HIDE DEF l
    <3>3. [buys |-> l, sold |-> 0, last |-> now] \in Touch
      BY <3>2 DEF Touch
    <3>4. e.last = now
      BY <3>1
    <3> HIDE DEF e
    <3> QED
      BY <3>1, <3>3, <3>4
  <2> QED
    BY <2>1, <2>2
<1>2. Bought(t, w) = With(t, w, e)
  BY DEF Bought
<1> HIDE DEF e
<1> QED
  BY <1>1, <1>2 DEF With, TouchesOK, IsFcn

LEMMA SoldIs ==
  ASSUME NEW t, TouchesOK(t), NEW w
  PROVE  /\ TouchesOK(Sold(t, w))
         /\ DOMAIN Sold(t, w) = DOMAIN t
         /\ \A v \in DOMAIN t : Sold(t, w)[v].last = t[v].last
<1>1. CASE w \in DOMAIN t
  <2> DEFINE e == [t[w] EXCEPT !.sold = t[w].sold + 1]
  <2>1. t[w] \in Touch
    BY <1>1 DEF TouchesOK
  <2>2. e \in Touch /\ e.last = t[w].last
    BY <2>1 DEF Touch
  <2>3. Sold(t, w) = [t EXCEPT ![w] = e]
    BY <1>1 DEF Sold
  <2> HIDE DEF e
  <2> QED
    BY <1>1, <2>2, <2>3 DEF TouchesOK, IsFcn
<1>2. CASE w \notin DOMAIN t
  BY <1>2 DEF Sold
<1> QED
  BY <1>1, <1>2

LEMMA UnseenIs ==
  /\ StateOK(Unseen) /\ DOMAIN Unseen.signals = {}
  /\ DOMAIN Unseen.parents = {} /\ DOMAIN Unseen.children = {}
<1>1. \A x \in {<<>>} : IsFcn(x) /\ DOMAIN x = {}
  BY DEF IsFcn
<1>2. /\ DOMAIN Unseen = Parts /\ Unseen = [x \in Parts |-> Unseen[x]]
      /\ Unseen.parents = <<>> /\ Unseen.children = <<>> /\ Unseen.signals = <<>>
  BY RecordIs DEF Unseen
<1> QED
  BY <1>1, <1>2 DEF StateOK, TouchesOK, SignalsOK

\* The touches of x, a mint n of a later c, are old or of a wallet in its role.
OfRoles(x, c, n) ==
  /\ \A v \in DOMAIN x.parents :
       (n \in DOMAIN c /\ v \in DOMAIN c[n].parents) \/ v \in parents
  /\ \A v \in DOMAIN x.children :
       (n \in DOMAIN c /\ v \in DOMAIN c[n].children) \/ v \in DOMAIN Watched

\* Touches are added and renewed, never taken away; only the trader's are new.
LEMMA TouchedIs ==
  ASSUME NEW c, ConvOK(c), NEW w \in Wallets, NEW m \in Mints,
         NEW buy \in BOOLEAN, now \in Nat
  PROVE  LET T == Touched(c, w, m, buy)
             watched == w \in parents \cup DOMAIN Watched
         IN  /\ ConvOK(T)
             /\ \A n \in DOMAIN c :
                  /\ n \in DOMAIN T /\ T[n].signals = c[n].signals
                  /\ WalletsOf(c[n]) \subseteq WalletsOf(T[n])
                  /\ \A v, t : t \in Nat /\ t <= now /\ Has(c[n], v, t) => Has(T[n], v, t)
             /\ \A n \in DOMAIN T : n \notin DOMAIN c => DOMAIN T[n].signals = {}
             /\ \A n \in DOMAIN T : \A v \in WalletsOf(T[n]) :
                  \/ n \in DOMAIN c /\ v \in WalletsOf(c[n])
                  \/ n = m /\ v = w /\ buy /\ watched
             /\ buy /\ watched => m \in DOMAIN T /\ Has(T[m], w, now)
             /\ \A n \in DOMAIN T : OfRoles(T[n], c, n)
<1> DEFINE T == Touched(c, w, m, buy)
           watched == w \in parents \cup DOMAIN Watched
           s == MintState(c, m)
           ps == IF w \notin parents THEN s.parents
                 ELSE IF buy THEN Bought(s.parents, w) ELSE Sold(s.parents, w)
           cs == IF w \notin DOMAIN Watched THEN s.children
                 ELSE IF buy THEN Bought(s.children, w) ELSE Sold(s.children, w)
           n1 == [s EXCEPT !.parents = ps, !.children = cs]
<1>1. T = IF m \notin DOMAIN c /\ ~(buy /\ watched) THEN c ELSE With(c, m, n1)
  BY DEF Touched
<1>2. StateOK(s) /\ (m \notin DOMAIN c => s = Unseen) /\ (m \in DOMAIN c => s = c[m])
  BY UnseenIs DEF MintState, ConvOK
<1>3. TouchesOK(s.parents) /\ TouchesOK(s.children) /\ SignalsOK(s.signals)
  BY <1>2 DEF StateOK
<1>4. /\ TouchesOK(ps)
      /\ DOMAIN s.parents \subseteq DOMAIN ps
      /\ \A v \in DOMAIN ps : v \in DOMAIN s.parents \/ (v = w /\ buy /\ w \in parents)
      /\ \A v \in DOMAIN s.parents : ps[v].last = s.parents[v].last \/ ps[v].last = now
      /\ buy /\ w \in parents => w \in DOMAIN ps /\ ps[w].last = now
  <2>1. CASE w \notin parents
    BY <1>3, <2>1
  <2>2. CASE w \in parents /\ buy
    <3>1. ps = Bought(s.parents, w)
      BY <2>2
    <3>2. /\ TouchesOK(Bought(s.parents, w))
          /\ DOMAIN Bought(s.parents, w) = DOMAIN s.parents \cup {w}
          /\ Bought(s.parents, w)[w].last = now
          /\ \A v \in DOMAIN s.parents \ {w} : Bought(s.parents, w)[v] = s.parents[v]
      BY <1>3, BoughtIs
    <3> HIDE DEF ps, s
    <3> QED
      BY <2>2, <3>1, <3>2
  <2>3. CASE w \in parents /\ ~buy
    BY <1>3, <2>3, SoldIs
  <2> QED
    BY <2>1, <2>2, <2>3
<1>5. /\ TouchesOK(cs)
      /\ DOMAIN s.children \subseteq DOMAIN cs
      /\ \A v \in DOMAIN cs : v \in DOMAIN s.children \/ (v = w /\ buy /\ w \in DOMAIN Watched)
      /\ \A v \in DOMAIN s.children : cs[v].last = s.children[v].last \/ cs[v].last = now
      /\ buy /\ w \in DOMAIN Watched => w \in DOMAIN cs /\ cs[w].last = now
  <2>1. CASE w \notin DOMAIN Watched
    BY <1>3, <2>1
  <2>2. CASE w \in DOMAIN Watched /\ buy
    <3>1. cs = Bought(s.children, w)
      BY <2>2
    <3>2. /\ TouchesOK(Bought(s.children, w))
          /\ DOMAIN Bought(s.children, w) = DOMAIN s.children \cup {w}
          /\ Bought(s.children, w)[w].last = now
          /\ \A v \in DOMAIN s.children \ {w} : Bought(s.children, w)[v] = s.children[v]
      BY <1>3, BoughtIs
    <3> HIDE DEF cs, s
    <3> QED
      BY <2>2, <3>1, <3>2
  <2>3. CASE w \in DOMAIN Watched /\ ~buy
    BY <1>3, <2>3, SoldIs
  <2> QED
    BY <2>1, <2>2, <2>3
<1> HIDE DEF ps, cs, s
<1>6. /\ DOMAIN n1 = Parts /\ n1 = [x \in Parts |-> n1[x]]
      /\ n1.parents = ps /\ n1.children = cs /\ n1.signals = s.signals
  BY <1>2 DEF StateOK, Parts
<1> HIDE DEF n1
<1>7. StateOK(n1)
  BY <1>3, <1>4, <1>5, <1>6 DEF StateOK
<1>8. WalletsOf(s) \subseteq WalletsOf(n1)
  BY <1>4, <1>5, <1>6 DEF WalletsOf
<1>9. ASSUME NEW v, NEW t \in Nat, t <= now, Has(s, v, t)
      PROVE  Has(n1, v, t)
  BY <1>4, <1>5, <1>6, <1>9 DEF Has
<1>10. \A v \in WalletsOf(n1) : v \in WalletsOf(s) \/ (v = w /\ buy /\ watched)
  BY <1>4, <1>5, <1>6 DEF WalletsOf
<1>11. buy /\ watched => Has(n1, w, now)
  BY <1>4, <1>5, <1>6 DEF Has
<1>12. CASE m \notin DOMAIN c /\ ~(buy /\ watched)
  BY <1>1, <1>12 DEF ConvOK, OfRoles
<1>13. CASE ~(m \notin DOMAIN c /\ ~(buy /\ watched))
  <2>1. /\ IsFcn(T) /\ DOMAIN T = DOMAIN c \cup {m} /\ T[m] = n1
        /\ \A n \in DOMAIN c \ {m} : T[n] = c[n]
    BY <1>1, <1>13 DEF With, IsFcn
  <2> HIDE DEF T, watched
  <2>2. ConvOK(T)
    BY <1>7, <2>1 DEF ConvOK
  <2>3. ASSUME NEW n \in DOMAIN c
        PROVE  /\ n \in DOMAIN T /\ T[n].signals = c[n].signals
               /\ WalletsOf(c[n]) \subseteq WalletsOf(T[n])
               /\ \A v, t : t \in Nat /\ t <= now /\ Has(c[n], v, t) => Has(T[n], v, t)
    BY <1>2, <1>6, <1>8, <1>9, <2>1
  <2>4. ASSUME NEW n \in DOMAIN T, n \notin DOMAIN c
        PROVE  DOMAIN T[n].signals = {}
    BY <1>2, <1>6, <2>1, <2>4, UnseenIs
  <2>5. ASSUME NEW n \in DOMAIN T, NEW v \in WalletsOf(T[n])
        PROVE  \/ n \in DOMAIN c /\ v \in WalletsOf(c[n])
               \/ n = m /\ v = w /\ buy /\ watched
    <3>1. m \notin DOMAIN c => WalletsOf(s) = {}
      BY <1>2, UnseenIs DEF WalletsOf
    <3> QED
      BY <1>2, <1>10, <2>1, <3>1
  <2>6. buy /\ watched => m \in DOMAIN T /\ Has(T[m], w, now)
    BY <1>11, <2>1
  <2>7. ASSUME NEW n \in DOMAIN T
        PROVE  OfRoles(T[n], c, n)
    <3>1. CASE n = m
      <4>1. m \notin DOMAIN c => DOMAIN s.parents = {} /\ DOMAIN s.children = {}
        BY <1>2, UnseenIs
      <4>2. T[n].parents = ps /\ T[n].children = cs
        BY <1>6, <2>1, <3>1
      <4> QED
        BY <1>2, <1>4, <1>5, <3>1, <4>1, <4>2 DEF OfRoles
    <3>2. CASE n # m
      BY <2>1, <3>2 DEF OfRoles
    <3> QED
      BY <3>1, <3>2
  <2> QED
    BY <2>2, <2>3, <2>4, <2>5, <2>6, <2>7 DEF T, watched
<1> QED
  BY <1>12, <1>13

\* S is c with the episodes that open now; none is closed or moved.
Opened(S, c, m) ==
  /\ ConvOK(S) /\ DOMAIN S = DOMAIN c
  /\ \A n \in DOMAIN c :
       /\ S[n].parents = c[n].parents /\ S[n].children = c[n].children
       /\ \A r \in DOMAIN S[n].signals :
            \/ r \in DOMAIN c[n].signals /\ S[n].signals[r] = c[n].signals[r]
            \/ /\ n = m /\ r \in Converging(c[m])
               /\ S[n].signals[r] = [at |-> now, done |-> {}]

LEMMA SignalledIs ==
  ASSUME NEW c, ConvOK(c), NEW m \in Mints, now \in Nat
  PROVE  Opened(Signalled(c, m), c, m)
<1> DEFINE S == Signalled(c, m)
<1>1. CASE m \notin DOMAIN c
  BY <1>1 DEF Signalled, Opened
<1>2. CASE m \in DOMAIN c
  <2> DEFINE old == c[m].signals
             rs == DOMAIN old \cup Converging(c[m])
             g == [r \in rs |-> IF r \in DOMAIN old THEN old[r]
                                ELSE [at |-> now, done |-> {}]]
             n1 == [c[m] EXCEPT !.signals = g]
  <2>1. S = [c EXCEPT ![m] = n1]
    BY <1>2 DEF Signalled
  <2>2. StateOK(c[m]) /\ SignalsOK(old)
    BY <1>2 DEF ConvOK, StateOK
  <2>3. Converging(c[m]) \subseteq Reasons
    BY DEF Converging
  <2>4. [at |-> now, done |-> {}] \in Episode
    BY DEF Episode
  <2>5. /\ SignalsOK(g)
        /\ \A r \in DOMAIN g :
             \/ r \in DOMAIN old /\ g[r] = old[r]
             \/ r \in Converging(c[m]) /\ g[r] = [at |-> now, done |-> {}]
    BY <2>2, <2>3, <2>4 DEF SignalsOK, IsFcn
  <2> HIDE DEF g
  <2>6. /\ DOMAIN n1 = Parts /\ n1 = [x \in Parts |-> n1[x]]
        /\ n1.parents = c[m].parents /\ n1.children = c[m].children /\ n1.signals = g
    BY <2>2 DEF StateOK, Parts
  <2> HIDE DEF n1
  <2>7. StateOK(n1)
    BY <2>2, <2>5, <2>6 DEF StateOK
  <2>8. /\ IsFcn(S) /\ DOMAIN S = DOMAIN c /\ S[m] = n1
        /\ \A n \in DOMAIN c \ {m} : S[n] = c[n]
    BY <1>2, <2>1 DEF IsFcn
  <2> HIDE DEF S
  <2>9. ConvOK(S)
    BY <2>7, <2>8 DEF ConvOK
  <2>10. ASSUME NEW n \in DOMAIN c
         PROVE  /\ S[n].parents = c[n].parents /\ S[n].children = c[n].children
                /\ \A r \in DOMAIN S[n].signals :
                     \/ r \in DOMAIN c[n].signals /\ S[n].signals[r] = c[n].signals[r]
                     \/ /\ n = m /\ r \in Converging(c[m])
                        /\ S[n].signals[r] = [at |-> now, done |-> {}]
    <3>1. CASE n = m
      <4>1. /\ S[n].parents = c[n].parents /\ S[n].children = c[n].children
            /\ S[n].signals = g
        BY <2>6, <2>8, <3>1
      <4> QED
        BY <2>5, <3>1, <4>1
    <3>2. CASE n # m
      BY <2>8, <3>2
    <3> QED
      BY <3>1, <3>2
  <2> QED
    BY <2>8, <2>9, <2>10 DEF Opened, S
<1> QED
  BY <1>1, <1>2

LEMMA MarkedIs ==
  ASSUME NEW c, ConvOK(c)
  PROVE  /\ ConvOK(Marked(c)) /\ DOMAIN Marked(c) = DOMAIN c
         /\ \A n \in DOMAIN c :
              /\ Marked(c)[n].parents = c[n].parents
              /\ Marked(c)[n].children = c[n].children
              /\ DOMAIN Marked(c)[n].signals = DOMAIN c[n].signals
              /\ \A r \in DOMAIN c[n].signals :
                   /\ Marked(c)[n].signals[r].at = c[n].signals[r].at
                   /\ Marked(c)[n].signals[r].done = c[n].signals[r].done \cup Due(c[n], r)
<1> DEFINE M == Marked(c)
           e(n, r) == [c[n].signals[r] EXCEPT !.done = c[n].signals[r].done \cup Due(c[n], r)]
           g(n) == [r \in DOMAIN c[n].signals |-> e(n, r)]
           n1(n) == [c[n] EXCEPT !.signals = g(n)]
<1>1. M = [n \in DOMAIN c |-> n1(n)]
  BY DEF Marked
<1>2. IsFcn(M) /\ DOMAIN M = DOMAIN c /\ \A n \in DOMAIN c : M[n] = n1(n)
  BY <1>1 DEF IsFcn
<1> HIDE DEF M
<1>3. ASSUME NEW n \in DOMAIN c
      PROVE  /\ StateOK(M[n])
             /\ M[n].parents = c[n].parents /\ M[n].children = c[n].children
             /\ DOMAIN M[n].signals = DOMAIN c[n].signals
             /\ \A r \in DOMAIN c[n].signals :
                  /\ M[n].signals[r].at = c[n].signals[r].at
                  /\ M[n].signals[r].done = c[n].signals[r].done \cup Due(c[n], r)
  <2>1. StateOK(c[n]) /\ SignalsOK(c[n].signals)
    BY DEF ConvOK, StateOK
  <2>2. ASSUME NEW r \in DOMAIN c[n].signals
        PROVE  /\ e(n, r) \in Episode /\ e(n, r).at = c[n].signals[r].at
               /\ e(n, r).done = c[n].signals[r].done \cup Due(c[n], r)
    <3>1. c[n].signals[r] \in Episode
      BY <2>1, <2>2 DEF SignalsOK
    <3>2. Due(c[n], r) \subseteq Checkpoints
      BY DEF Due
    <3> QED
      BY <3>1, <3>2 DEF Episode
  <2> HIDE DEF e
  <2>3. /\ SignalsOK(g(n)) /\ DOMAIN g(n) = DOMAIN c[n].signals
        /\ \A r \in DOMAIN c[n].signals : g(n)[r] = e(n, r)
    BY <2>1, <2>2 DEF SignalsOK, IsFcn
  <2> HIDE DEF g
  <2>4. /\ DOMAIN n1(n) = Parts /\ n1(n) = [x \in Parts |-> n1(n)[x]]
        /\ n1(n).parents = c[n].parents /\ n1(n).children = c[n].children
        /\ n1(n).signals = g(n)
    BY <2>1 DEF StateOK, Parts
  <2>5. M[n] = n1(n)
    BY <1>2
  <2> HIDE DEF n1
  <2> QED
    BY <2>1, <2>2, <2>3, <2>4, <2>5 DEF StateOK
<1>4. ConvOK(M)
  BY <1>2, <1>3 DEF ConvOK
<1> QED
  BY <1>2, <1>3, <1>4 DEF M

\* As long as no more mints converge than there is room for.
Roomy == Cardinality(DOMAIN conv) <= MaxMints

LEMMA PruningsAre ==
  ASSUME ConvOK(conv), now \in Nat, NEW c \in Prunings
  PROVE  /\ ConvOK(c) /\ DOMAIN c \subseteq DOMAIN conv
         /\ \A m \in DOMAIN c : c[m] = PrunedMint(conv[m])
         /\ Roomy => \A m \in DOMAIN conv :
                       WalletsOf(PrunedMint(conv[m])) # {} => m \in DOMAIN c
<1> DEFINE all == [m \in DOMAIN conv |-> PrunedMint(conv[m])]
           kept == {m \in DOMAIN all : DOMAIN all[m].parents # {}
                                         \/ DOMAIN all[m].children # {}}
           half(S) == /\ Cardinality(S) = MaxMints \div 2
                      /\ \A m \in S, n \in kept \ S : LastSeen(all[n]) <= LastSeen(all[m])
<1>1. Prunings = IF Cardinality(kept) <= MaxMints THEN {Restricted(all, kept)}
                 ELSE {Restricted(all, S) : S \in {T \in SUBSET kept : half(T)}}
  BY DEF Prunings
<1>2. DOMAIN all = DOMAIN conv /\ \A m \in DOMAIN conv : all[m] = PrunedMint(conv[m])
  OBVIOUS
<1>3. kept \subseteq DOMAIN conv
  BY <1>2
<1>4. \A m \in DOMAIN conv : WalletsOf(PrunedMint(conv[m])) # {} => m \in kept
  BY <1>2 DEF WalletsOf
<1> HIDE DEF all, kept
<1>5. PICK S \in SUBSET kept : c = Restricted(all, S) /\ (Cardinality(kept) <= MaxMints => S = kept)
  <2>1. CASE Cardinality(kept) <= MaxMints
    BY <1>1, <2>1
  <2>2. CASE ~(Cardinality(kept) <= MaxMints)
    <3> HIDE DEF half
    <3> QED
      BY <1>1, <2>2
  <2> QED
    BY <2>1, <2>2
<1>6. IsFcn(c) /\ DOMAIN c = S /\ \A m \in S : c[m] = PrunedMint(conv[m])
  <2>1. DOMAIN all \cap S = S
    BY <1>2, <1>3
  <2> QED
    BY <1>2, <1>3, <1>5, <2>1 DEF Restricted, IsFcn
<1>7. \A m \in DOMAIN conv : StateOK(PrunedMint(conv[m]))
  BY PrunedIs DEF ConvOK
<1>8. ConvOK(c)
  BY <1>3, <1>6, <1>7 DEF ConvOK
<1>9. Roomy => S = kept
  <2>1. IsFiniteSet(DOMAIN conv)
    BY GraphAssumption, FS_Subset DEF ConvOK
  <2>2. /\ IsFiniteSet(kept) /\ Cardinality(kept) <= Cardinality(DOMAIN conv)
        /\ Cardinality(kept) \in Nat /\ Cardinality(DOMAIN conv) \in Nat
    BY <1>3, <2>1, FS_Subset, FS_CardinalityType
  <2> QED
    BY <1>5, <2>2, GraphAssumption DEF Roomy
<1> QED
  BY <1>3, <1>4, <1>6, <1>8, <1>9

-----------------------------------------------------------------------------
(* The type of the state. *)

Kid == [parent : Wallets, until : Int]
Txs == [kind : Kinds, on : Mints] \cup [kind : {"fund"}, on : Wallets, at : Nat]

GraphIs ==
  /\ now \in Nat /\ parents \in SUBSET Wallets
  /\ IsFcn(children) /\ DOMAIN children \subseteq Wallets
  /\ \A w \in DOMAIN children : children[w] \in Kid
  /\ ConvOK(conv)

\* The page is a run of positions behind the cursor.
PageIs ==
  /\ page \in Seq(Nat)
  /\ IF page = <<>> THEN polling = None
     ELSE /\ polling \in parents
          /\ page[1] > cursor[polling]
          /\ \A k \in 1..Len(page) : /\ page[k] = page[1] + k - 1
                                     /\ page[k] <= Len(chain[polling])

LoopIs ==
  /\ chain \in [Wallets -> Seq(Txs)] /\ created \in SUBSET Mints
  /\ buys \in SUBSET (Wallets \X Mints \X Nat)
  /\ cursor \in [Wallets -> Nat]
  /\ \A p \in Wallets : cursor[p] <= Len(chain[p])
  /\ todo \in SUBSET parents
  /\ PageIs

PollIs == GraphIs /\ LoopIs

LEMMA WatchedIs ==
  ASSUME GraphIs
  PROVE  /\ IsFcn(Watched)
         /\ DOMAIN Watched = {w \in DOMAIN children : children[w].until >= now}
         /\ \A w \in DOMAIN Watched : Watched[w] = children[w]
<1> DEFINE S == {w \in DOMAIN children : children[w].until >= now}
<1>1. Watched = Restricted(children, S) /\ DOMAIN children \cap S = S
  BY DEF Watched
<1> HIDE DEF S
<1>2. /\ IsFcn(Watched) /\ DOMAIN Watched = S
      /\ \A w \in S : Watched[w] = children[w]
  BY <1>1 DEF Restricted, IsFcn
<1> QED
  BY <1>2 DEF S

\* One trade as the convergence sees it: c is what pruning left, s what the
\* trade made of it.
LEMMA TradeDoes ==
  ASSUME GraphIs, NEW w \in Wallets, NEW m \in Mints, NEW buy \in BOOLEAN,
         ObserveTrade(w, m, buy)
  PROVE  /\ \E c \in Prunings : \E s :
              /\ s = IF buy THEN Signalled(Touched(c, w, m, buy), m)
                     ELSE Touched(c, w, m, buy)
              /\ conv' = Marked(s) /\ snapshots' = snapshots \cup SnapshotsDue(s)
         /\ children' = Watched /\ UNCHANGED <<now, parents>>
  BY DEF ObserveTrade

LEMMA GraphKeeps ==
  ASSUME GraphIs
  PROVE  /\ \A w \in Wallets, m \in Mints : ObserveCreate(w, m) => GraphIs'
         /\ \A w \in Wallets, m \in Mints, buy \in BOOLEAN : ObserveTrade(w, m, buy) => GraphIs'
         /\ CollectDue => GraphIs'
         /\ \A w \in Wallets, p \in Wallets, t \in Nat : CacheChild(w, p, t) => GraphIs'
<1>1. ASSUME children' = Watched, UNCHANGED <<now, parents>>, ConvOK(conv')
      PROVE  GraphIs'
  BY <1>1, WatchedIs DEF GraphIs
<1>2. ASSUME NEW w \in Wallets, NEW m \in Mints, ObserveCreate(w, m)
      PROVE  GraphIs'
  BY <1>1, <1>2 DEF ObserveCreate, GraphIs
<1>3. ASSUME NEW w \in Wallets, NEW m \in Mints, NEW buy \in BOOLEAN,
             ObserveTrade(w, m, buy)
      PROVE  GraphIs'
  <2>1. PICK c \in Prunings : \E s :
              /\ s = IF buy THEN Signalled(Touched(c, w, m, buy), m)
                     ELSE Touched(c, w, m, buy)
              /\ conv' = Marked(s)
    BY <1>3, TradeDoes
  <2>2. ConvOK(c) /\ now \in Nat
    BY PruningsAre DEF GraphIs
  <2>3. ConvOK(Touched(c, w, m, buy))
    BY <2>2, TouchedIs
  <2>4. ConvOK(Signalled(Touched(c, w, m, buy), m))
    BY <2>2, <2>3, SignalledIs DEF Opened
  <2>5. ConvOK(conv')
    BY <2>1, <2>3, <2>4, MarkedIs
  <2> QED
    BY <1>1, <1>3, <2>5, TradeDoes
<1>4. ASSUME CollectDue
      PROVE  GraphIs'
  <2>1. PICK c \in Prunings : conv' = Marked(c)
    BY <1>4 DEF CollectDue
  <2>2. ConvOK(conv')
    BY <2>1, PruningsAre, MarkedIs DEF GraphIs
  <2> QED
    BY <1>4, <2>2 DEF CollectDue, GraphIs
<1>5. ASSUME NEW w \in Wallets, NEW p \in Wallets, NEW t \in Nat, CacheChild(w, p, t)
      PROVE  GraphIs'
  <2>1. [parent |-> p, until |-> t + ChildWatch] \in Kid
    BY GraphAssumption DEF Kid
  <2>2. /\ IsFcn(children') /\ DOMAIN children' = DOMAIN children \cup {w}
        /\ children'[w] = [parent |-> p, until |-> t + ChildWatch]
        /\ \A v \in DOMAIN children \ {w} : children'[v] = children[v]
    BY <1>5 DEF CacheChild, With, IsFcn
  <2>3. UNCHANGED <<now, parents, conv>>
    BY <1>5 DEF CacheChild
  <2> QED
    BY <2>1, <2>2, <2>3 DEF GraphIs
<1> QED
  BY <1>2, <1>3, <1>4, <1>5

LEMMA ObserveKeeps ==
  ASSUME GraphIs, NEW w \in Wallets, NEW m \in Mints, NEW kind \in Kinds,
         Observe(w, m, kind)
  PROVE  GraphIs' /\ UNCHANGED <<now, parents>>
<1>1. CASE kind = "create"
  <2>1. ObserveCreate(w, m)
    BY <1>1 DEF Observe
  <2> QED
    BY <2>1, GraphKeeps DEF ObserveCreate
<1>2. CASE kind # "create"
  <2> DEFINE buy == kind = "buy"
  <2>1. ObserveTrade(w, m, buy) /\ buy \in BOOLEAN
    BY <1>2 DEF Observe
  <2> HIDE DEF buy
  <2> QED
    BY <2>1, GraphKeeps DEF ObserveTrade
<1> QED
  BY <1>1, <1>2

LEMMA StillGraph ==
  ASSUME GraphIs, UNCHANGED graphVars
  PROVE  GraphIs' /\ UNCHANGED <<now, parents>>
  BY DEF GraphIs, graphVars

\* What happens on the chain lengthens one history at most.
Grown ==
  \/ chain' = chain
  \/ \E p \in Wallets, tx \in Txs : chain' = [chain EXCEPT ![p] = Append(chain[p], tx)]

LEMMA GrownIs ==
  ASSUME chain \in [Wallets -> Seq(Txs)], Grown
  PROVE  /\ chain' \in [Wallets -> Seq(Txs)]
         /\ \A p \in Wallets : /\ Len(chain[p]) <= Len(chain'[p])
                               /\ \A i \in 1..Len(chain[p]) : chain'[p][i] = chain[p][i]
<1>1. \A p \in Wallets : Len(chain[p]) \in Nat
  OBVIOUS
<1>2. CASE chain' = chain
  BY <1>1, <1>2
<1>3. CASE \E p \in Wallets, tx \in Txs : chain' = [chain EXCEPT ![p] = Append(chain[p], tx)]
  <2>1. PICK p \in Wallets, tx \in Txs : chain' = [chain EXCEPT ![p] = Append(chain[p], tx)]
    BY <1>3
  <2> DEFINE l == Append(chain[p], tx)
  <2>2. /\ l \in Seq(Txs) /\ Len(l) = Len(chain[p]) + 1
        /\ \A i \in 1..Len(chain[p]) : l[i] = chain[p][i]
    BY AppendProperties
  <2> HIDE DEF l
  <2>3. chain' = [chain EXCEPT ![p] = l]
    BY <2>1 DEF l
  <2> QED
    BY <1>1, <2>2, <2>3
<1> QED
  BY <1>2, <1>3 DEF Grown

\* A step outside the loop: a trade, a funding, the clock.
LEMMA OutsideKeeps ==
  ASSUME PollIs, GraphIs', parents' = parents, Grown, UNCHANGED Loop,
         created' \in SUBSET Mints, buys' \in SUBSET (Wallets \X Mints \X Nat)
  PROVE  PollIs'
<1>1. chain \in [Wallets -> Seq(Txs)] /\ cursor \in [Wallets -> Nat]
  BY DEF PollIs, LoopIs
<1>2. /\ chain' \in [Wallets -> Seq(Txs)]
      /\ \A p \in Wallets : Len(chain[p]) <= Len(chain'[p]) /\ Len(chain[p]) \in Nat
                            /\ Len(chain'[p]) \in Nat
  BY <1>1, GrownIs
<1>3. \A p \in Wallets : cursor'[p] <= Len(chain'[p])
  <2>1. \A p \in Wallets : cursor[p] <= Len(chain[p]) /\ cursor[p] \in Nat
    BY DEF PollIs, LoopIs
  <2> QED
    BY <1>2, <2>1 DEF Loop
<1>4. PageIs'
  <2>1. PageIs /\ page \in Seq(Nat) /\ parents \subseteq Wallets
    BY DEF PollIs, LoopIs, PageIs, GraphIs
  <2>2. CASE page = <<>>
    BY <2>1, <2>2 DEF PageIs, Loop
  <2>3. CASE page # <<>>
    <3>1. polling \in Wallets /\ \A k \in 1..Len(page) : page[k] <= Len(chain'[polling])
      <4>1. polling \in Wallets
        BY <2>1, <2>3 DEF PageIs
      <4>2. \A k \in 1..Len(page) : page[k] \in Nat /\ page[k] <= Len(chain[polling])
        BY <2>1, <2>3 DEF PageIs
      <4> QED
        BY <1>2, <4>1, <4>2
    <3> QED
      BY <2>1, <2>3, <3>1 DEF PageIs, Loop
  <2> QED
    BY <2>2, <2>3
<1> QED
  BY <1>2, <1>3, <1>4 DEF PollIs, LoopIs, Loop

LEMMA OnMintIs ==
  ASSUME PollIs, NEW w \in Wallets, NEW m \in Mints, NEW kind \in Kinds,
         OnMint(w, m, kind)
  PROVE  created' \in SUBSET Mints /\ buys' \in SUBSET (Wallets \X Mints \X Nat)
<1>1. <<w, m, now>> \in Wallets \X Mints \X Nat
  BY DEF PollIs, GraphIs
<1> QED
  BY <1>1 DEF OnMint, PollIs, LoopIs

LEMMA InitIs == Init => PollIs
<1> SUFFICES ASSUME Init PROVE PollIs
  OBVIOUS
<1>1. now = 0 /\ parents \in SUBSET Wallets
  BY PollAssumption DEF Init, GraphInit
<1>2. IsFcn(children) /\ DOMAIN children \subseteq Wallets
      /\ \A w \in DOMAIN children : children[w] \in Kid
  <2>1. PICK rows \in EarlierRows : children = Recalled(rows)
    BY DEF Init, GraphInit
  <2>2. \A w \in DOMAIN rows : /\ w \in Wallets /\ rows[w].parent \in Wallets
                               /\ rows[w].seen \in Int
    BY GraphAssumption
  <2> DEFINE W == {v \in DOMAIN rows : rows[v].seen >= -ChildWatch}
             k(w) == [parent |-> rows[w].parent, until |-> rows[w].seen + ChildWatch]
  <2>3. children = [w \in W |-> k(w)] /\ W \subseteq DOMAIN rows
    BY <2>1 DEF Recalled
  <2>4. \A w \in DOMAIN rows : k(w) \in Kid
    BY <2>2, GraphAssumption DEF Kid
  <2> HIDE DEF W, k
  <2> QED
    BY <2>2, <2>3, <2>4 DEF IsFcn
<1>3. ConvOK(conv)
  <2>1. conv = <<>>
    BY DEF Init, GraphInit
  <2>2. \A x \in {<<>>} : IsFcn(x) /\ DOMAIN x = {}
    BY DEF IsFcn
  <2> QED
    BY <2>1, <2>2 DEF ConvOK
<1>4. chain \in [Wallets -> Seq(Txs)] /\ cursor \in [Wallets -> Nat]
      /\ \A p \in Wallets : cursor[p] <= Len(chain[p])
  <2>1. <<>> \in Seq(Txs) /\ Len(<<>>) = 0
    OBVIOUS
  <2> QED
    BY <2>1 DEF Init
<1>5. PageIs
  BY DEF Init, PageIs
<1> QED
  BY <1>1, <1>2, <1>3, <1>4, <1>5 DEF Init, PollIs, GraphIs, LoopIs

\* The page of a parent, and what is left of it after one signature.
LEMMA FetchIs ==
  ASSUME PollIs, NEW p \in Wallets, Fetch(p)
  PROVE  /\ PageIs' /\ Oldest(p) \in Nat /\ Oldest(p) >= cursor[p]
         /\ page' # <<>> => page'[1] = Oldest(p) + 1 /\ polling' = p
<1> DEFINE o == Oldest(p)
           n == Latest(p) - o
<1>1. cursor[p] \in Nat /\ Len(chain[p]) \in Nat /\ cursor[p] <= Len(chain[p])
  BY DEF PollIs, LoopIs
<1>2. o \in Nat /\ o >= cursor[p] /\ n \in Nat /\ o + n = Len(chain[p])
  BY <1>1, PollAssumption DEF Oldest, Latest
<1>3. page' = [i \in 1..n |-> o + i]
  BY DEF Fetch, NewSignatures
<1> HIDE DEF o, n
<1>4. page' \in Seq(Nat) /\ Len(page') = n /\ \A i \in 1..n : page'[i] = o + i
  BY <1>2, <1>3
<1>5. CASE page' = <<>>
  BY <1>2, <1>4, <1>5 DEF PageIs, Fetch, o
<1>6. CASE page' # <<>>
  <2>1. n >= 1
    BY <1>2, <1>4, <1>6
  <2>2. page'[1] = o + 1
    BY <1>2, <1>4, <2>1
  <2>3. polling' = p /\ p \in parents'
    BY <1>6 DEF Fetch, PollIs, LoopIs, graphVars
  <2>4. UNCHANGED <<cursor, chain>>
    BY DEF Fetch, External
  <2>5. page'[1] > cursor[p]
    BY <1>1, <1>2, <2>2
  <2>6. \A k \in 1..n : page'[k] = page'[1] + k - 1 /\ page'[k] <= Len(chain[p])
    BY <1>1, <1>2, <1>4, <2>2
  <2> QED
    BY <1>2, <1>4, <1>6, <2>2, <2>3, <2>4, <2>5, <2>6 DEF PageIs, o
<1> QED
  BY <1>5, <1>6

\* One signature of the page is processed or passed over.
LEMMA ProcessIs ==
  ASSUME PollIs, ProcessNext
  PROVE  LET p == polling
             i == page[1]
         IN  /\ p \in parents /\ p \in Wallets /\ i \in Nat /\ i > cursor[p]
             /\ i <= Len(chain[p]) /\ i \in 1..Len(chain[p]) /\ chain[p][i] \in Txs
             /\ \/ Processed(p, chain[p][i]) /\ UNCHANGED lost
                \/ RpcMayFail /\ lost' = lost \cup {<<p, i>>} /\ UNCHANGED graphVars
             /\ page' # <<>> => /\ page'[1] = i + 1 /\ polling' = p /\ cursor' = cursor
             /\ page' = <<>> => /\ cursor'[p] = i
                                /\ \A q \in Wallets \ {p} : cursor'[q] = cursor[q]
             /\ cursor' \in [Wallets -> Nat]
             /\ page' \in Seq(Nat)
             /\ page' = <<>> => polling' = None
             /\ \A k \in 1..Len(page') : /\ page'[k] = page'[1] + k - 1
                                         /\ page'[k] <= Len(chain[p])
             /\ UNCHANGED <<todo, External>>
<1> DEFINE p == polling
           i == page[1]
<1>1. page \in Seq(Nat) /\ page # <<>>
  BY DEF PollIs, LoopIs, PageIs, ProcessNext
<1>2. /\ p \in parents /\ i > cursor[p]
      /\ \A k \in 1..Len(page) : page[k] = page[1] + k - 1 /\ page[k] <= Len(chain[p])
  BY <1>1 DEF PollIs, LoopIs, PageIs
<1>3. p \in Wallets /\ Len(page) \in Nat /\ Len(page) >= 1 /\ i \in Nat
  BY <1>1, <1>2 DEF PollIs, GraphIs
<1>4. cursor[p] \in Nat /\ chain[p] \in Seq(Txs) /\ cursor \in [Wallets -> Nat]
  BY <1>3 DEF PollIs, LoopIs
<1>5. i <= Len(chain[p]) /\ i \in 1..Len(chain[p]) /\ chain[p][i] \in Txs
  BY <1>2, <1>3, <1>4
<1>6. /\ Head(page) = i /\ Tail(page) \in Seq(Nat) /\ Len(Tail(page)) = Len(page) - 1
      /\ \A k \in 1..Len(Tail(page)) : Tail(page)[k] = page[k + 1]
  BY <1>1
<1>7. /\ \/ Processed(p, chain[p][i]) /\ UNCHANGED lost
         \/ RpcMayFail /\ lost' = lost \cup {<<p, i>>} /\ UNCHANGED graphVars
      /\ cursor' = [cursor EXCEPT ![p] = CursorAfter(p, Tail(page), i)]
      /\ page' = Tail(page) /\ polling' = (IF page' = <<>> THEN None ELSE p)
      /\ UNCHANGED <<todo, External>>
  BY <1>6 DEF ProcessNext
<1> DEFINE T == Tail(page)
<1>8. /\ T \in Seq(Nat) /\ Len(T) \in Nat
       /\ \A k \in 1..Len(T) : k + 1 \in 1..Len(page) /\ T[k] = page[k + 1]
  BY <1>3, <1>6
<1> HIDE DEF T
<1>9. \A k \in 1..Len(T) : T[k] = i + k /\ T[k] <= Len(chain[p])
  <2> SUFFICES ASSUME NEW k \in 1..Len(T) PROVE T[k] = i + k /\ T[k] <= Len(chain[p])
    OBVIOUS
  <2>1. page[k + 1] = page[1] + (k + 1) - 1 /\ page[k + 1] <= Len(chain[p])
    BY <1>2, <1>8
  <2> QED
    BY <1>3, <1>8, <2>1
<1>10. T # <<>> => Len(T) >= 1 /\ T[1] = i + 1
  BY <1>3, <1>8, <1>9
<1>11. \A k \in 1..Len(T) : T[k] = T[1] + k - 1
  <2> SUFFICES ASSUME NEW k \in 1..Len(T) PROVE T[k] = T[1] + k - 1
    OBVIOUS
  <2>1. T[k] = i + k /\ T[1] = i + 1
    BY <1>8, <1>9, <1>10
  <2> QED
    BY <1>3, <2>1
<1>12. page' = T
  BY <1>7 DEF T
<1>13. \A k \in 1..Len(page') : page'[k] <= Len(chain[p])
  BY <1>9, <1>12
<1>14. page' # <<>> => Len(page') >= 1 /\ page'[1] = i + 1
  BY <1>10, <1>12
<1>15. \A k \in 1..Len(page') : page'[k] = page'[1] + k - 1
  BY <1>11, <1>12
<1>16. /\ page' # <<>> => cursor' = cursor
       /\ page' = <<>> => /\ cursor'[p] = i
                          /\ \A q \in Wallets \ {p} : cursor'[q] = cursor[q]
       /\ cursor' \in [Wallets -> Nat]
  BY <1>3, <1>4, <1>7 DEF CursorAfter
<1> QED
  BY <1>2, <1>3, <1>5, <1>6, <1>7, <1>13, <1>14, <1>15, <1>16

LEMMA PollNext ==
  ASSUME PollIs, Next
  PROVE  PollIs'
<1>1. ASSUME NEW p \in parents, NEW m \in Mints, NEW kind \in Kinds, ParentTrades(p, m, kind)
      PROVE  PollIs'
  <2>1. p \in Wallets
    BY DEF PollIs, GraphIs
  <2>2. GraphIs' /\ parents' = parents
    BY <1>1, <2>1, ObserveKeeps, StillGraph DEF ParentTrades, PollIs
  <2>3. Grown
    <3>1. [kind |-> kind, on |-> m] \in Txs
      BY DEF Txs
    <3>2. chain' = [chain EXCEPT ![p] = Append(chain[p], [kind |-> kind, on |-> m])]
      BY <1>1 DEF ParentTrades
    <3> QED
      BY <2>1, <3>1, <3>2 DEF Grown
  <2>4. created' \in SUBSET Mints /\ buys' \in SUBSET (Wallets \X Mints \X Nat)
    BY <1>1, <2>1, OnMintIs DEF ParentTrades
  <2> QED
    BY <1>1, <2>2, <2>3, <2>4, OutsideKeeps DEF ParentTrades
<1>2. ASSUME NEW p \in parents, NEW w \in Wallets, ParentFunds(p, w)
      PROVE  PollIs'
  <2>1. p \in Wallets /\ now \in Nat
    BY DEF PollIs, GraphIs
  <2>2. GraphIs' /\ parents' = parents
    BY <1>2, StillGraph DEF ParentFunds, PollIs
  <2>3. Grown
    <3>1. [kind |-> "fund", on |-> w, at |-> now] \in Txs
      BY <2>1 DEF Txs
    <3>2. chain' = [chain EXCEPT ![p] =
                      Append(chain[p], [kind |-> "fund", on |-> w, at |-> now])]
      BY <1>2 DEF ParentFunds
    <3> QED
      BY <2>1, <3>1, <3>2 DEF Grown
  <2>4. created' \in SUBSET Mints /\ buys' \in SUBSET (Wallets \X Mints \X Nat)
    BY <1>2 DEF ParentFunds, PollIs, LoopIs
  <2> QED
    BY <1>2, <2>2, <2>3, <2>4, OutsideKeeps DEF ParentFunds
<1>3. ASSUME NEW w \in Wallets, NEW m \in Mints, NEW kind \in Kinds, ChildTrades(w, m, kind)
      PROVE  PollIs'
  <2>1. GraphIs' /\ parents' = parents
    BY <1>3, ObserveKeeps DEF ChildTrades, PollIs
  <2>2. created' \in SUBSET Mints /\ buys' \in SUBSET (Wallets \X Mints \X Nat)
    BY <1>3, OnMintIs DEF ChildTrades
  <2> QED
    BY <1>3, <2>1, <2>2, OutsideKeeps DEF ChildTrades, Grown
<1>4. CASE Tick
  <2>1. GraphIs' /\ parents' = parents
    BY <1>4 DEF Tick, PollIs, GraphIs
  <2> QED
    BY <1>4, <2>1, OutsideKeeps DEF Tick, Grown, Loop, pollVars, PollIs, LoopIs
<1>5. CASE Reload
  <2>1. PICK rows \in Rosters : ReloadRoster(rows) /\ todo' = rows
    BY <1>5 DEF Reload
  <2>2. rows \in SUBSET Wallets
    BY PollAssumption
  <2>3. GraphIs'
    BY <2>1, <2>2 DEF ReloadRoster, PollIs, GraphIs
  <2>4. parents' = rows /\ UNCHANGED <<cursor, polling, page, chain, created, buys>>
    BY <1>5, <2>1 DEF Reload, ReloadRoster, External
  <2>5. page = <<>> /\ polling = None
    BY <1>5, GraphAssumption DEF Reload, PollIs, LoopIs, PageIs, GraphIs
  <2>6. PageIs'
    BY <2>4, <2>5 DEF PageIs, PollIs, LoopIs
  <2> QED
    BY <2>1, <2>3, <2>4, <2>6 DEF PollIs, LoopIs
<1>6. ASSUME NEW p \in Wallets, Fetch(p)
      PROVE  PollIs'
  <2>1. GraphIs' /\ parents' = parents
    BY <1>6, StillGraph DEF Fetch, PollIs
  <2>2. PageIs'
    BY <1>6, FetchIs
  <2> QED
    BY <1>6, <2>1, <2>2 DEF Fetch, External, PollIs, LoopIs
<1>7. CASE FetchFails
  <2>1. GraphIs' /\ parents' = parents
    BY <1>7, StillGraph DEF FetchFails, PollIs
  <2>2. PageIs'
    BY <1>7, <2>1 DEF FetchFails, External, PollIs, LoopIs, PageIs
  <2> QED
    BY <1>7, <2>1, <2>2 DEF FetchFails, External, PollIs, LoopIs
<1>8. CASE ProcessNext
  <2> DEFINE p == polling
             i == page[1]
  <2>1. /\ p \in parents /\ p \in Wallets /\ i \in Nat /\ i > cursor[p]
        /\ i <= Len(chain[p]) /\ chain[p][i] \in Txs
        /\ \/ Processed(p, chain[p][i])
           \/ UNCHANGED graphVars
    BY <1>8, ProcessIs
  <2>2. GraphIs' /\ parents' = parents
    <3>1. CASE UNCHANGED graphVars
      BY <3>1, StillGraph DEF PollIs
    <3>2. CASE Processed(p, chain[p][i])
      <4> DEFINE tx == chain[p][i]
      <4>1. tx \in Txs /\ p \in Wallets
        BY <2>1
      <4> HIDE DEF tx
      <4>2. CASE tx.kind # "fund" /\ Observe(p, tx.on, tx.kind)
        <5>1. tx.kind \in Kinds /\ tx.on \in Mints
          BY <4>1, <4>2 DEF Txs
        <5> QED
          BY <4>1, <4>2, <5>1, ObserveKeeps DEF PollIs
      <4>3. CASE tx.kind = "fund" /\ tx.on \in Fresh /\ CacheChild(tx.on, p, tx.at)
        <5>1. tx.on \in Wallets /\ tx.at \in Nat
          BY <4>1, <4>3 DEF Txs, Kinds
        <5> QED
          BY <4>1, <4>3, <5>1, GraphKeeps DEF PollIs, CacheChild
      <4>4. CASE UNCHANGED graphVars
        BY <4>4, StillGraph DEF PollIs
      <4> QED
        BY <3>2, <4>2, <4>3, <4>4 DEF Processed, tx
    <3> QED
      BY <2>1, <3>1, <3>2
  <2>3. /\ page' # <<>> => /\ page'[1] = i + 1 /\ polling' = p /\ cursor' = cursor
        /\ page' = <<>> => /\ cursor'[p] = i
                           /\ \A q \in Wallets \ {p} : cursor'[q] = cursor[q]
        /\ cursor' \in [Wallets -> Nat]
        /\ page' \in Seq(Nat)
        /\ page' = <<>> => polling' = None
        /\ \A k \in 1..Len(page') : /\ page'[k] = page'[1] + k - 1
                                    /\ page'[k] <= Len(chain[p])
        /\ UNCHANGED <<todo, External>>
    BY <1>8, ProcessIs
  <2> HIDE DEF p, i
  <2>4. UNCHANGED <<todo, chain, created, buys>>
    BY <2>3 DEF External
  <2>5. cursor[p] \in Nat
    BY <2>1 DEF PollIs, LoopIs
  <2>6. PageIs'
    <3>1. CASE page' = <<>>
      BY <2>3, <3>1 DEF PageIs
    <3>2. CASE page' # <<>>
      <4>1. page'[1] > cursor'[p] /\ polling' = p /\ p \in parents'
        BY <2>1, <2>2, <2>3, <2>5, <3>2
      <4> QED
        BY <2>3, <2>4, <3>2, <4>1 DEF PageIs
    <3> QED
      BY <3>1, <3>2
  <2>7. \A q \in Wallets : cursor'[q] <= Len(chain'[q])
    <3>1. \A q \in Wallets : cursor[q] <= Len(chain[q])
      BY DEF PollIs, LoopIs
    <3> QED
      BY <2>1, <2>3, <2>4, <3>1
  <2> QED
    BY <2>2, <2>3, <2>4, <2>6, <2>7 DEF PollIs, LoopIs
<1>9. CASE EndTurn
  <2>1. GraphIs' /\ parents' = parents
    BY <1>9, GraphKeeps DEF EndTurn, PollIs, CollectDue
  <2>2. PageIs'
    BY <1>9, <2>1 DEF EndTurn, External, PollIs, LoopIs, PageIs
  <2> QED
    BY <1>9, <2>1, <2>2 DEF EndTurn, External, PollIs, LoopIs
<1> QED
  BY <1>1, <1>2, <1>3, <1>4, <1>5, <1>6, <1>7, <1>8, <1>9 DEF Next

\* The graph and the loop keep their types, and a page is always a run of
\* signatures behind the cursor of its parent.
THEOREM PollTyped == Spec => []PollIs
<1>1. PollIs /\ UNCHANGED vars => PollIs'
  BY DEF PollIs, GraphIs, LoopIs, PageIs, vars, graphVars, pollVars
<1>2. PollIs /\ [Next]_vars => PollIs'
  BY <1>1, PollNext
<1> QED
  BY <1>2, InitIs, PTL DEF Spec

-----------------------------------------------------------------------------
(* What one step of the system is for the graph. *)

\* The watch list of a step: as it was, pruned, or longer by a funded wallet.
WatchStep ==
  \/ children' = children
  \/ children' = Watched
  \/ \E p \in Wallets : \E i \in 1..Len(chain[p]) :
       /\ chain[p][i].kind = "fund" /\ chain[p][i].on \in Fresh
       /\ CacheChild(chain[p][i].on, p, chain[p][i].at)

RosterStep == parents' = parents \/ parents' \in Rosters

LEMMA ObserveWatches ==
  ASSUME NEW w, NEW m, NEW kind, Observe(w, m, kind)
  PROVE  children' = Watched
  BY DEF Observe, ObserveCreate, ObserveTrade

LEMMA WatchSteps ==
  ASSUME PollIs, Next
  PROVE  WatchStep /\ RosterStep /\ Grown /\ now' \in Nat /\ now' >= now
<1>1. now' \in Nat
  BY PollNext DEF PollIs, GraphIs
<1>2. now \in Nat /\ parents \subseteq Wallets
  BY DEF PollIs, GraphIs
<1>3. ASSUME NEW p \in parents, NEW m \in Mints, NEW kind \in Kinds, ParentTrades(p, m, kind)
      PROVE  WatchStep /\ RosterStep /\ Grown /\ now' = now
  <2>1. Grown
    <3>1. [kind |-> kind, on |-> m] \in Txs
      BY DEF Txs
    <3>2. chain' = [chain EXCEPT ![p] = Append(chain[p], [kind |-> kind, on |-> m])]
      BY <1>3 DEF ParentTrades
    <3> QED
      BY <1>2, <3>1, <3>2 DEF Grown
  <2>2. CASE Observe(p, m, kind)
    BY <1>2, <2>1, <2>2, ObserveWatches, ObserveKeeps DEF WatchStep, RosterStep, PollIs
  <2>3. CASE UNCHANGED graphVars
    BY <2>1, <2>3 DEF WatchStep, RosterStep, graphVars
  <2> QED
    BY <1>3, <2>2, <2>3 DEF ParentTrades
<1>4. ASSUME NEW p \in parents, NEW w \in Wallets, ParentFunds(p, w)
      PROVE  WatchStep /\ RosterStep /\ Grown /\ now' = now
  <2>1. [kind |-> "fund", on |-> w, at |-> now] \in Txs
    BY <1>2 DEF Txs
  <2>2. chain' = [chain EXCEPT ![p] =
                    Append(chain[p], [kind |-> "fund", on |-> w, at |-> now])]
    BY <1>4 DEF ParentFunds
  <2> QED
    BY <1>2, <1>4, <2>1, <2>2 DEF Grown, WatchStep, RosterStep, ParentFunds, graphVars
<1>5. ASSUME NEW w \in Wallets, NEW m \in Mints, NEW kind \in Kinds, ChildTrades(w, m, kind)
      PROVE  WatchStep /\ RosterStep /\ Grown /\ now' = now
  BY <1>5, ObserveWatches, ObserveKeeps DEF ChildTrades, WatchStep, RosterStep, Grown, PollIs
<1>6. CASE Tick
  BY <1>2, <1>6 DEF Tick, WatchStep, RosterStep, Grown, pollVars
<1>7. CASE Reload
  BY <1>1, <1>2, <1>7 DEF Reload, ReloadRoster, WatchStep, RosterStep, Grown, External
<1>8. ASSUME NEW p \in Wallets, Fetch(p)
      PROVE  WatchStep /\ RosterStep /\ Grown /\ now' = now
  BY <1>8 DEF Fetch, WatchStep, RosterStep, Grown, External, graphVars
<1>9. CASE FetchFails
  BY <1>1, <1>2, <1>9 DEF FetchFails, WatchStep, RosterStep, Grown, External, graphVars
<1>10. CASE ProcessNext
  <2> DEFINE p == polling
             i == page[1]
             tx == chain[p][i]
  <2>1. /\ p \in Wallets /\ i \in 1..Len(chain[p]) /\ tx \in Txs
        /\ Processed(p, tx) \/ UNCHANGED graphVars
        /\ UNCHANGED External
    BY <1>10, ProcessIs
  <2>2. Grown
    BY <2>1 DEF Grown, External
  <2>3. CASE UNCHANGED graphVars
    BY <1>1, <1>2, <2>2, <2>3 DEF WatchStep, RosterStep, graphVars
  <2>4. CASE tx.kind # "fund" /\ Observe(p, tx.on, tx.kind)
    <3> HIDE DEF tx, p
    <3>1. tx.kind \in Kinds /\ tx.on \in Mints
      BY <2>1, <2>4 DEF Txs
    <3> QED
      BY <1>1, <1>2, <2>1, <2>2, <2>4, <3>1, ObserveWatches, ObserveKeeps DEF WatchStep, RosterStep, PollIs
  <2>5. CASE tx.kind = "fund" /\ tx.on \in Fresh /\ CacheChild(tx.on, p, tx.at)
    <3>1. WatchStep
      BY <2>1, <2>5 DEF WatchStep
    <3> QED
      BY <1>1, <1>2, <2>2, <2>5, <3>1 DEF CacheChild, RosterStep
  <2> QED
    BY <1>2, <2>1, <2>2, <2>3, <2>4, <2>5 DEF Processed
<1>11. CASE EndTurn
  BY <1>1, <1>2, <1>11 DEF EndTurn, CollectDue, WatchStep, RosterStep, Grown, External
<1> QED
  BY <1>1, <1>2, <1>3, <1>4, <1>5, <1>6, <1>7, <1>8, <1>9, <1>10, <1>11 DEF Next

-----------------------------------------------------------------------------
(* Behind the cursor every funding was handled. *)

\* The wallet is watched as long as one of its fundings says.
Watching(w) ==
  /\ w \in DOMAIN children
  /\ \E q \in Wallets : \E j \in 1..Len(chain[q]) :
       /\ chain[q][j].kind = "fund" /\ chain[q][j].on = w
       /\ children[w].until = chain[q][j].at + ChildWatch

SeenTo(w) == Watching(w) \/ WatchRanOut(w)

Handled(p, i) ==
  (chain[p][i].kind = "fund" /\ chain[p][i].on \in Fresh /\ <<p, i>> \notin lost)
    => SeenTo(chain[p][i].on)

\* How far the transactions of p were read: the page of p is read from its head.
ReadTo(p) == IF page # <<>> /\ polling = p THEN page[1] - 1 ELSE cursor[p]

AllRead == \A p \in Wallets : \A i \in 1..ReadTo(p) : Handled(p, i)

LEMMA SeenStays ==
  ASSUME PollIs, WatchStep, Grown, now' \in Nat, now' >= now, NEW w, SeenTo(w)
  PROVE  SeenTo(w)'
<1>1. /\ chain \in [Wallets -> Seq(Txs)] /\ now \in Nat
      /\ \A v \in DOMAIN children : children[v].until \in Int
      /\ ChildWatch \in Nat
  BY GraphAssumption DEF PollIs, LoopIs, GraphIs, Kid
<1>2. \A q \in Wallets : \A j \in 1..Len(chain[q]) :
        j \in 1..Len(chain'[q]) /\ chain'[q][j] = chain[q][j]
  <2>1. \A q \in Wallets : /\ Len(chain[q]) <= Len(chain'[q])
                           /\ \A j \in 1..Len(chain[q]) : chain'[q][j] = chain[q][j]
                           /\ Len(chain[q]) \in Nat /\ Len(chain'[q]) \in Nat
    BY <1>1, GrownIs
  <2> QED
    BY <2>1
<1>3. ASSUME NEW q \in Wallets, NEW j \in 1..Len(chain[q]), chain[q][j].kind = "fund"
      PROVE  chain[q][j].at \in Nat
  <2>1. chain[q][j] \in Txs
    BY <1>1
  <2> QED
    BY <1>3, <2>1 DEF Txs, Kinds
<1>4. CASE WatchRanOut(w)
  <2>1. PICK q \in Wallets : \E j \in 1..Len(chain[q]) :
               /\ chain[q][j].kind = "fund" /\ chain[q][j].on = w
               /\ now > chain[q][j].at + ChildWatch
    BY <1>4 DEF WatchRanOut, Latest
  <2>2. PICK j \in 1..Len(chain[q]) :
               /\ chain[q][j].kind = "fund" /\ chain[q][j].on = w
               /\ now > chain[q][j].at + ChildWatch
    BY <2>1
  <2>3. now' > chain'[q][j].at + ChildWatch /\ j \in 1..Len(chain'[q])
        /\ chain'[q][j].kind = "fund" /\ chain'[q][j].on = w
    BY <1>1, <1>2, <1>3, <2>2
  <2>4. WatchRanOut(w)'
    BY <2>3 DEF WatchRanOut, Latest
  <2> QED
    BY <2>4 DEF SeenTo
<1>5. CASE Watching(w)
  <2>1. PICK q \in Wallets : \E j \in 1..Len(chain[q]) :
               /\ chain[q][j].kind = "fund" /\ chain[q][j].on = w
               /\ children[w].until = chain[q][j].at + ChildWatch
    BY <1>5 DEF Watching
  <2>2. PICK j \in 1..Len(chain[q]) :
               /\ chain[q][j].kind = "fund" /\ chain[q][j].on = w
               /\ children[w].until = chain[q][j].at + ChildWatch
    BY <2>1
  <2>3. /\ w \in DOMAIN children /\ j \in 1..Len(chain'[q])
        /\ chain'[q][j].kind = "fund" /\ chain'[q][j].on = w
        /\ chain'[q][j].at = chain[q][j].at /\ chain[q][j].at \in Nat
    BY <1>2, <1>3, <1>5, <2>2 DEF Watching
  <2>4. ASSUME w \in DOMAIN children', children'[w] = children[w]
        PROVE  Watching(w)'
    BY <2>2, <2>3, <2>4 DEF Watching
  <2>5. CASE children' = children
    BY <2>3, <2>4, <2>5 DEF SeenTo
  <2>6. CASE children' = Watched
    <3>1. GraphIs
      BY DEF PollIs
    <3>2. CASE children[w].until >= now
      BY <2>3, <2>4, <2>6, <3>1, <3>2, WatchedIs DEF SeenTo
    <3>3. CASE ~(children[w].until >= now)
      <4>1. now' > chain'[q][j].at + ChildWatch
        BY <1>1, <2>2, <2>3, <3>3
      <4>2. WatchRanOut(w)'
        BY <2>3, <4>1 DEF WatchRanOut, Latest
      <4> QED
        BY <4>2 DEF SeenTo
    <3> QED
      BY <3>2, <3>3
  <2>7. CASE \E p \in Wallets : \E i \in 1..Len(chain[p]) :
               /\ chain[p][i].kind = "fund" /\ chain[p][i].on \in Fresh
               /\ CacheChild(chain[p][i].on, p, chain[p][i].at)
    <3>1. PICK p \in Wallets : \E i \in 1..Len(chain[p]) :
                 /\ chain[p][i].kind = "fund"
                 /\ CacheChild(chain[p][i].on, p, chain[p][i].at)
      BY <2>7
    <3>2. PICK i \in 1..Len(chain[p]) :
                 /\ chain[p][i].kind = "fund"
                 /\ CacheChild(chain[p][i].on, p, chain[p][i].at)
      BY <3>1
    <3> DEFINE k == [parent |-> p, until |-> chain[p][i].at + ChildWatch]
    <3>3. children' = With(children, chain[p][i].on, k)
      BY <3>2 DEF CacheChild
    <3>4. k.until = chain[p][i].at + ChildWatch
      OBVIOUS
    <3> HIDE DEF k
    <3>5. CASE chain[p][i].on = w
      <4>1. w \in DOMAIN children' /\ children'[w].until = chain'[p][i].at + ChildWatch
        BY <1>2, <3>3, <3>4, <3>5 DEF With
      <4>2. /\ i \in 1..Len(chain'[p]) /\ chain'[p][i].kind = "fund"
            /\ chain'[p][i].on = w
        BY <1>2, <3>2, <3>5
      <4>3. Watching(w)'
        BY <4>1, <4>2 DEF Watching
      <4> QED
        BY <4>3 DEF SeenTo
    <3>6. CASE chain[p][i].on # w
      BY <2>3, <2>4, <3>3, <3>6 DEF With, SeenTo
    <3> QED
      BY <3>5, <3>6
  <2> QED
    BY <2>5, <2>6, <2>7 DEF WatchStep
<1> QED
  BY <1>4, <1>5 DEF SeenTo

LEMMA HandledStays ==
  ASSUME PollIs, Next, NEW p \in Wallets, NEW i \in 1..Len(chain[p]), Handled(p, i),
         lost \subseteq lost'
  PROVE  Handled(p, i)'
<1>1. chain'[p][i] = chain[p][i]
  BY WatchSteps, GrownIs DEF PollIs, LoopIs
<1>2. CASE ~(chain[p][i].kind = "fund" /\ chain[p][i].on \in Fresh /\ <<p, i>> \notin lost)
  BY <1>1, <1>2 DEF Handled
<1>3. CASE SeenTo(chain[p][i].on)
  <2>1. PICK w : w = chain[p][i].on
    OBVIOUS
  <2>2. SeenTo(w)'
    BY <1>3, <2>1, SeenStays, WatchSteps
  <2> QED
    BY <1>1, <2>1, <2>2 DEF Handled
<1> QED
  BY <1>2, <1>3 DEF Handled

LEMMA ReadIs ==
  ASSUME PollIs, NEW p \in Wallets
  PROVE  ReadTo(p) \in Nat /\ ReadTo(p) <= Len(chain[p]) /\ Len(chain[p]) \in Nat
<1>1. cursor[p] \in Nat /\ cursor[p] <= Len(chain[p]) /\ Len(chain[p]) \in Nat
  BY DEF PollIs, LoopIs
<1>2. CASE page # <<>> /\ polling = p
  <2>1. page \in Seq(Nat) /\ page[1] > cursor[p] /\ Len(page) >= 1
    BY <1>2 DEF PollIs, LoopIs, PageIs
  <2>2. page[1] <= Len(chain[p]) /\ page[1] \in Nat
    BY <1>2, <2>1 DEF PollIs, LoopIs, PageIs
  <2> QED
    BY <1>1, <1>2, <2>1, <2>2 DEF ReadTo
<1> QED
  BY <1>1, <1>2 DEF ReadTo

\* Only the loop moves the place it has read to.
LEMMA ReadStays ==
  ASSUME PollIs, Next, AllRead, UNCHANGED <<cursor, page, polling, lost>>
  PROVE  AllRead'
<1> SUFFICES ASSUME NEW p \in Wallets, NEW i \in 1..ReadTo(p)'
             PROVE  Handled(p, i)'
  BY DEF AllRead
<1>1. i \in 1..ReadTo(p)
  BY DEF ReadTo
<1>2. i \in 1..Len(chain[p])
  BY <1>1, ReadIs
<1> QED
  BY <1>1, <1>2, HandledStays DEF AllRead

LEMMA ReadNext ==
  ASSUME PollIs, Next, AllRead
  PROVE  AllRead'
<1>1. CASE UNCHANGED <<cursor, page, polling, lost>>
  BY <1>1, ReadStays
<1>2. ASSUME NEW p \in Wallets, Fetch(p)
      PROVE  AllRead'
  <2> DEFINE o == Oldest(p)
  <2>1. /\ o \in Nat /\ o >= cursor[p] /\ cursor[p] \in Nat
        /\ page' # <<>> => page'[1] = o + 1 /\ polling' = p
    BY <1>2, FetchIs DEF PollIs, LoopIs
  <2>2. /\ polling = None /\ UNCHANGED <<cursor, chain>>
        /\ lost' = lost \cup {<<p, i>> : i \in (cursor[p] + 1)..o}
    BY <1>2 DEF Fetch, External
  <2>3. page = <<>>
    BY <2>2, GraphAssumption DEF PollIs, LoopIs, PageIs, GraphIs
  <2>4. o <= Len(chain[p]) /\ Len(chain[p]) \in Nat
    <3>1. cursor[p] <= Len(chain[p]) /\ Len(chain[p]) \in Nat
      BY DEF PollIs, LoopIs
    <3> QED
      BY <2>1, <3>1, PollAssumption DEF Oldest, Latest
  <2> HIDE DEF o
  <2> SUFFICES ASSUME NEW q \in Wallets, NEW i \in 1..ReadTo(q)'
               PROVE  Handled(q, i)'
    BY DEF AllRead
  <2>5. CASE i \in 1..cursor[q]
    <3>1. i \in 1..ReadTo(q) /\ i \in 1..Len(chain[q])
      BY <2>3, <2>5, ReadIs DEF ReadTo
    <3> QED
      BY <2>2, <3>1, HandledStays DEF AllRead
  <2>6. CASE i \notin 1..cursor[q]
    <3>1. page' # <<>> /\ q = p
      BY <2>1, <2>2, <2>6 DEF ReadTo
    <3>2. ReadTo(p)' = o
      BY <2>1, <3>1 DEF ReadTo
    <3>3. i \in (cursor[p] + 1)..o
      BY <2>1, <2>6, <3>1, <3>2
    <3>4. <<p, i>> \in lost'
      BY <2>2, <3>3
    <3> QED
      BY <3>1, <3>4 DEF Handled
  <2> QED
    BY <2>5, <2>6
<1>3. CASE ProcessNext
  <2>1. PICK p \in Wallets, i \in Nat :
        /\ p = polling /\ i = page[1]
        /\ i \in 1..Len(chain[p]) /\ chain[p][i] \in Txs
        /\ \/ Processed(p, chain[p][i]) /\ UNCHANGED lost
           \/ lost' = lost \cup {<<p, i>>}
        /\ page' # <<>> => page'[1] = i + 1 /\ polling' = p /\ cursor' = cursor
        /\ page' = <<>> => /\ cursor'[p] = i
                           /\ \A q \in Wallets \ {p} : cursor'[q] = cursor[q]
        /\ UNCHANGED chain
    BY <1>3, ProcessIs DEF External
  <2>2. page # <<>>
    BY <1>3 DEF ProcessNext
  <2>3. ReadTo(p)' = i /\ ReadTo(p) = i - 1
    BY <2>1, <2>2 DEF ReadTo
  <2>4. \A q \in Wallets : q # p => ReadTo(q)' = ReadTo(q)
    <3> SUFFICES ASSUME NEW q \in Wallets, q # p PROVE ReadTo(q)' = ReadTo(q)
      OBVIOUS
    <3>1. ReadTo(q) = cursor[q] /\ cursor'[q] = cursor[q]
      BY <2>1, <2>2 DEF ReadTo
    <3>2. ReadTo(q)' = cursor'[q]
      BY <2>1 DEF ReadTo
    <3> QED
      BY <3>1, <3>2
  <2>5. lost \subseteq lost'
    BY <2>1
  <2> SUFFICES ASSUME NEW q \in Wallets, NEW j \in 1..ReadTo(q)'
               PROVE  Handled(q, j)'
    BY DEF AllRead
  <2>6. CASE j \in 1..ReadTo(q)
    <3>1. j \in 1..Len(chain[q])
      BY <2>6, ReadIs
    <3> QED
      BY <2>5, <2>6, <3>1, HandledStays DEF AllRead
  <2>7. CASE j \notin 1..ReadTo(q)
    <3>1. q = p /\ j = i
      <4>1. q = p
        BY <2>4, <2>7
      <4>2. j \in 1..i
        BY <2>3, <4>1
      <4> QED
        BY <2>1, <2>3, <2>7, <4>1, <4>2
    <3>2. CASE <<p, i>> \in lost'
      BY <3>1, <3>2 DEF Handled
    <3>3. CASE <<p, i>> \notin lost' /\ chain[p][i].kind = "fund" /\ chain[p][i].on \in Fresh
      <4>1. Processed(p, chain[p][i])
        BY <2>1, <3>3
      <4>2. CacheChild(chain[p][i].on, p, chain[p][i].at)
        BY <3>3, <4>1 DEF Processed
      <4> DEFINE k == [parent |-> p, until |-> chain[p][i].at + ChildWatch]
      <4>3. PICK w : w = chain[p][i].on
        OBVIOUS
      <4>4. children' = With(children, w, k) /\ k.until = chain[p][i].at + ChildWatch
        BY <4>2, <4>3 DEF CacheChild
      <4>5. w \in DOMAIN children' /\ children'[w] = k
        BY <4>4 DEF With
      <4>6. /\ i \in 1..Len(chain'[p]) /\ chain'[p][i].kind = "fund"
            /\ chain'[p][i].on = w /\ children'[w].until = chain'[p][i].at + ChildWatch
        BY <2>1, <3>3, <4>3, <4>4, <4>5
      <4> HIDE DEF k
      <4>7. Watching(w)'
        BY <2>1, <4>5, <4>6 DEF Watching
      <4> QED
        BY <2>1, <3>1, <4>6, <4>7 DEF Handled, SeenTo
    <3>4. CASE ~(chain[p][i].kind = "fund" /\ chain[p][i].on \in Fresh)
      BY <2>1, <3>1, <3>4 DEF Handled
    <3> QED
      BY <3>2, <3>3, <3>4
  <2> QED
    BY <2>6, <2>7
<1> QED
  BY <1>1, <1>2, <1>3
     DEF Next, ParentTrades, ParentFunds, ChildTrades, Tick, Reload, FetchFails,
         EndTurn, Loop, pollVars

\* Behind the cursor no funding of a fresh wallet was passed over, for any
\* number of parents, pages, failed requests and fundings in between.
THEOREM PollSkipsNothing == Spec => []NothingSkipped
<1>1. Init => AllRead
  BY DEF Init, AllRead, ReadTo
<1>2. PollIs /\ AllRead /\ [Next]_vars => AllRead'
  <2>1. PollIs /\ AllRead /\ UNCHANGED vars => AllRead'
    BY DEF AllRead, ReadTo, Handled, SeenTo, Watching, WatchRanOut, Latest,
           vars, graphVars, pollVars
  <2> QED
    BY <2>1, ReadNext
<1>3. PollIs /\ AllRead => NothingSkipped
  <2> SUFFICES ASSUME PollIs, AllRead, NEW p \in Wallets, NEW i \in 1..cursor[p]
               PROVE  (chain[p][i].kind = "fund" /\ chain[p][i].on \in Fresh
                         /\ <<p, i>> \notin lost)
                        => \/ chain[p][i].on \in DOMAIN children
                           \/ WatchRanOut(chain[p][i].on)
    BY DEF NothingSkipped
  <2>1. cursor[p] \in Nat
    BY DEF PollIs, LoopIs
  <2>2. CASE page # <<>> /\ polling = p
    <3>1. page[1] > cursor[p] /\ page[1] \in Nat
      BY <2>2 DEF PollIs, LoopIs, PageIs
    <3>2. i \in 1..ReadTo(p)
      BY <2>1, <2>2, <3>1 DEF ReadTo
    <3> QED
      BY <3>2 DEF AllRead, Handled, SeenTo, Watching
  <2>3. CASE ~(page # <<>> /\ polling = p)
    BY <2>3 DEF AllRead, ReadTo, Handled, SeenTo, Watching
  <2> QED
    BY <2>2, <2>3
<1> QED
  BY <1>1, <1>2, <1>3, PollTyped, PTL DEF Spec

-----------------------------------------------------------------------------
(* The steps by what they do to the chain, the buys and the graph. *)

\* The chain tells of a trade by p.
OnChain(p, m, kind) ==
  \E i \in 1..Len(chain[p]) : chain[p][i].kind = kind /\ chain[p][i].on = m

\* A trade that happens: the socket tells of it, and the chain, if a parent's.
TradeStep(w, m, kind) ==
  /\ OnMint(w, m, kind)
  /\ Observe(w, m, kind) \/ (SocketMayMiss /\ UNCHANGED graphVars)
  /\ \A p \in Wallets, n \in Mints, k \in Kinds :
       OnChain(p, n, k)' => \/ OnChain(p, n, k)
                            \/ p = w /\ n = m /\ k = kind /\ w \in parents

\* The loop reads of a parent's trade.
RereadStep(p, m, kind) ==
  /\ Observe(p, m, kind) /\ OnChain(p, m, kind)
  /\ UNCHANGED <<chain, created, buys>>

QuietStep ==
  /\ UNCHANGED <<parentTouched, childTouched, emitted, conv, signalRows,
                 snapshots, created, buys>>
  /\ \/ now' = now
     \/ now' = now + 1 /\ SnapshotsDue(conv) = {}
  /\ \A p \in Wallets, n \in Mints, k \in Kinds :
       OnChain(p, n, k)' => OnChain(p, n, k)

\* A transaction that is appended is the only one that is new.
LEMMA AppendedIs ==
  ASSUME PollIs, NEW p \in Wallets, NEW tx \in Txs,
         chain' = [chain EXCEPT ![p] = Append(chain[p], tx)],
         NEW q \in Wallets, NEW m, NEW kind, OnChain(q, m, kind)'
  PROVE  OnChain(q, m, kind) \/ (q = p /\ tx.kind = kind /\ tx.on = m)
<1>1. chain \in [Wallets -> Seq(Txs)]
  BY DEF PollIs, LoopIs
<1> DEFINE l == Append(chain[p], tx)
<1>2. /\ Len(l) = Len(chain[p]) + 1 /\ Len(chain[p]) \in Nat /\ l[Len(chain[p]) + 1] = tx
      /\ \A i \in 1..Len(chain[p]) : l[i] = chain[p][i]
  BY <1>1, AppendProperties
<1> HIDE DEF l
<1>3. chain' = [chain EXCEPT ![p] = l]
  BY DEF l
<1>4. PICK i \in 1..Len(chain'[q]) : chain'[q][i].kind = kind /\ chain'[q][i].on = m
  BY DEF OnChain
<1>5. CASE q = p
  <2>1. chain'[q] = l
    BY <1>1, <1>3, <1>5
  <2>2. i \in 1..Len(chain[p]) \/ i = Len(chain[p]) + 1
    BY <1>2, <1>4, <2>1
  <2> QED
    BY <1>2, <1>4, <1>5, <2>1, <2>2 DEF OnChain
<1>6. CASE q # p
  <2>1. chain'[q] = chain[q]
    BY <1>1, <1>3, <1>6
  <2> QED
    BY <1>4, <2>1 DEF OnChain
<1> QED
  BY <1>5, <1>6

LEMMA StepCases ==
  ASSUME PollIs, Next
  PROVE  \/ \E w \in Wallets, m \in Mints, kind \in Kinds : TradeStep(w, m, kind)
         \/ \E p \in parents, m \in Mints, kind \in Kinds : RereadStep(p, m, kind)
         \/ CollectDue /\ UNCHANGED <<chain, created, buys>>
         \/ QuietStep
<1>1. ASSUME NEW p \in parents, NEW m \in Mints, NEW kind \in Kinds, ParentTrades(p, m, kind)
      PROVE  p \in Wallets /\ TradeStep(p, m, kind)
  <2>1. p \in Wallets
    BY DEF PollIs, GraphIs
  <2> DEFINE tx == [kind |-> kind, on |-> m]
  <2>2. tx \in Txs /\ tx.kind = kind /\ tx.on = m
    BY DEF Txs
  <2>3. chain' = [chain EXCEPT ![p] = Append(chain[p], tx)]
    BY <1>1 DEF ParentTrades
  <2> HIDE DEF tx
  <2>4. \A q \in Wallets, n \in Mints, k \in Kinds :
          OnChain(q, n, k)' => OnChain(q, n, k) \/ (q = p /\ n = m /\ k = kind)
    BY <2>1, <2>2, <2>3, AppendedIs
  <2> QED
    BY <1>1, <2>1, <2>4 DEF ParentTrades, TradeStep
<1>2. ASSUME NEW p \in parents, NEW w \in Wallets, ParentFunds(p, w)
      PROVE  QuietStep
  <2>1. p \in Wallets /\ now \in Nat
    BY DEF PollIs, GraphIs
  <2> DEFINE tx == [kind |-> "fund", on |-> w, at |-> now]
  <2>2. tx \in Txs /\ tx.kind \notin Kinds
    BY <2>1 DEF Txs, Kinds
  <2>3. chain' = [chain EXCEPT ![p] = Append(chain[p], tx)]
    BY <1>2 DEF ParentFunds
  <2> HIDE DEF tx
  <2>4. \A q \in Wallets, n \in Mints, k \in Kinds : OnChain(q, n, k)' => OnChain(q, n, k)
    BY <2>1, <2>2, <2>3, AppendedIs
  <2> QED
    BY <1>2, <2>4 DEF ParentFunds, QuietStep, graphVars
<1>3. ASSUME NEW w \in Wallets, NEW m \in Mints, NEW kind \in Kinds, ChildTrades(w, m, kind)
      PROVE  TradeStep(w, m, kind)
  BY <1>3 DEF ChildTrades, TradeStep, OnChain
<1>4. CASE Tick
  BY <1>4 DEF Tick, QuietStep, OnChain, pollVars
<1>5. CASE Reload
  BY <1>5 DEF Reload, ReloadRoster, QuietStep, OnChain, External
<1>6. ASSUME NEW p \in Wallets, Fetch(p)
      PROVE  QuietStep
  BY <1>6 DEF Fetch, QuietStep, OnChain, External, graphVars
<1>7. CASE FetchFails
  BY <1>7 DEF FetchFails, QuietStep, OnChain, External, graphVars
<1>8. CASE ProcessNext
  <2>1. PICK p \in parents, i \in Nat :
          /\ p = polling /\ i = page[1] /\ i \in 1..Len(chain[p])
          /\ chain[p][i] \in Txs
          /\ Processed(p, chain[p][i]) \/ UNCHANGED graphVars
          /\ UNCHANGED <<chain, created, buys>>
    BY <1>8, ProcessIs DEF External
  <2>2. PICK tx : tx = chain[p][i]
    OBVIOUS
  <2>3. CASE UNCHANGED graphVars
    BY <2>1, <2>3 DEF QuietStep, OnChain, graphVars
  <2>4. CASE tx.kind # "fund" /\ Observe(p, tx.on, tx.kind)
    <3>1. tx.kind \in Kinds /\ tx.on \in Mints
      BY <2>1, <2>2, <2>4 DEF Txs
    <3>2. OnChain(p, tx.on, tx.kind)
      BY <2>1, <2>2 DEF OnChain
    <3>3. RereadStep(p, tx.on, tx.kind)
      BY <2>1, <2>4, <3>2 DEF RereadStep
    <3> QED
      BY <3>1, <3>3
  <2>5. CASE CacheChild(tx.on, p, tx.at)
    BY <2>1, <2>5 DEF QuietStep, OnChain, CacheChild
  <2> QED
    BY <2>1, <2>2, <2>3, <2>4, <2>5 DEF Processed
<1>9. CASE EndTurn
  BY <1>9 DEF EndTurn, External
<1> QED
  BY <1>1, <1>2, <1>3, <1>4, <1>5, <1>6, <1>7, <1>8, <1>9 DEF Next

-----------------------------------------------------------------------------
(* What a step makes of the convergence. *)

DidBuy(w, m) == \E b \in buys : b[1] = w /\ b[2] = m

\* s is what pruning leaves, with the touches of new, each <<wallet, mint>>.
\* What is recent stays if there is room, and everything of a mint stays of
\* which a follow-up is awaited; an episode opens only when wallets converge.
From(s, new) ==
  /\ ConvOK(s)
  /\ \A n \in DOMAIN s : \A v \in WalletsOf(s[n]) :
       (n \in DOMAIN conv /\ v \in WalletsOf(conv[n])) \/ <<v, n>> \in new
  /\ \A n \in DOMAIN s : OfRoles(s[n], conv, n)
  /\ \A n \in DOMAIN s : \A r \in DOMAIN s[n].signals :
       \/ /\ n \in DOMAIN conv /\ r \in DOMAIN conv[n].signals
          /\ s[n].signals[r] = conv[n].signals[r]
       \/ r \in Converging(s[n]) /\ s[n].signals[r] = [at |-> now, done |-> {}]
  /\ \A v, n : <<v, n>> \in new => n \in DOMAIN s /\ Has(s[n], v, now)
  /\ Roomy => \A n \in DOMAIN conv : \A v : \A t \in Nat :
       t >= now - Window /\ t <= now /\ Has(conv[n], v, t)
         => n \in DOMAIN s /\ Has(s[n], v, t)
  /\ Roomy => \A n \in DOMAIN conv : \A r \in DOMAIN conv[n].signals :
       Awaited(conv[n].signals[r])
         => \A v \in WalletsOf(conv[n]) : n \in DOMAIN s /\ v \in WalletsOf(s[n])

LEMMA PruningFrom ==
  ASSUME GraphIs, NEW c \in Prunings
  PROVE  From(c, {}) /\ \A n \in DOMAIN c : n \in DOMAIN conv
                           /\ \A r \in DOMAIN c[n].signals :
                                /\ r \in DOMAIN conv[n].signals
                                /\ c[n].signals[r] = conv[n].signals[r]
<1>1. now \in Nat /\ ConvOK(conv)
  BY DEF GraphIs
<1>2. /\ ConvOK(c) /\ DOMAIN c \subseteq DOMAIN conv
      /\ \A m \in DOMAIN c : c[m] = PrunedMint(conv[m])
      /\ Roomy => \A m \in DOMAIN conv :
                    WalletsOf(PrunedMint(conv[m])) # {} => m \in DOMAIN c
  BY <1>1, PruningsAre
<1>3. ASSUME NEW n \in DOMAIN conv
      PROVE  /\ WalletsOf(PrunedMint(conv[n])) \subseteq WalletsOf(conv[n])
             /\ \A r \in DOMAIN PrunedMint(conv[n]).signals :
                  /\ r \in DOMAIN conv[n].signals
                  /\ PrunedMint(conv[n]).signals[r] = conv[n].signals[r]
             /\ \A v, t : t >= now - Window /\ t \in Nat /\ Has(conv[n], v, t)
                  => Has(PrunedMint(conv[n]), v, t)
             /\ (\E r \in DOMAIN conv[n].signals : Awaited(conv[n].signals[r]))
                  => WalletsOf(conv[n]) \subseteq WalletsOf(PrunedMint(conv[n]))
  <2>1. StateOK(conv[n])
    BY <1>1 DEF ConvOK
  <2> QED
    BY <1>1, <2>1, PrunedIs DEF WalletsOf
<1>4. ASSUME Roomy, NEW n \in DOMAIN conv, NEW v, NEW t \in Nat,
             t >= now - Window, Has(conv[n], v, t)
      PROVE  n \in DOMAIN c /\ Has(c[n], v, t)
  <2>1. Has(PrunedMint(conv[n]), v, t)
    BY <1>3, <1>4
  <2>2. v \in WalletsOf(PrunedMint(conv[n]))
    BY <2>1 DEF Has, WalletsOf
  <2> QED
    BY <1>2, <1>4, <2>1, <2>2
<1>5. ASSUME Roomy, NEW n \in DOMAIN conv, NEW r \in DOMAIN conv[n].signals,
             Awaited(conv[n].signals[r]), NEW v \in WalletsOf(conv[n])
      PROVE  n \in DOMAIN c /\ v \in WalletsOf(c[n])
  <2>1. v \in WalletsOf(PrunedMint(conv[n]))
    BY <1>3, <1>5
  <2> QED
    BY <1>2, <1>5, <2>1
<1>6. ASSUME NEW n \in DOMAIN c
      PROVE  /\ n \in DOMAIN conv /\ WalletsOf(c[n]) \subseteq WalletsOf(conv[n])
             /\ \A r \in DOMAIN c[n].signals :
                  /\ r \in DOMAIN conv[n].signals
                  /\ c[n].signals[r] = conv[n].signals[r]
  BY <1>2, <1>3
<1>7. ASSUME NEW n \in DOMAIN c
      PROVE  OfRoles(c[n], conv, n)
  <2>1. StateOK(conv[n]) /\ n \in DOMAIN conv /\ c[n] = PrunedMint(conv[n])
    BY <1>1, <1>2 DEF ConvOK
  <2>2. /\ DOMAIN PrunedMint(conv[n]).parents \subseteq DOMAIN conv[n].parents
        /\ DOMAIN PrunedMint(conv[n]).children \subseteq DOMAIN conv[n].children
    BY <1>1, <2>1, PrunedIs
  <2> QED
    BY <2>1, <2>2 DEF OfRoles
<1> QED
  BY <1>2, <1>4, <1>5, <1>6, <1>7 DEF From

\* Whom a trade adds to the convergence.
News(w, m, buy) == IF buy /\ w \in parents \cup DOMAIN Watched THEN {<<w, m>>} ELSE {}

LEMMA TradeFrom ==
  ASSUME GraphIs, NEW w \in Wallets, NEW m \in Mints, NEW buy \in BOOLEAN,
         ObserveTrade(w, m, buy)
  PROVE  \E s : /\ From(s, News(w, m, buy))
                /\ conv' = Marked(s) /\ snapshots' = snapshots \cup SnapshotsDue(s)
<1>1. PICK c \in Prunings : \E s :
              /\ s = IF buy THEN Signalled(Touched(c, w, m, buy), m)
                     ELSE Touched(c, w, m, buy)
              /\ conv' = Marked(s) /\ snapshots' = snapshots \cup SnapshotsDue(s)
  BY TradeDoes
<1>2. PICK s :
              /\ s = IF buy THEN Signalled(Touched(c, w, m, buy), m)
                     ELSE Touched(c, w, m, buy)
              /\ conv' = Marked(s) /\ snapshots' = snapshots \cup SnapshotsDue(s)
  BY <1>1
<1>3. now \in Nat /\ ConvOK(c) /\ From(c, {})
      /\ \A n \in DOMAIN c : n \in DOMAIN conv
           /\ \A r \in DOMAIN c[n].signals :
                r \in DOMAIN conv[n].signals /\ c[n].signals[r] = conv[n].signals[r]
  BY PruningFrom, PruningsAre DEF GraphIs
<1> DEFINE T == Touched(c, w, m, buy)
           watched == w \in parents \cup DOMAIN Watched
<1>4. /\ ConvOK(T)
      /\ \A n \in DOMAIN c :
           /\ n \in DOMAIN T /\ T[n].signals = c[n].signals
           /\ WalletsOf(c[n]) \subseteq WalletsOf(T[n])
           /\ \A v, t : t \in Nat /\ t <= now /\ Has(c[n], v, t) => Has(T[n], v, t)
      /\ \A n \in DOMAIN T : n \notin DOMAIN c => DOMAIN T[n].signals = {}
      /\ \A n \in DOMAIN T : \A v \in WalletsOf(T[n]) :
           \/ n \in DOMAIN c /\ v \in WalletsOf(c[n])
           \/ n = m /\ v = w /\ buy /\ watched
      /\ buy /\ watched => m \in DOMAIN T /\ Has(T[m], w, now)
      /\ \A n \in DOMAIN T : OfRoles(T[n], c, n)
  BY <1>3, TouchedIs
<1>5. News(w, m, buy) = IF buy /\ watched THEN {<<w, m>>} ELSE {}
  BY DEF News
<1> HIDE DEF T, watched
<1>6. /\ ConvOK(s) /\ DOMAIN s = DOMAIN T
      /\ \A n \in DOMAIN T :
           /\ s[n].parents = T[n].parents /\ s[n].children = T[n].children
           /\ \A r \in DOMAIN s[n].signals :
                \/ r \in DOMAIN T[n].signals /\ s[n].signals[r] = T[n].signals[r]
                \/ /\ r \in Converging(s[n])
                   /\ s[n].signals[r] = [at |-> now, done |-> {}]
  <2>1. CASE buy
    <3>1. s = Signalled(T, m)
      BY <1>2, <2>1 DEF T
    <3>2. /\ ConvOK(s) /\ DOMAIN s = DOMAIN T
          /\ \A n \in DOMAIN T :
               /\ s[n].parents = T[n].parents /\ s[n].children = T[n].children
               /\ \A r \in DOMAIN s[n].signals :
                    \/ r \in DOMAIN T[n].signals /\ s[n].signals[r] = T[n].signals[r]
                    \/ /\ n = m /\ r \in Converging(T[m])
                       /\ s[n].signals[r] = [at |-> now, done |-> {}]
      <4>1. ConvOK(T) /\ now \in Nat
        BY <1>3, <1>4
      <4>2. Opened(Signalled(T, m), T, m)
        BY <4>1, SignalledIs
      <4>3. Opened(s, T, m)
        BY <3>1, <4>2
      <4> QED
        BY <4>3 DEF Opened
    <3>3. \A n \in DOMAIN T : Converging(s[n]) = Converging(T[n])
      BY <3>1, <3>2 DEF Converging
    <3> QED
      BY <3>1, <3>2, <3>3
  <2>2. CASE ~buy
    <3>1. s = T
      BY <1>2, <2>2 DEF T
    <3> QED
      BY <1>4, <3>1
  <2> QED
    BY <2>1, <2>2
<1>7. \A n \in DOMAIN T : WalletsOf(s[n]) = WalletsOf(T[n])
                          /\ \A v, t : Has(s[n], v, t) <=> Has(T[n], v, t)
  BY <1>6 DEF WalletsOf, Has
<1>8. ASSUME NEW n \in DOMAIN s, NEW v \in WalletsOf(s[n])
      PROVE  (n \in DOMAIN conv /\ v \in WalletsOf(conv[n])) \/ <<v, n>> \in News(w, m, buy)
  <2>1. \/ n \in DOMAIN c /\ v \in WalletsOf(c[n])
        \/ n = m /\ v = w /\ buy /\ watched
    BY <1>4, <1>6, <1>7
  <2> QED
    BY <1>3, <1>5, <2>1 DEF From
<1>9. ASSUME NEW n \in DOMAIN s, NEW r \in DOMAIN s[n].signals
      PROVE  \/ /\ n \in DOMAIN conv /\ r \in DOMAIN conv[n].signals
                /\ s[n].signals[r] = conv[n].signals[r]
             \/ r \in Converging(s[n]) /\ s[n].signals[r] = [at |-> now, done |-> {}]
  <2>1. CASE r \in Converging(s[n]) /\ s[n].signals[r] = [at |-> now, done |-> {}]
    BY <2>1
  <2>2. CASE r \in DOMAIN T[n].signals /\ s[n].signals[r] = T[n].signals[r]
    <3>1. n \in DOMAIN c /\ T[n].signals = c[n].signals
      BY <1>4, <1>6, <2>2
    <3>2. /\ n \in DOMAIN conv /\ r \in DOMAIN conv[n].signals
          /\ c[n].signals[r] = conv[n].signals[r]
      BY <1>3, <2>2, <3>1
    <3> QED
      BY <2>2, <3>1, <3>2
  <2> QED
    BY <1>6, <2>1, <2>2
<1>10. \A v, n : <<v, n>> \in News(w, m, buy) => n \in DOMAIN s /\ Has(s[n], v, now)
  BY <1>4, <1>5, <1>6, <1>7
<1>11. ASSUME Roomy, NEW n \in DOMAIN conv, NEW v, NEW t \in Nat,
              t >= now - Window, t <= now, Has(conv[n], v, t)
       PROVE  n \in DOMAIN s /\ Has(s[n], v, t)
  <2>1. n \in DOMAIN c /\ Has(c[n], v, t)
    BY <1>3, <1>11 DEF From
  <2> QED
    BY <1>4, <1>6, <1>7, <1>11, <2>1
<1>12. ASSUME NEW n \in DOMAIN conv, NEW r \in DOMAIN conv[n].signals,
              Roomy, Awaited(conv[n].signals[r]), NEW v \in WalletsOf(conv[n])
       PROVE  n \in DOMAIN s /\ v \in WalletsOf(s[n])
  <2>1. n \in DOMAIN c /\ v \in WalletsOf(c[n])
    BY <1>3, <1>12 DEF From
  <2> QED
    BY <1>4, <1>6, <1>7, <2>1
<1>13. ASSUME NEW n \in DOMAIN s
       PROVE  OfRoles(s[n], conv, n)
  <2>1. OfRoles(T[n], c, n) /\ s[n].parents = T[n].parents /\ s[n].children = T[n].children
    BY <1>4, <1>6
  <2>2. n \in DOMAIN c => n \in DOMAIN conv /\ OfRoles(c[n], conv, n)
    BY <1>3 DEF From
  <2> QED
    BY <2>1, <2>2 DEF OfRoles
<1>14. From(s, News(w, m, buy))
  BY <1>6, <1>8, <1>9, <1>10, <1>11, <1>12, <1>13 DEF From
<1> QED
  BY <1>2, <1>14

\* A step that leaves the convergence alone: the clock, or a trade that the
\* socket missed.
SameConv ==
  /\ UNCHANGED <<conv, snapshots>>
  /\ buys \subseteq buys' /\ (~SocketMayMiss => buys' = buys)
  /\ now' = now \/ (now' = now + 1 /\ SnapshotsDue(conv) = {})

\* A step that prunes it, and takes in what was bought.
NewConv ==
  /\ now' = now /\ buys \subseteq buys'
  /\ \E s, new :
       /\ From(s, new)
       /\ conv' = Marked(s) /\ snapshots' = snapshots \cup SnapshotsDue(s)
       /\ \A b \in buys' \ buys : b[3] = now /\ <<b[1], b[2]>> \in new
       /\ \A w, m : <<w, m>> \in new => DidBuy(w, m)' \/ OnChain(w, m, "buy")

LEMMA ConvSteps ==
  ASSUME PollIs, Next
  PROVE  /\ SameConv \/ NewConv
         /\ \A p \in Wallets, m \in Mints :
              OnChain(p, m, "buy")' => OnChain(p, m, "buy") \/ DidBuy(p, m)'
<1>1. GraphIs /\ now \in Nat /\ parents \subseteq Wallets
  BY DEF PollIs, GraphIs
<1>2. \A p \in Wallets, m \in Mints : "buy" \in Kinds
  BY DEF Kinds
<1>3. ASSUME NEW w \in Wallets, NEW m \in Mints, NEW kind \in Kinds, Observe(w, m, kind)
      PROVE  \/ kind = "create" /\ UNCHANGED <<now, conv, snapshots>>
             \/ /\ kind # "create" /\ now' = now
                /\ \E s : /\ From(s, News(w, m, kind = "buy"))
                          /\ conv' = Marked(s)
                          /\ snapshots' = snapshots \cup SnapshotsDue(s)
  <2>1. CASE kind = "create"
    BY <1>3, <2>1 DEF Observe, ObserveCreate
  <2>2. CASE kind # "create"
    <3>1. ObserveTrade(w, m, kind = "buy") /\ now' = now
      BY <1>1, <1>3, <2>2, ObserveKeeps DEF Observe
    <3>2. PICK buy \in BOOLEAN : buy = (kind = "buy")
      OBVIOUS
    <3>3. ObserveTrade(w, m, buy)
      BY <3>1, <3>2
    <3>4. \E s : /\ From(s, News(w, m, buy))
                 /\ conv' = Marked(s)
                 /\ snapshots' = snapshots \cup SnapshotsDue(s)
      BY <1>1, <3>3, TradeFrom
    <3> QED
      BY <2>2, <3>1, <3>2, <3>4
  <2> QED
    BY <2>1, <2>2
<1>4. ASSUME NEW w \in Wallets, NEW m \in Mints, NEW kind \in Kinds, TradeStep(w, m, kind)
      PROVE  /\ SameConv \/ NewConv
             /\ \A p \in Wallets, n \in Mints :
                  OnChain(p, n, "buy")' => OnChain(p, n, "buy") \/ DidBuy(p, n)'
  <2> DEFINE watched == w \in parents \cup DOMAIN Watched
  <2>1. buys' = IF kind = "buy" /\ watched THEN buys \cup {<<w, m, now>>} ELSE buys
    BY <1>4 DEF TradeStep, OnMint
  <2>2. News(w, m, kind = "buy") = IF kind = "buy" /\ watched THEN {<<w, m>>} ELSE {}
    BY DEF News
  <2>3. w \in parents => watched
    OBVIOUS
  <2> HIDE DEF watched
  <2>4. kind = "buy" /\ watched => DidBuy(w, m)'
    <3>1. <<w, m, now>>[1] = w /\ <<w, m, now>>[2] = m
      OBVIOUS
    <3> QED
      BY <2>1, <3>1 DEF DidBuy
  <2>5. \A p \in Wallets, n \in Mints :
          OnChain(p, n, "buy")' => OnChain(p, n, "buy") \/ DidBuy(p, n)'
    BY <1>2, <1>4, <2>3, <2>4 DEF TradeStep
  <2>6. CASE SocketMayMiss /\ UNCHANGED graphVars
    BY <2>1, <2>5, <2>6 DEF SameConv, graphVars
  <2>7. CASE Observe(w, m, kind)
    <3>1. CASE kind = "create"
      BY <1>3, <2>1, <2>5, <2>7, <3>1 DEF SameConv
    <3>2. CASE kind # "create"
      <4>1. now' = now
        BY <1>3, <2>7, <3>2
      <4>2. PICK s : /\ From(s, News(w, m, kind = "buy"))
                     /\ conv' = Marked(s)
                     /\ snapshots' = snapshots \cup SnapshotsDue(s)
        BY <1>3, <2>7, <3>2
      <4>3. PICK new : new = News(w, m, kind = "buy")
        OBVIOUS
      <4>4. \A b \in buys' \ buys : b[3] = now /\ <<b[1], b[2]>> \in new
        BY <2>1, <2>2, <4>3
      <4>5. \A v, n : <<v, n>> \in new => DidBuy(v, n)'
        <5>1. CASE kind = "buy" /\ watched
          BY <2>2, <2>4, <4>3, <5>1
        <5>2. CASE ~(kind = "buy" /\ watched)
          BY <2>2, <4>3, <5>2
        <5> QED
          BY <5>1, <5>2
      <4>6. From(s, new)
        BY <4>2, <4>3
      <4>7. buys \subseteq buys'
        BY <2>1
      <4> QED
        BY <2>5, <4>1, <4>2, <4>4, <4>5, <4>6, <4>7 DEF NewConv
    <3> QED
      BY <3>1, <3>2
  <2> QED
    BY <1>4, <2>6, <2>7 DEF TradeStep
<1>5. ASSUME NEW w \in parents, NEW m \in Mints, NEW kind \in Kinds, RereadStep(w, m, kind)
      PROVE  SameConv \/ NewConv
  <2>1. w \in Wallets /\ Observe(w, m, kind) /\ buys' = buys /\ OnChain(w, m, kind)
    BY <1>1, <1>5 DEF RereadStep
  <2>2. CASE kind = "create"
    BY <1>3, <2>1, <2>2 DEF SameConv
  <2>3. CASE kind # "create"
    <3>1. now' = now
      BY <1>3, <2>1, <2>3
    <3>2. PICK s : /\ From(s, News(w, m, kind = "buy"))
                   /\ conv' = Marked(s)
                   /\ snapshots' = snapshots \cup SnapshotsDue(s)
      BY <1>3, <2>1, <2>3
    <3>3. PICK new : new = News(w, m, kind = "buy")
      OBVIOUS
    <3>4. \A v, n : <<v, n>> \in new => OnChain(v, n, "buy")
      <4>1. \A v, n : <<v, n>> \in new => v = w /\ n = m /\ kind = "buy"
        BY <3>3 DEF News
      <4> QED
        BY <2>1, <4>1
    <3>5. From(s, new)
      BY <3>2, <3>3
    <3> QED
      BY <2>1, <3>1, <3>2, <3>4, <3>5 DEF NewConv
  <2> QED
    BY <2>2, <2>3
<1>6. CASE CollectDue /\ UNCHANGED <<chain, created, buys>>
  <2>1. PICK c \in Prunings : conv' = Marked(c) /\ snapshots' = snapshots \cup SnapshotsDue(c)
    BY <1>6 DEF CollectDue
  <2>2. From(c, {}) /\ now' = now
    BY <1>1, <1>6, PruningFrom DEF CollectDue
  <2>3. NewConv
    BY <1>6, <2>1, <2>2 DEF NewConv
  <2> QED
    BY <1>6, <2>3 DEF OnChain
<1>7. CASE QuietStep
  BY <1>2, <1>7 DEF QuietStep, SameConv
<1>8. \A w \in parents, m \in Mints, kind \in Kinds : RereadStep(w, m, kind) =>
        \A p \in Wallets, n \in Mints : OnChain(p, n, "buy")' => OnChain(p, n, "buy")
  BY DEF RereadStep, OnChain
<1> QED
  BY <1>4, <1>5, <1>6, <1>7, <1>8, StepCases

-----------------------------------------------------------------------------
(* An episode of convergence is about two wallets that bought. *)

\* Who is among the touches of a mint bought it, and so did who, as the chain
\* tells, bought it.
AllBought ==
  /\ \A m \in DOMAIN conv : \A w \in WalletsOf(conv[m]) : DidBuy(w, m)
  /\ \A p \in Wallets, m \in Mints : OnChain(p, m, "buy") => DidBuy(p, m)

Buyers(m) == {w \in Wallets : \E b \in buys : b[1] = w /\ b[2] = m}

LEMMA TwoIn ==
  ASSUME NEW S, IsFiniteSet(S), NEW a \in S, NEW b \in S, a # b
  PROVE  Cardinality(S) >= 2
<1> DEFINE A == {a}
           AB == A \cup {b}
<1>1. IsFiniteSet(A) /\ Cardinality(A) = 1
  BY FS_Singleton
<1>2. b \notin A /\ AB \subseteq S
  OBVIOUS
<1>3. IsFiniteSet(AB) /\ Cardinality(AB) = 2
  <2> HIDE DEF A
  <2> QED
    BY <1>1, <1>2, FS_AddElement
<1> HIDE DEF AB
<1>4. Cardinality(AB) <= Cardinality(S) /\ Cardinality(S) \in Nat
  BY <1>2, FS_Subset, FS_CardinalityType
<1> QED
  BY <1>3, <1>4

LEMMA TwoOf ==
  ASSUME NEW S, IsFiniteSet(S), Cardinality(S) >= 2
  PROVE  \E a, b : a \in S /\ b \in S /\ a # b
<1>1. S # {}
  BY FS_EmptySet
<1>2. PICK a : a \in S
  BY <1>1
<1>3. IsFiniteSet(S \ {a}) /\ Cardinality(S \ {a}) = Cardinality(S) - 1
        /\ Cardinality(S) \in Nat
  BY <1>2, FS_RemoveElement, FS_CardinalityType
<1>4. S \ {a} # {}
  BY <1>3, FS_EmptySet
<1> QED
  BY <1>2, <1>4

LEMMA ConvergingTwo ==
  ASSUME NEW s, StateOK(s), DOMAIN s.parents \cap DOMAIN s.children = {},
         Converging(s) # {}
  PROVE  \E a, b : a \in WalletsOf(s) /\ b \in WalletsOf(s) /\ a # b
<1> DEFINE P == DOMAIN Recent(s.parents)
           C == DOMAIN Recent(s.children)
<1>1. P \subseteq DOMAIN s.parents /\ C \subseteq DOMAIN s.children
  BY DEF Recent, Restricted
<1>2. IsFiniteSet(P) /\ IsFiniteSet(C)
  <2>1. DOMAIN s.parents \subseteq Wallets /\ DOMAIN s.children \subseteq Wallets
    BY DEF StateOK, TouchesOK
  <2> QED
    BY <1>1, <2>1, FS_Subset, GraphAssumption
<1>3. \/ Cardinality(P) >= 2
      \/ Cardinality(P) >= 1 /\ Cardinality(C) >= 1
      \/ Cardinality(C) >= 2
  BY DEF Converging
<1>4. P \subseteq WalletsOf(s) /\ C \subseteq WalletsOf(s) /\ P \cap C = {}
  BY <1>1 DEF WalletsOf
<1> HIDE DEF P, C
<1>5. CASE Cardinality(P) >= 2
  BY <1>2, <1>4, <1>5, TwoOf
<1>6. CASE Cardinality(C) >= 2
  BY <1>2, <1>4, <1>6, TwoOf
<1>7. CASE Cardinality(P) >= 1 /\ Cardinality(C) >= 1
  <2>1. P # {} /\ C # {}
    BY <1>7, FS_EmptySet
  <2>2. PICK a, b : a \in P /\ b \in C
    BY <2>1
  <2> QED
    BY <1>4, <2>2
<1> QED
  BY <1>3, <1>5, <1>6, <1>7

\* No wallet is, for one mint, a parent and a child.
OneRole == \A m \in DOMAIN conv : DOMAIN conv[m].parents \cap DOMAIN conv[m].children = {}

LEMMA BuysStay ==
  ASSUME buys \subseteq buys', NEW w, NEW m, DidBuy(w, m)
  PROVE  DidBuy(w, m)'
  BY DEF DidBuy

LEMMA AllBoughtNext ==
  ASSUME PollIs, Next, AllBought
  PROVE  AllBought'
<1>1. buys \subseteq buys'
  BY ConvSteps DEF SameConv, NewConv
<1>2. ASSUME NEW p \in Wallets, NEW m \in Mints, OnChain(p, m, "buy")'
      PROVE  DidBuy(p, m)'
  BY <1>1, <1>2, ConvSteps, BuysStay DEF AllBought
<1>3. ASSUME NEW m \in DOMAIN conv', NEW w \in WalletsOf(conv'[m])
      PROVE  DidBuy(w, m)'
  <2>1. CASE SameConv
    <3>1. DidBuy(w, m)
      BY <1>3, <2>1 DEF SameConv, AllBought
    <3> QED
      BY <1>1, <3>1, BuysStay
  <2>2. CASE NewConv
    <3>1. PICK s, new :
             /\ From(s, new) /\ conv' = Marked(s)
             /\ \A v, n : <<v, n>> \in new => DidBuy(v, n)' \/ OnChain(v, n, "buy")
      BY <2>2 DEF NewConv
    <3>2. m \in DOMAIN s /\ w \in WalletsOf(s[m]) /\ m \in Mints /\ w \in Wallets
      <4>1. ConvOK(s)
        BY <3>1 DEF From
      <4>2. m \in DOMAIN s /\ WalletsOf(conv'[m]) = WalletsOf(s[m])
        BY <1>3, <3>1, <4>1, MarkedIs DEF WalletsOf
      <4> QED
        BY <1>3, <4>1, <4>2 DEF ConvOK, StateOK, TouchesOK, WalletsOf
    <3>3. (m \in DOMAIN conv /\ w \in WalletsOf(conv[m])) \/ <<w, m>> \in new
      BY <3>1, <3>2 DEF From
    <3>4. DidBuy(w, m) \/ DidBuy(w, m)'
      BY <3>1, <3>2, <3>3 DEF AllBought
    <3> QED
      BY <1>1, <3>4, BuysStay
  <2> QED
    BY <2>1, <2>2, ConvSteps
<1> QED
  BY <1>2, <1>3 DEF AllBought

LEMMA RealNext ==
  ASSUME PollIs, Next, AllBought, AllBought', OneRole', ConvergedForReal
  PROVE  ConvergedForReal'
<1>1. buys \subseteq buys'
  BY ConvSteps DEF SameConv, NewConv
<1> SUFFICES ASSUME NEW m \in DOMAIN conv', DOMAIN conv'[m].signals # {}
             PROVE  Cardinality(Buyers(m)') >= 2
  BY DEF ConvergedForReal, Buyers
<1>2. IsFiniteSet(Buyers(m)) /\ IsFiniteSet(Buyers(m)') /\ Buyers(m) \subseteq Buyers(m)'
  <2>1. Buyers(m) \subseteq Wallets /\ Buyers(m)' \subseteq Wallets
    BY DEF Buyers
  <2>2. Buyers(m) \subseteq Buyers(m)'
    BY <1>1 DEF Buyers
  <2> QED
    BY <2>1, <2>2, FS_Subset, GraphAssumption
<1>3. ASSUME m \in DOMAIN conv, DOMAIN conv[m].signals # {}
      PROVE  Cardinality(Buyers(m)') >= 2
  <2>1. Cardinality(Buyers(m)) >= 2
    BY <1>3 DEF ConvergedForReal, Buyers
  <2>2. /\ Cardinality(Buyers(m)) <= Cardinality(Buyers(m)')
        /\ Cardinality(Buyers(m)) \in Nat /\ Cardinality(Buyers(m)') \in Nat
    BY <1>2, FS_Subset, FS_CardinalityType
  <2> QED
    BY <2>1, <2>2
<1>4. CASE SameConv
  BY <1>3, <1>4 DEF SameConv
<1>5. CASE NewConv
  <2>1. PICK s, new : From(s, new) /\ conv' = Marked(s)
    BY <1>5 DEF NewConv
  <2>2. ConvOK(s)
    BY <2>1 DEF From
  <2>3. /\ m \in DOMAIN s /\ DOMAIN s[m].signals # {}
        /\ conv'[m].parents = s[m].parents /\ conv'[m].children = s[m].children
    BY <2>1, <2>2, MarkedIs
  <2>4. PICK r \in DOMAIN s[m].signals : TRUE
    BY <2>3
  <2>5. CASE m \in DOMAIN conv /\ r \in DOMAIN conv[m].signals
    BY <1>3, <2>5
  <2>6. CASE r \in Converging(s[m])
    <3>1. StateOK(s[m]) /\ DOMAIN s[m].parents \cap DOMAIN s[m].children = {}
      BY <2>2, <2>3 DEF ConvOK, OneRole
    <3>2. PICK a, b : a \in WalletsOf(s[m]) /\ b \in WalletsOf(s[m]) /\ a # b
      BY <2>6, <3>1, ConvergingTwo
    <3>3. WalletsOf(s[m]) = WalletsOf(conv'[m])
      BY <2>3 DEF WalletsOf
    <3>4. \A w \in WalletsOf(s[m]) : w \in Wallets /\ DidBuy(w, m)'
      BY <3>1, <3>3 DEF AllBought, StateOK, TouchesOK, WalletsOf
    <3>5. a \in Buyers(m)' /\ b \in Buyers(m)'
      BY <3>2, <3>4 DEF Buyers, DidBuy
    <3> QED
      BY <1>2, <3>2, <3>5, TwoIn
  <2> QED
    BY <2>1, <2>3, <2>4, <2>5, <2>6 DEF From
<1> QED
  BY <1>4, <1>5, ConvSteps

\* As long as no wallet is a parent and a child for one mint, an episode of
\* convergence is about two wallets that bought, though a buy of a parent is
\* seen twice and in any order with the others.
THEOREM PollConvergesForReal == Spec /\ []OneRole => []ConvergedForReal
<1>1. Init => AllBought /\ ConvergedForReal
  <2> SUFFICES ASSUME Init PROVE AllBought /\ ConvergedForReal
    OBVIOUS
  <2>1. conv = <<>> /\ DOMAIN conv = {}
    BY DEF Init, GraphInit
  <2>2. \A p \in Wallets, m \in Mints : ~OnChain(p, m, "buy")
    BY DEF Init, OnChain
  <2> QED
    BY <2>1, <2>2 DEF AllBought, ConvergedForReal
<1>2. PollIs /\ AllBought /\ [Next]_vars => AllBought'
  <2>1. AllBought /\ UNCHANGED vars => AllBought'
    BY DEF AllBought, OnChain, DidBuy, vars, graphVars, pollVars
  <2> QED
    BY <2>1, AllBoughtNext
<1>3. PollIs /\ AllBought /\ AllBought' /\ OneRole' /\ ConvergedForReal /\ [Next]_vars
        => ConvergedForReal'
  <2>1. ConvergedForReal /\ UNCHANGED vars => ConvergedForReal'
    BY DEF ConvergedForReal, vars, graphVars, pollVars
  <2> QED
    BY <2>1, RealNext
<1> QED
  BY <1>1, <1>2, <1>3, PollTyped, PTL DEF Spec

-----------------------------------------------------------------------------
(* A follow-up counts every wallet that was part of the convergence. *)

\* A buy of the window is among the touches of its mint.
Kept(c) ==
  \A b \in buys : b[3] <= now /\
    (b[3] >= now - Window => b[2] \in DOMAIN c /\ Has(c[b[2]], b[1], b[3]))

\* No follow-up is late; as long as one is awaited, the wallets that bought in
\* the window before the episode are all there.
AwaitedAll(c) ==
  \A m \in DOMAIN c : \A r \in DOMAIN c[m].signals :
    LET e == c[m].signals[r]
    IN  /\ e.at <= now
        /\ e.done # Checkpoints =>
             /\ Awaited(e)
             /\ \A b \in buys : (b[2] = m /\ b[3] <= e.at /\ b[3] >= e.at - Window)
                                  => b[1] \in WalletsOf(c[m])

AllKept ==
  /\ Kept(conv) /\ AwaitedAll(conv)
  /\ \A s \in snapshots : s.at < now /\ s.at \in Nat

LEMMA BuysAre ==
  ASSUME PollIs, NEW b \in buys
  PROVE  b[1] \in Wallets /\ b[2] \in Mints /\ b[3] \in Nat
  BY DEF PollIs, LoopIs

LEMMA HasIn ==
  ASSUME NEW s, NEW w, NEW t, Has(s, w, t)
  PROVE  w \in WalletsOf(s)
  BY DEF Has, WalletsOf

\* What pruning and the buys of the step leave, before the due are marked.
LEMMA FromKeeps ==
  ASSUME PollIs, PollIs', AllKept, Roomy, now' = now, NEW s, NEW new, From(s, new),
         \A b \in buys' \ buys : b[3] = now /\ <<b[1], b[2]>> \in new
  PROVE  \A b \in buys' :
           /\ b[3] <= now
           /\ b[3] >= now - Window => b[2] \in DOMAIN s /\ Has(s[b[2]], b[1], b[3])
<1> SUFFICES ASSUME NEW b \in buys'
             PROVE  /\ b[3] <= now
                    /\ b[3] >= now - Window => b[2] \in DOMAIN s /\ Has(s[b[2]], b[1], b[3])
  OBVIOUS
<1>1. now \in Nat
  BY DEF PollIs, GraphIs
<1>2. CASE b \in buys
  <2>1. b[3] \in Nat /\ b[3] <= now
        /\ (b[3] >= now - Window => b[2] \in DOMAIN conv /\ Has(conv[b[2]], b[1], b[3]))
    BY <1>2, BuysAre DEF AllKept, Kept
  <2> QED
    BY <2>1 DEF From
<1>3. CASE b \notin buys
  <2>1. b[3] = now /\ <<b[1], b[2]>> \in new
    BY <1>3
  <2> QED
    BY <1>1, <2>1 DEF From
<1> QED
  BY <1>2, <1>3

LEMMA FromAwaits ==
  ASSUME PollIs, PollIs', AllKept, Roomy, now' = now, NEW s, NEW new, From(s, new),
         \A b \in buys' \ buys : b[3] = now /\ <<b[1], b[2]>> \in new,
         NEW m \in DOMAIN s, NEW r \in DOMAIN s[m].signals
  PROVE  LET e == s[m].signals[r]
         IN  /\ e \in Episode /\ e.at <= now
             /\ e.done # Checkpoints =>
                  /\ Awaited(e)
                  /\ \A b \in buys' : (b[2] = m /\ b[3] <= e.at /\ b[3] >= e.at - Window)
                                        => b[1] \in WalletsOf(s[m])
<1> DEFINE e == s[m].signals[r]
<1>1. now \in Nat /\ Window \in Nat
  BY GraphAssumption DEF PollIs, GraphIs
<1>2. e \in Episode
  BY DEF From, ConvOK, StateOK, SignalsOK
<1>3. e.at \in Nat /\ e.done \subseteq Checkpoints
  BY <1>2 DEF Episode
<1>4. \A b \in buys' :
        /\ b[3] <= now
        /\ b[3] >= now - Window => b[2] \in DOMAIN s /\ Has(s[b[2]], b[1], b[3])
  BY FromKeeps
<1>5. CASE m \in DOMAIN conv /\ r \in DOMAIN conv[m].signals /\ e = conv[m].signals[r]
  <2>1. e.at <= now /\ (e.done # Checkpoints =>
             /\ Awaited(e)
             /\ \A b \in buys : (b[2] = m /\ b[3] <= e.at /\ b[3] >= e.at - Window)
                                  => b[1] \in WalletsOf(conv[m]))
    BY <1>5 DEF AllKept, AwaitedAll
  <2>2. ASSUME e.done # Checkpoints, NEW b \in buys', b[2] = m,
               b[3] <= e.at, b[3] >= e.at - Window
        PROVE  b[1] \in WalletsOf(s[m])
    <3>1. Awaited(conv[m].signals[r])
      BY <1>5, <2>1, <2>2
    <3>2. CASE b \in buys
      <4>1. b[1] \in WalletsOf(conv[m])
        BY <2>1, <2>2, <3>2
      <4> QED
        BY <1>5, <3>1, <4>1 DEF From
    <3>3. CASE b \notin buys
      <4>1. <<b[1], b[2]>> \in new
        BY <3>3
      <4>2. Has(s[m], b[1], now)
        BY <2>2, <4>1 DEF From
      <4> QED
        BY <4>2, HasIn
    <3> QED
      BY <3>2, <3>3
  <2> QED
    BY <1>2, <2>1, <2>2
<1>6. CASE e = [at |-> now, done |-> {}]
  <2>1. e.at = now /\ e.done = {}
    BY <1>6
  <2> HIDE DEF e
  <2>2. Awaited(e)
    BY <1>1, <2>1, LastIs, GraphAssumption DEF Awaited
  <2>3. ASSUME NEW b \in buys', b[2] = m, b[3] >= e.at - Window
        PROVE  b[1] \in WalletsOf(s[m])
    <3>1. Has(s[m], b[1], b[3])
      BY <1>4, <2>1, <2>3
    <3> QED
      BY <3>1, HasIn
  <2> QED
    BY <1>1, <1>2, <2>1, <2>2, <2>3 DEF e
<1> QED
  BY <1>5, <1>6 DEF From

\* A follow-up that is sent is one that was awaited, some time after.
LEMMA DueIs ==
  ASSUME NEW c, NEW x \in SnapshotsDue(c)
  PROVE  \E m \in DOMAIN c : \E r \in DOMAIN c[m].signals : \E k \in Checkpoints :
           /\ k \notin c[m].signals[r].done /\ now - c[m].signals[r].at >= k
           /\ x.mint = m /\ x.at = c[m].signals[r].at
           /\ x.wallets = WalletsOf(c[m])
<1>1. PICK m \in DOMAIN c : x \in UNION {{Snapshot(m, r, c[m], k) : k \in Due(c[m], r)} :
                                           r \in DOMAIN c[m].signals}
  BY DEF SnapshotsDue
<1>2. PICK r \in DOMAIN c[m].signals : x \in {Snapshot(m, r, c[m], k) : k \in Due(c[m], r)}
  BY <1>1
<1>3. PICK k \in Due(c[m], r) : x = Snapshot(m, r, c[m], k)
  BY <1>2
<1>4. k \in Checkpoints /\ k \notin c[m].signals[r].done /\ now - c[m].signals[r].at >= k
  BY <1>3 DEF Due
<1>5. x.mint = m /\ x.at = c[m].signals[r].at /\ x.wallets = WalletsOf(c[m])
  BY <1>3 DEF Snapshot
<1> QED
  BY <1>4, <1>5

LEMMA NothingDue ==
  ASSUME NEW c, SnapshotsDue(c) = {}, NEW m \in DOMAIN c, NEW r \in DOMAIN c[m].signals,
         NEW k \in Checkpoints, k \notin c[m].signals[r].done
  PROVE  ~(now - c[m].signals[r].at >= k)
<1> SUFFICES ASSUME now - c[m].signals[r].at >= k PROVE FALSE
  OBVIOUS
<1>1. k \in Due(c[m], r)
  BY DEF Due
<1>2. Snapshot(m, r, c[m], k) \in {Snapshot(m, r, c[m], j) : j \in Due(c[m], r)}
  BY <1>1
<1>3. Snapshot(m, r, c[m], k) \in SnapshotsDue(c)
  BY <1>2 DEF SnapshotsDue
<1> QED
  BY <1>3

\* The clock goes on when nothing is due.
LEMMA ClockKeeps ==
  ASSUME PollIs, AllKept, UNCHANGED <<conv, snapshots, buys>>,
         now' = now + 1, SnapshotsDue(conv) = {}
  PROVE  AllKept'
<1>1. now \in Nat /\ ConvOK(conv) /\ Window \in Nat
  BY GraphAssumption DEF PollIs, GraphIs
<1>2. Kept(conv)'
  <2>1. \A b \in buys : b[3] \in Nat
    BY BuysAre
  <2> QED
    BY <1>1, <2>1 DEF AllKept, Kept
<1>3. AwaitedAll(conv)'
  <2> SUFFICES ASSUME NEW m \in DOMAIN conv, NEW r \in DOMAIN conv[m].signals
               PROVE  LET e == conv[m].signals[r]
                      IN  /\ e.at <= now'
                          /\ e.done # Checkpoints =>
                               /\ Awaited(e)'
                               /\ \A b \in buys : (b[2] = m /\ b[3] <= e.at /\ b[3] >= e.at - Window)
                                                    => b[1] \in WalletsOf(conv[m])
    BY DEF AwaitedAll, Awaited
  <2> DEFINE e == conv[m].signals[r]
  <2>1. e.at \in Nat /\ e.at <= now /\ (e.done # Checkpoints =>
             /\ Awaited(e)
             /\ \A b \in buys : (b[2] = m /\ b[3] <= e.at /\ b[3] >= e.at - Window)
                                  => b[1] \in WalletsOf(conv[m]))
    BY <1>1 DEF AllKept, AwaitedAll, ConvOK, StateOK, SignalsOK, Episode
  <2>2. \A k \in Checkpoints \ e.done : ~(now - e.at >= k) /\ k \in Nat
    BY NothingDue, LastIs
  <2> HIDE DEF e
  <2>3. \A k \in Checkpoints \ e.done : now + 1 <= e.at + k
    BY <1>1, <2>1, <2>2
  <2>4. e' = e
    BY DEF e
  <2> QED
    BY <1>1, <2>1, <2>3, <2>4 DEF Awaited, e
<1>4. \A s \in snapshots : s.at < now' /\ s.at \in Nat
  BY <1>1 DEF AllKept
<1> QED
  BY <1>2, <1>3, <1>4 DEF AllKept

LEMMA KeptNext ==
  ASSUME ~SocketMayMiss, PollIs, PollIs', Next, AllKept, Roomy
  PROVE  AllKept'
<1>1. CASE SameConv
  <2>1. CASE now' = now
    BY <1>1, <2>1 DEF SameConv, AllKept, Kept, AwaitedAll, Awaited
  <2>2. CASE now' = now + 1 /\ SnapshotsDue(conv) = {}
    BY <1>1, <2>2, ClockKeeps DEF SameConv
  <2> QED
    BY <1>1, <2>1, <2>2 DEF SameConv
<1>2. CASE NewConv
  <2>1. PICK s, new :
          /\ From(s, new) /\ conv' = Marked(s)
          /\ snapshots' = snapshots \cup SnapshotsDue(s)
          /\ \A b \in buys' \ buys : b[3] = now /\ <<b[1], b[2]>> \in new
    BY <1>2 DEF NewConv
  <2>2. now' = now /\ now \in Nat
    BY <1>2 DEF NewConv, PollIs, GraphIs
  <2>3. \A b \in buys' :
          /\ b[3] <= now
          /\ b[3] >= now - Window => b[2] \in DOMAIN s /\ Has(s[b[2]], b[1], b[3])
    BY <2>1, <2>2, FromKeeps
  <2>4. ASSUME NEW m \in DOMAIN s, NEW r \in DOMAIN s[m].signals
        PROVE  /\ s[m].signals[r] \in Episode /\ s[m].signals[r].at <= now
               /\ s[m].signals[r].done # Checkpoints =>
                    /\ Awaited(s[m].signals[r])
                    /\ \A b \in buys' : (b[2] = m /\ b[3] <= s[m].signals[r].at
                                           /\ b[3] >= s[m].signals[r].at - Window)
                                          => b[1] \in WalletsOf(s[m])
    BY <2>1, <2>2, FromAwaits
  <2>5. /\ ConvOK(s) /\ DOMAIN conv' = DOMAIN s
        /\ \A n \in DOMAIN s :
              /\ conv'[n].parents = s[n].parents
              /\ conv'[n].children = s[n].children
              /\ DOMAIN conv'[n].signals = DOMAIN s[n].signals
              /\ \A r \in DOMAIN s[n].signals :
                   /\ conv'[n].signals[r].at = s[n].signals[r].at
                   /\ conv'[n].signals[r].done = s[n].signals[r].done \cup Due(s[n], r)
    BY <2>1, MarkedIs DEF From
  <2>6. \A n \in DOMAIN s : /\ WalletsOf(conv'[n]) = WalletsOf(s[n])
                            /\ \A v, t : Has(conv'[n], v, t) <=> Has(s[n], v, t)
    BY <2>5 DEF WalletsOf, Has
  <2>7. Kept(conv)'
    BY <2>2, <2>3, <2>5, <2>6 DEF Kept
  <2>8. ASSUME NEW m \in DOMAIN conv', NEW r \in DOMAIN conv'[m].signals
        PROVE  /\ conv'[m].signals[r].at <= now
               /\ conv'[m].signals[r].done # Checkpoints =>
                    /\ \A k \in Checkpoints \ conv'[m].signals[r].done :
                         now <= conv'[m].signals[r].at + k
                    /\ \A b \in buys' : (b[2] = m /\ b[3] <= conv'[m].signals[r].at
                                           /\ b[3] >= conv'[m].signals[r].at - Window)
                                          => b[1] \in WalletsOf(conv'[m])
    <3>1. /\ m \in DOMAIN s /\ r \in DOMAIN s[m].signals
          /\ conv'[m].signals[r].at = s[m].signals[r].at
          /\ conv'[m].signals[r].done = s[m].signals[r].done \cup Due(s[m], r)
          /\ WalletsOf(conv'[m]) = WalletsOf(s[m])
      BY <2>5, <2>6
    <3>2. conv'[m].signals[r].done # Checkpoints => s[m].signals[r].done # Checkpoints
      <4>1. Due(s[m], r) \subseteq Checkpoints
        BY DEF Due
      <4> QED
        BY <3>1, <4>1
    <3> QED
      BY <2>4, <3>1, <3>2 DEF Awaited
  <2>9. AwaitedAll(conv)'
    BY <2>2, <2>8 DEF AwaitedAll, Awaited
  <2>10. ASSUME NEW x \in SnapshotsDue(s)
         PROVE  x.at < now /\ x.at \in Nat
    <3>1. PICK m \in DOMAIN s : \E r \in DOMAIN s[m].signals : \E k \in Checkpoints :
             now - s[m].signals[r].at >= k /\ x.at = s[m].signals[r].at
      BY DueIs
    <3>2. PICK r \in DOMAIN s[m].signals : \E k \in Checkpoints :
             now - s[m].signals[r].at >= k /\ x.at = s[m].signals[r].at
      BY <3>1
    <3>3. PICK k \in Checkpoints : now - x.at >= k /\ x.at = s[m].signals[r].at
      BY <3>2
    <3>4. x.at \in Nat
      BY <2>4, <3>3 DEF Episode
    <3> QED
      BY <2>2, <3>3, <3>4, LastIs
  <2>11. \A x \in snapshots' : x.at < now' /\ x.at \in Nat
    BY <2>1, <2>2, <2>10 DEF AllKept
  <2> QED
    BY <2>7, <2>9, <2>11 DEF AllKept
<1> QED
  BY <1>1, <1>2, ConvSteps

LEMMA WatchedNext ==
  ASSUME ~SocketMayMiss, PollIs, PollIs', Next, AllKept, Roomy, WatchedKept
  PROVE  WatchedKept'
<1>1. CASE SameConv
  BY <1>1 DEF SameConv, WatchedKept
<1>2. CASE NewConv
  <2>1. PICK s, new :
          /\ From(s, new)
          /\ snapshots' = snapshots \cup SnapshotsDue(s)
          /\ \A b \in buys' \ buys : b[3] = now /\ <<b[1], b[2]>> \in new
    BY <1>2 DEF NewConv
  <2>2. now' = now /\ now \in Nat
    BY <1>2 DEF NewConv, PollIs, GraphIs
  <2> SUFFICES ASSUME NEW x \in snapshots', NEW b \in buys', b[2] = x.mint,
                      b[3] <= x.at, b[3] >= x.at - Window
               PROVE  b[1] \in x.wallets
    BY DEF WatchedKept
  <2>3. CASE x \in snapshots
    <3>1. x.at < now /\ x.at \in Nat
      BY <2>3 DEF AllKept
    <3>2. b \in buys
      <4>1. ASSUME b \notin buys PROVE FALSE
        <5>1. b[3] = now
          BY <2>1, <4>1
        <5>2. now <= x.at
          BY <5>1
        <5> QED
          BY <2>2, <3>1, <5>2
      <4> QED
        BY <4>1
    <3> QED
      BY <2>3, <3>2 DEF WatchedKept
  <2>4. CASE x \in SnapshotsDue(s)
    <3>1. PICK m \in DOMAIN s : \E r \in DOMAIN s[m].signals : \E k \in Checkpoints :
             /\ k \notin s[m].signals[r].done
             /\ x.mint = m /\ x.at = s[m].signals[r].at /\ x.wallets = WalletsOf(s[m])
      BY <2>4, DueIs
    <3>2. PICK r \in DOMAIN s[m].signals : \E k \in Checkpoints :
             /\ k \notin s[m].signals[r].done
             /\ x.mint = m /\ x.at = s[m].signals[r].at /\ x.wallets = WalletsOf(s[m])
      BY <3>1
    <3>3. s[m].signals[r].done # Checkpoints
      BY <3>2
    <3>4. \A d \in buys' : (d[2] = m /\ d[3] <= s[m].signals[r].at
                              /\ d[3] >= s[m].signals[r].at - Window)
                             => d[1] \in WalletsOf(s[m])
      BY <2>1, <2>2, <3>3, FromAwaits
    <3> QED
      BY <3>2, <3>4
  <2> QED
    BY <2>1, <2>3, <2>4
<1> QED
  BY <1>1, <1>2, ConvSteps

\* When the socket misses no trade, and as long as no mint has to give way to
\* others, no pruning takes a wallet away whose follow-up is awaited.
THEOREM PollKeepsWatched ==
  ASSUME ~SocketMayMiss
  PROVE  Spec /\ []Roomy => []WatchedKept
<1>1. Init => AllKept /\ WatchedKept
  <2> SUFFICES ASSUME Init PROVE AllKept /\ WatchedKept
    OBVIOUS
  <2>1. conv = <<>> /\ DOMAIN conv = {} /\ buys = {} /\ snapshots = {}
    BY DEF Init, GraphInit
  <2> QED
    BY <2>1 DEF AllKept, Kept, AwaitedAll, WatchedKept
<1>2. PollIs /\ PollIs' /\ AllKept /\ Roomy /\ [Next]_vars => AllKept'
  <2>1. AllKept /\ UNCHANGED vars => AllKept'
    BY DEF AllKept, Kept, AwaitedAll, Awaited, vars, graphVars, pollVars
  <2> QED
    BY <2>1, KeptNext
<1>3. PollIs /\ PollIs' /\ AllKept /\ Roomy /\ WatchedKept /\ [Next]_vars => WatchedKept'
  <2>1. WatchedKept /\ UNCHANGED vars => WatchedKept'
    BY DEF WatchedKept, vars, graphVars, pollVars
  <2> QED
    BY <2>1, WatchedNext
<1> QED
  BY <1>1, <1>2, <1>3, PollTyped, PTL DEF Spec

-----------------------------------------------------------------------------
(* The child and its parent on one mint, in whatever order. *)

\* No proven parent is watched as a child.
Apart == parents \cap DOMAIN children = {}

Touching == {"create", "buy"}

\* What was touched exists, every touch of a parent that the chain tells of is
\* known, and so is the row of every key.
TouchesKnown ==
  /\ emitted \subseteq signalRows
  /\ \A p, m : <<p, m>> \in parentTouched => m \in created
  /\ childTouched \subseteq Wallets \X created \X Wallets
  /\ \A p \in Wallets, m \in Mints, kind \in Touching :
       OnChain(p, m, kind) => <<p, m>> \in parentTouched

\* One observation: what it touches, and the rows of a buy.
LEMMA ObserveAdds ==
  ASSUME PollIs, NEW w \in Wallets, NEW m \in Mints, NEW kind \in Kinds,
         Observe(w, m, kind), emitted \subseteq signalRows
  PROVE  /\ parentTouched' = IF kind \in Touching /\ w \in parents
                             THEN parentTouched \cup {<<w, m>>} ELSE parentTouched
         /\ childTouched' = IF kind \in Touching /\ w \in DOMAIN Watched
                            THEN childTouched \cup {<<Watched[w].parent, m, w>>}
                            ELSE childTouched
         /\ signalRows \subseteq signalRows' /\ emitted' \subseteq signalRows'
         /\ kind = "buy" => /\ ParentKeys(w, m) \subseteq signalRows'
                            /\ \E g : ChildKeys(w, m, parentTouched', g) \subseteq signalRows'
<1> DEFINE p == IF w \in DOMAIN Watched THEN Watched[w].parent ELSE None
<1>1. w \in DOMAIN Watched <=> p # None
  <2>1. w \in DOMAIN Watched => Watched[w].parent \in Wallets
    BY WatchedIs DEF PollIs, GraphIs, Kid
  <2> QED
    BY <2>1, GraphAssumption
<1>2. w \in DOMAIN Watched => p = Watched[w].parent
  OBVIOUS
<1>3. ASSUME NEW keys, Queue(keys)
      PROVE  /\ signalRows \subseteq signalRows' /\ emitted' \subseteq signalRows'
             /\ keys \subseteq signalRows'
  <2>1. KnownKeys \subseteq emitted
    BY DEF KnownKeys
  <2> QED
    BY <1>3, <2>1 DEF Queue
<1>4. CASE kind = "create"
  <2>1. /\ parentTouched' = IF w \in parents THEN parentTouched \cup {<<w, m>>}
                            ELSE parentTouched
        /\ childTouched' = IF p # None THEN childTouched \cup {<<p, m, w>>}
                           ELSE childTouched
        /\ \E keys : Queue(keys)
    BY <1>4 DEF Observe, ObserveCreate
  <2> HIDE DEF p
  <2> QED
    BY <1>1, <1>2, <1>3, <1>4, <2>1 DEF Touching
<1>5. CASE kind # "create"
  <2> DEFINE buy == kind = "buy"
  <2>1. /\ parentTouched' = IF buy /\ w \in parents THEN parentTouched \cup {<<w, m>>}
                            ELSE parentTouched
        /\ childTouched' = IF buy /\ p # None THEN childTouched \cup {<<p, m, w>>}
                           ELSE childTouched
        /\ \E g : Queue(IF ~buy THEN {} ELSE ParentKeys(w, m) \cup ChildKeys(w, m, parentTouched', g))
    BY <1>5 DEF Observe, ObserveTrade
  <2> HIDE DEF p
  <2>2. kind \in Touching <=> buy
    BY <1>5 DEF Touching
  <2>3. PICK g : Queue(IF ~buy THEN {} ELSE ParentKeys(w, m) \cup ChildKeys(w, m, parentTouched', g))
    BY <2>1
  <2>4. /\ signalRows \subseteq signalRows' /\ emitted' \subseteq signalRows'
        /\ buy => ParentKeys(w, m) \cup ChildKeys(w, m, parentTouched', g) \subseteq signalRows'
    BY <1>3, <2>3
  <2> QED
    BY <1>1, <1>2, <2>1, <2>2, <2>4
<1> QED
  BY <1>4, <1>5

\* The rows of a buy hold the cluster, whoever of the two came first.
LEMMA BuyRows ==
  ASSUME PollIs, Apart, NEW w \in Wallets, NEW m \in Mints,
         Observe(w, m, "buy"), emitted \subseteq signalRows, ClusterSeen
  PROVE  ClusterSeen'
<1>1. /\ parentTouched' = IF w \in parents THEN parentTouched \cup {<<w, m>>}
                          ELSE parentTouched
      /\ childTouched' = IF w \in DOMAIN Watched
                         THEN childTouched \cup {<<Watched[w].parent, m, w>>}
                         ELSE childTouched
      /\ signalRows \subseteq signalRows'
      /\ ParentKeys(w, m) \subseteq signalRows'
      /\ \E g : ChildKeys(w, m, parentTouched', g) \subseteq signalRows'
  <2>1. "buy" \in Kinds /\ "buy" \in Touching
    BY DEF Kinds, Touching
  <2> QED
    BY <2>1, ObserveAdds
<1>2. w \in parents => w \notin DOMAIN Watched
  BY WatchedIs DEF PollIs, Apart
<1> SUFFICES ASSUME NEW q \in Wallets, NEW n \in Mints, <<q, n>> \in parentTouched',
                    NEW t \in childTouched', t[1] = q, t[2] = n
             PROVE  \E k \in signalRows' : k[1] = "PARENT_CHILD" /\ k[2] = n /\ k[3] = q
  BY DEF ClusterSeen
<1>3. CASE <<q, n>> \in parentTouched /\ t \in childTouched
  <2>1. \E k \in signalRows : k[1] = "PARENT_CHILD" /\ k[2] = n /\ k[3] = q
    BY <1>3 DEF ClusterSeen
  <2> QED
    BY <1>1, <2>1
<1>4. CASE <<q, n>> \notin parentTouched
  <2>1. q = w /\ n = m /\ w \in parents /\ t \in childTouched
    BY <1>1, <1>2, <1>4
  <2> DEFINE k == Key("PARENT_CHILD", m, w, None)
  <2>2. k \in ParentKeys(w, m)
    BY <2>1 DEF ParentKeys
  <2>3. k[1] = "PARENT_CHILD" /\ k[2] = m /\ k[3] = w
    BY DEF Key
  <2> HIDE DEF k
  <2> QED
    BY <1>1, <2>1, <2>2, <2>3
<1>5. CASE t \notin childTouched
  <2>1. w \in DOMAIN Watched /\ t = <<Watched[w].parent, m, w>>
    BY <1>1, <1>5
  <2>2. Watched[w].parent = q /\ m = n
    BY <2>1
  <2>3. PICK g : ChildKeys(w, m, parentTouched', g) \subseteq signalRows'
    BY <1>1
  <2> DEFINE k == Key("PARENT_CHILD", m, q, w)
  <2>4. k[1] = "PARENT_CHILD" /\ k[2] = m /\ k[3] = q
    BY DEF Key
  <2>5. k \in ChildKeys(w, m, parentTouched', g)
    BY <2>1, <2>2, <2>4 DEF ChildKeys
  <2> HIDE DEF k
  <2> QED
    BY <2>2, <2>3, <2>4, <2>5
<1> QED
  BY <1>3, <1>4, <1>5

\* A create touches a mint that nobody touched before, or is read again.
LEMMA CreateRows ==
  ASSUME PollIs, Apart, TouchesKnown, ClusterSeen,
         NEW w \in Wallets, NEW m \in Mints, Observe(w, m, "create"),
         m \notin created \/ (w \in parents /\ OnChain(w, m, "create"))
  PROVE  ClusterSeen'
<1>1. /\ parentTouched' = IF w \in parents THEN parentTouched \cup {<<w, m>>}
                          ELSE parentTouched
      /\ childTouched' = IF w \in DOMAIN Watched
                         THEN childTouched \cup {<<Watched[w].parent, m, w>>}
                         ELSE childTouched
      /\ signalRows \subseteq signalRows'
  <2>1. "create" \in Kinds /\ "create" \in Touching
    BY DEF Kinds, Touching
  <2> QED
    BY <2>1, ObserveAdds DEF TouchesKnown
<1>2. w \in parents => w \notin DOMAIN Watched
  BY WatchedIs DEF PollIs, Apart
<1> SUFFICES ASSUME NEW q \in Wallets, NEW n \in Mints, <<q, n>> \in parentTouched',
                    NEW t \in childTouched', t[1] = q, t[2] = n
             PROVE  <<q, n>> \in parentTouched /\ t \in childTouched
  BY <1>1 DEF ClusterSeen
<1>3. CASE m \notin created
  <2>1. CASE n # m
    BY <1>1, <2>1
  <2>2. CASE n = m
    <3>1. <<q, n>> \notin parentTouched /\ t \notin childTouched
      BY <1>3, <2>2 DEF TouchesKnown
    <3> QED
      BY <1>1, <1>2, <3>1
  <2> QED
    BY <2>1, <2>2
<1>4. CASE w \in parents /\ OnChain(w, m, "create")
  <2>1. <<w, m>> \in parentTouched
    BY <1>4 DEF TouchesKnown, Touching
  <2> QED
    BY <1>1, <1>2, <1>4, <2>1
<1> QED
  BY <1>3, <1>4

LEMMA SellRows ==
  ASSUME PollIs, TouchesKnown, ClusterSeen,
         NEW w \in Wallets, NEW m \in Mints, Observe(w, m, "sell")
  PROVE  ClusterSeen'
<1>1. "sell" \in Kinds /\ "sell" \notin Touching
  BY DEF Kinds, Touching
<1> QED
  BY <1>1, ObserveAdds DEF TouchesKnown, ClusterSeen

\* An observation of what happens now, or of what the chain tells.
LEMMA ObservedKnown ==
  ASSUME PollIs, TouchesKnown, created \subseteq created',
         NEW w \in Wallets, NEW m \in Mints, NEW kind \in Kinds, Observe(w, m, kind),
         m \in created',
         \A p \in Wallets, n \in Mints, k \in Kinds :
           OnChain(p, n, k)' => \/ OnChain(p, n, k)
                                \/ p = w /\ n = m /\ k = kind /\ w \in parents
  PROVE  TouchesKnown'
<1>1. /\ parentTouched' = IF kind \in Touching /\ w \in parents
                          THEN parentTouched \cup {<<w, m>>} ELSE parentTouched
      /\ childTouched' = IF kind \in Touching /\ w \in DOMAIN Watched
                         THEN childTouched \cup {<<Watched[w].parent, m, w>>}
                         ELSE childTouched
      /\ emitted' \subseteq signalRows'
  BY ObserveAdds DEF TouchesKnown
<1>2. w \in DOMAIN Watched => Watched[w].parent \in Wallets
  BY WatchedIs DEF PollIs, GraphIs, Kid
<1>3. \A p, n : <<p, n>> \in parentTouched' => n \in created'
  BY <1>1 DEF TouchesKnown
<1>4. childTouched' \subseteq Wallets \X created' \X Wallets
  <2>1. childTouched \subseteq Wallets \X created' \X Wallets
    BY DEF TouchesKnown
  <2>2. w \in DOMAIN Watched => <<Watched[w].parent, m, w>> \in Wallets \X created' \X Wallets
    BY <1>2
  <2> QED
    BY <1>1, <2>1, <2>2
<1>5. ASSUME NEW p \in Wallets, NEW n \in Mints, NEW k \in Touching, OnChain(p, n, k)'
      PROVE  <<p, n>> \in parentTouched'
  <2>1. k \in Kinds
    BY DEF Touching, Kinds
  <2>2. OnChain(p, n, k) \/ (p = w /\ n = m /\ k = kind /\ w \in parents)
    BY <1>5, <2>1
  <2> QED
    BY <1>1, <2>2 DEF TouchesKnown
<1> QED
  BY <1>1, <1>3, <1>4, <1>5 DEF TouchesKnown

LEMMA ChainExists ==
  ASSUME TouchesKnown, NEW p \in Wallets, NEW m \in Mints, NEW kind \in Touching,
         OnChain(p, m, kind)
  PROVE  m \in created
  BY DEF TouchesKnown

LEMMA ClusterNext ==
  ASSUME ~SocketMayMiss, PollIs, Next, Apart, TouchesKnown, ClusterSeen
  PROVE  TouchesKnown' /\ ClusterSeen'
<1>1. parents \subseteq Wallets
  BY DEF PollIs, GraphIs
<1>2. ASSUME NEW w \in Wallets, NEW m \in Mints, NEW kind \in Kinds, TradeStep(w, m, kind)
      PROVE  TouchesKnown' /\ ClusterSeen'
  <2>1. Observe(w, m, kind) /\ created' = created \cup {m}
    BY <1>2 DEF TradeStep, OnMint
  <2>2. TouchesKnown'
    BY <1>2, <2>1, ObservedKnown DEF TradeStep
  <2>3. CASE kind = "create"
    <3>1. m \notin created
      BY <1>2, <2>3 DEF TradeStep, OnMint
    <3> QED
      BY <2>1, <2>2, <2>3, <3>1, CreateRows
  <2>4. CASE kind = "buy"
    BY <2>1, <2>2, <2>4, BuyRows DEF TouchesKnown
  <2>5. CASE kind = "sell"
    BY <2>1, <2>2, <2>5, SellRows
  <2> QED
    BY <2>3, <2>4, <2>5 DEF Kinds
<1>3. ASSUME NEW w \in parents, NEW m \in Mints, NEW kind \in Kinds, RereadStep(w, m, kind)
      PROVE  TouchesKnown' /\ ClusterSeen'
  <2>1. /\ w \in Wallets /\ Observe(w, m, kind) /\ OnChain(w, m, kind)
        /\ UNCHANGED <<chain, created>>
    BY <1>1, <1>3 DEF RereadStep
  <2>2. \A p \in Wallets, n \in Mints, k \in Kinds :
          OnChain(p, n, k)' => OnChain(p, n, k)
    BY <2>1 DEF OnChain
  <2>3. CASE kind = "create"
    <3>1. m \in created
      BY <2>1, <2>3, ChainExists DEF Touching
    <3>2. TouchesKnown'
      BY <2>1, <2>2, <3>1, ObservedKnown
    <3> QED
      BY <2>1, <2>3, <3>2, CreateRows
  <2>4. CASE kind = "buy"
    <3>1. m \in created
      BY <2>1, <2>4, ChainExists DEF Touching
    <3>2. TouchesKnown'
      BY <2>1, <2>2, <3>1, ObservedKnown
    <3> QED
      BY <2>1, <2>4, <3>2, BuyRows DEF TouchesKnown
  <2>5. CASE kind = "sell"
    <3>1. kind \notin Touching
      BY <2>5 DEF Touching
    <3>2. /\ UNCHANGED <<parentTouched, childTouched>> /\ emitted' \subseteq signalRows'
      BY <2>1, <3>1, ObserveAdds DEF TouchesKnown
    <3>3. \A k \in Touching : k \in Kinds
      BY DEF Touching, Kinds
    <3>4. TouchesKnown'
      BY <2>1, <2>2, <3>2, <3>3 DEF TouchesKnown
    <3> QED
      BY <2>1, <2>5, <3>4, SellRows
  <2> QED
    BY <2>3, <2>4, <2>5 DEF Kinds
<1>4. ASSUME UNCHANGED <<parentTouched, childTouched, emitted, signalRows, created>>,
             \A p \in Wallets, n \in Mints, k \in Kinds :
               OnChain(p, n, k)' => OnChain(p, n, k)
      PROVE  TouchesKnown' /\ ClusterSeen'
  <2>1. \A k \in Touching : k \in Kinds
    BY DEF Touching, Kinds
  <2> QED
    BY <1>4, <2>1 DEF TouchesKnown, ClusterSeen
<1>5. CASE CollectDue /\ UNCHANGED <<chain, created, buys>>
  BY <1>4, <1>5 DEF CollectDue, OnChain
<1>6. CASE QuietStep
  BY <1>4, <1>6 DEF QuietStep
<1> QED
  BY <1>2, <1>3, <1>5, <1>6, StepCases

\* When the socket misses no trade, and as long as no proven parent is watched
\* as a child, the history of a child and its parent on one mint gives a row,
\* whoever came first and however often the key set was cleared.
THEOREM PollSeesClusters ==
  ASSUME ~SocketMayMiss
  PROVE  Spec /\ []Apart => []ClusterSeen
<1>1. Init => TouchesKnown /\ ClusterSeen
  BY DEF Init, GraphInit, TouchesKnown, ClusterSeen, OnChain
<1>2. PollIs /\ Apart /\ TouchesKnown /\ ClusterSeen /\ [Next]_vars
        => TouchesKnown' /\ ClusterSeen'
  <2>1. TouchesKnown /\ ClusterSeen /\ UNCHANGED vars => TouchesKnown' /\ ClusterSeen'
    BY DEF TouchesKnown, ClusterSeen, OnChain, vars, graphVars, pollVars
  <2> QED
    BY <2>1, ClusterNext
<1> QED
  BY <1>1, <1>2, PollTyped, PTL DEF Spec

-----------------------------------------------------------------------------
(* When the wallets of the rosters and those that are watched are others, the *)
(* two conditions on the roles hold of every behaviour.                       *)

AnyRoster == UNION Rosters
AnyChild == Fresh \cup UNION {DOMAIN rows : rows \in EarlierRows}
Separate == AnyRoster \cap AnyChild = {}

Roles ==
  /\ parents \subseteq AnyRoster /\ DOMAIN children \subseteq AnyChild
  /\ \A m \in DOMAIN conv : /\ DOMAIN conv[m].parents \subseteq AnyRoster
                            /\ DOMAIN conv[m].children \subseteq AnyChild

LEMMA RolesNext ==
  ASSUME PollIs, Next, Roles
  PROVE  Roles'
<1>1. parents' \subseteq AnyRoster
  BY WatchSteps DEF RosterStep, Roles, AnyRoster
<1>2. DOMAIN Watched \subseteq DOMAIN children
  BY WatchedIs DEF PollIs
<1>3. DOMAIN children' \subseteq AnyChild
  <2>1. CASE children' = children \/ children' = Watched
    BY <1>2, <2>1 DEF Roles
  <2>2. CASE \E p \in Wallets : \E i \in 1..Len(chain[p]) :
               /\ chain[p][i].kind = "fund" /\ chain[p][i].on \in Fresh
               /\ CacheChild(chain[p][i].on, p, chain[p][i].at)
    <3>1. PICK p \in Wallets : \E i \in 1..Len(chain[p]) :
               /\ chain[p][i].on \in Fresh
               /\ CacheChild(chain[p][i].on, p, chain[p][i].at)
      BY <2>2
    <3>2. PICK w, t : w \in Fresh /\ CacheChild(w, p, t)
      BY <3>1
    <3>3. DOMAIN children' = DOMAIN children \cup {w}
      BY <3>2 DEF CacheChild, With
    <3> QED
      BY <3>2, <3>3 DEF Roles, AnyChild
  <2> QED
    BY <2>1, <2>2, WatchSteps DEF WatchStep
<1>4. ASSUME NEW m \in DOMAIN conv'
      PROVE  /\ DOMAIN conv'[m].parents \subseteq AnyRoster
             /\ DOMAIN conv'[m].children \subseteq AnyChild
  <2>1. CASE SameConv
    BY <1>4, <2>1 DEF SameConv, Roles
  <2>2. CASE NewConv
    <3>1. PICK s, new : From(s, new) /\ conv' = Marked(s)
      BY <2>2 DEF NewConv
    <3>2. /\ m \in DOMAIN s
          /\ conv'[m].parents = s[m].parents /\ conv'[m].children = s[m].children
      BY <1>4, <3>1, MarkedIs DEF From
    <3>3. OfRoles(s[m], conv, m)
      BY <3>1, <3>2 DEF From
    <3> QED
      BY <1>2, <3>2, <3>3 DEF OfRoles, Roles
  <2> QED
    BY <2>1, <2>2, ConvSteps
<1> QED
  BY <1>1, <1>3, <1>4 DEF Roles

LEMMA RolesApart ==
  ASSUME Separate
  PROVE  Spec => [](Apart /\ OneRole)
<1>1. Init => Roles
  <2> SUFFICES ASSUME Init PROVE Roles
    OBVIOUS
  <2>1. parents \subseteq AnyRoster
    BY DEF Init, GraphInit, AnyRoster
  <2>2. DOMAIN children \subseteq AnyChild
    <3>1. PICK rows \in EarlierRows : children = Recalled(rows)
      BY DEF Init, GraphInit
    <3>2. DOMAIN children \subseteq DOMAIN rows
      BY <3>1 DEF Recalled
    <3> QED
      BY <3>2 DEF AnyChild
  <2>3. DOMAIN conv = {}
    BY DEF Init, GraphInit
  <2> QED
    BY <2>1, <2>2, <2>3 DEF Roles
<1>2. PollIs /\ Roles /\ [Next]_vars => Roles'
  <2>1. Roles /\ UNCHANGED vars => Roles'
    BY DEF Roles, vars, graphVars
  <2> QED
    BY <2>1, RolesNext
<1>3. Roles => Apart /\ OneRole
  BY DEF Roles, Apart, OneRole, Separate
<1> QED
  BY <1>1, <1>2, <1>3, PollTyped, PTL DEF Spec

\* There is room when there are no more mints than the capacity.
LEMMA FewMints ==
  ASSUME Cardinality(Mints) <= MaxMints
  PROVE  Spec => []Roomy
<1>1. PollIs => Roomy
  <2> SUFFICES ASSUME PollIs PROVE Roomy
    OBVIOUS
  <2>1. DOMAIN conv \subseteq Mints
    BY DEF PollIs, GraphIs, ConvOK
  <2>2. /\ Cardinality(DOMAIN conv) <= Cardinality(Mints)
        /\ Cardinality(DOMAIN conv) \in Nat /\ Cardinality(Mints) \in Nat
    BY <2>1, FS_Subset, FS_CardinalityType, GraphAssumption
  <2> QED
    BY <2>2, GraphAssumption DEF Roomy
<1> QED
  BY <1>1, PollTyped, PTL

\* With the roles apart and room for the mints, the three hold of every
\* behaviour: the conditions of the theorems above are met.
THEOREM PollCorrect ==
  ASSUME ~SocketMayMiss, Separate, Cardinality(Mints) <= MaxMints
  PROVE  Spec => [](ClusterSeen /\ ConvergedForReal /\ WatchedKept /\ NothingSkipped)
  BY RolesApart, FewMints, PollSeesClusters, PollConvergesForReal, PollKeepsWatched,
     PollSkipsNothing, PTL
=============================================================================
