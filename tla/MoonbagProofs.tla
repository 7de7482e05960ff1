--------------------------- MODULE MoonbagProofs ---------------------------
(***************************************************************************)
(* What holds of the moonbag tracker for all promotions, prices, limits    *)
(* and caps, and that it is the ledger MoonbagLedger promises.             *)
(***************************************************************************)
EXTENDS Moonbag, SumLemmas

-----------------------------------------------------------------------------
(* The end of a turn: what is left when some indices have been removed     *)
(* from a list, the last one first.                                        *)

Pos == [id : Positions, peak : Nat, state : States, trail : Nat, cap : Nat,
        gate : BOOLEAN, fast : BOOLEAN, pending : BOOLEAN,
        extended : BOOLEAN, age : Nat, since : Nat]

\* No id is in the list q twice.
Distinct(q) == \A i, j \in DOMAIN q : q[i].id = q[j].id => i = j

Ids(q) == {q[i].id : i \in DOMAIN q}

Emptyings == [left : Seq(Pos), sent : Seq(Positions), rows : Seq(Positions)]

LEMMA MinIs ==
  ASSUME NEW S \in SUBSET Nat, IsFiniteSet(S), S # {}
  PROVE  Min(S) \in S /\ \A y \in S : Min(S) <= y
<1> DEFINE P == {T \in SUBSET S : T = {} \/ \E x \in T : \A y \in T : x <= y}
<1>1. {} \in P
  OBVIOUS
<1>2. ASSUME NEW T \in SUBSET S, NEW x \in T, T \ {x} \in P
      PROVE  T \in P
  <2>1. CASE T = {x}
    <3>1. x <= x
      OBVIOUS
    <3> QED
      BY <2>1, <3>1
  <2>2. CASE T # {x}
    <3>1. PICK z \in T \ {x} : \A y \in T \ {x} : z <= y
      BY <1>2, <2>2
    <3>2. CASE x <= z
      BY <1>2, <3>1, <3>2
    <3>3. CASE ~(x <= z)
      BY <1>2, <3>1, <3>3
    <3> QED
      BY <3>2, <3>3
  <2> QED
    BY <2>1, <2>2
<1>3. S \in P
  <2> HIDE DEF P
  <2> QED
    BY <1>1, <1>2, ElementInduction
<1>4. \E x \in S : \A y \in S : x <= y
  BY <1>3
<1> QED
  BY <1>4 DEF Min

LEMMA RemovedAt ==
  ASSUME NEW A, NEW q \in Seq(A), NEW i \in DOMAIN q
  PROVE  LET r == RemoveAt(q, i)
         IN  /\ r \in Seq(A) /\ Len(r) = Len(q) - 1
             /\ \A j \in DOMAIN r : r[j] = IF j < i THEN q[j] ELSE q[j + 1]
<1> DEFINE r == RemoveAt(q, i)
           a == SubSeq(q, 1, i - 1)
           b == SubSeq(q, i + 1, Len(q))
<1>1. i \in 1 .. Len(q) /\ Len(q) \in Nat /\ i \in Nat
  OBVIOUS
<1>2. a \in Seq(A) /\ Len(a) = i - 1 /\ \A j \in 1 .. i - 1 : a[j] = q[j]
  BY <1>1
<1>3. /\ b \in Seq(A) /\ Len(b) = Len(q) - i
      /\ \A j \in 1 .. Len(q) - i : b[j] = q[i + j]
  BY <1>1
<1>4. r = a \o b
  BY DEF RemoveAt
<1> HIDE DEF a, b, r
<1>5. r \in Seq(A) /\ Len(r) = Len(q) - 1
  BY <1>1, <1>2, <1>3, <1>4
<1>6. ASSUME NEW j \in DOMAIN r
      PROVE  r[j] = IF j < i THEN q[j] ELSE q[j + 1]
  <2>1. j \in 1 .. Len(q) - 1
    BY <1>5, <1>6
  <2>2. r[j] = IF j <= Len(a) THEN a[j] ELSE b[j - Len(a)]
    BY <1>1, <1>2, <1>3, <1>4, <2>1
  <2>3. CASE j < i
    BY <1>1, <1>2, <2>1, <2>2, <2>3
  <2>4. CASE ~(j < i)
    <3> DEFINE k == j - (i - 1)
    <3>1. j \in Int /\ i \in Int /\ j >= i /\ j <= Len(q) - 1 /\ Len(q) \in Int
      BY <1>1, <2>1, <2>4
    <3>2. k \in 1 .. Len(q) - i /\ i + k = j + 1
      BY <3>1
    <3>3. r[j] = b[k]
      BY <1>2, <2>2, <3>1
    <3>4. b[k] = q[i + k]
      BY <1>3, <3>2
    <3> QED
      BY <2>4, <3>2, <3>3, <3>4
  <2> QED
    BY <2>3, <2>4
<1> QED
  BY <1>5, <1>6 DEF r

\* What removing one position does to the ids of a list without duplicates.
LEMMA RemovedIds ==
  ASSUME NEW q \in Seq(Pos), Distinct(q), NEW i \in DOMAIN q
  PROVE  LET r == RemoveAt(q, i)
         IN  Distinct(r) /\ {r[j] : j \in DOMAIN r} = {q[j] : j \in DOMAIN q \ {i}}
<1> DEFINE r == RemoveAt(q, i)
           was(j) == IF j < i THEN j ELSE j + 1
<1>1. /\ Len(q) \in Nat /\ DOMAIN q = 1 .. Len(q) /\ i \in Nat
      /\ i >= 1 /\ i <= Len(q)
  OBVIOUS
<1>2. /\ r \in Seq(Pos) /\ Len(r) = Len(q) - 1 /\ DOMAIN r = 1 .. Len(r)
      /\ \A j \in DOMAIN r : r[j] = IF j < i THEN q[j] ELSE q[j + 1]
  BY RemovedAt
<1> HIDE DEF r
<1>3. \A j \in DOMAIN r : was(j) \in DOMAIN q \ {i} /\ r[j] = q[was(j)]
  BY <1>1, <1>2
<1>4. \A k \in DOMAIN q \ {i} : \E j \in DOMAIN r : was(j) = k
  <2> SUFFICES ASSUME NEW k \in DOMAIN q \ {i}
               PROVE  \E j \in DOMAIN r : was(j) = k
    OBVIOUS
  <2>1. CASE k < i
    BY <1>1, <1>2, <2>1
  <2>2. CASE ~(k < i)
    <3>1. k - 1 \in DOMAIN r /\ ~(k - 1 < i) /\ (k - 1) + 1 = k
      BY <1>1, <1>2, <2>2
    <3> QED
      BY <3>1
  <2> QED
    BY <2>1, <2>2
<1>5. \A j, k \in DOMAIN r : was(j) = was(k) => j = k
  BY <1>1, <1>2
<1> HIDE DEF was
<1>6. Distinct(r)
  BY <1>3, <1>5 DEF Distinct
<1>7. {r[j] : j \in DOMAIN r} = {q[j] : j \in DOMAIN q \ {i}}
  BY <1>3, <1>4
<1> QED
  BY <1>6, <1>7 DEF r

\* When the indices of s have been removed, no earlier one has moved.
Cleared(list, e, s) ==
  /\ e \in Emptyings
  /\ e.rows = e.sent
  /\ Distinct(e.left)
  /\ {e.left[k] : k \in DOMAIN e.left} = {list[i] : i \in DOMAIN list \ s}
  /\ {e.sent[k] : k \in DOMAIN e.sent} = {list[i].id : i \in s}
  /\ \A j \in DOMAIN list :
       (\A k \in s : j < k) => j \in DOMAIN e.left /\ e.left[j] = list[j]

LEMMA RemovedClears ==
  ASSUME NEW list \in Seq(Pos), Distinct(list), NEW s \in SUBSET (DOMAIN list),
         NEW m \in s, \A k \in s : m <= k, NEW e, Cleared(list, e, s \ {m})
  PROVE  Cleared(list, Removed(list, m, e), s)
<1> DEFINE r == RemoveAt(e.left, m)
           id == list[m].id
           d == [left |-> r, sent |-> Append(e.sent, id), rows |-> Append(e.rows, id)]
<1>1. /\ m \in DOMAIN list /\ DOMAIN list = 1 .. Len(list) /\ Len(list) \in Nat
      /\ e.left \in Seq(Pos) /\ e.sent \in Seq(Positions)
      /\ Distinct(e.left) /\ e.rows = e.sent
      /\ id \in Positions
  <2>1. m \in DOMAIN list /\ DOMAIN list = 1 .. Len(list) /\ Len(list) \in Nat
    OBVIOUS
  <2>2. /\ e.left \in Seq(Pos) /\ e.sent \in Seq(Positions)
        /\ Distinct(e.left) /\ e.rows = e.sent
    BY DEF Cleared, Emptyings
  <2>3. list[m] \in Pos
    OBVIOUS
  <2>4. id \in Positions
    BY <2>3 DEF Pos
  <2> QED
    BY <2>1, <2>2, <2>4
<1>2. m \in DOMAIN e.left /\ e.left[m] = list[m]
  <2>1. \A k \in s \ {m} : m < k
    BY <1>1
  <2> QED
    BY <1>1, <2>1 DEF Cleared
<1>3. Removed(list, m, e) = d
  <2>1. ~(m > Len(e.left))
    BY <1>1, <1>2
  <2> QED
    BY <1>2, <2>1 DEF Removed
<1>4. d \in Emptyings /\ d.rows = d.sent
  <2>1. r \in Seq(Pos)
    BY <1>1, <1>2, RemovedAt
  <2>2. Append(e.sent, id) \in Seq(Positions)
    BY <1>1
  <2> QED
    BY <1>1, <2>1, <2>2 DEF Emptyings
<1>5. /\ Distinct(r)
      /\ {r[j] : j \in DOMAIN r} = {e.left[j] : j \in DOMAIN e.left \ {m}}
  BY <1>1, <1>2, RemovedIds
<1>6. {r[j] : j \in DOMAIN r} = {list[i] : i \in DOMAIN list \ s}
  <2>1. \A j, k \in DOMAIN e.left : e.left[j] = e.left[k] => j = k
    BY <1>1 DEF Distinct
  <2>2. \A j, k \in DOMAIN list : list[j] = list[k] => j = k
    BY DEF Distinct
  <2>3. {e.left[k] : k \in DOMAIN e.left} = {list[i] : i \in DOMAIN list \ (s \ {m})}
    BY DEF Cleared
  <2>4. {e.left[j] : j \in DOMAIN e.left \ {m}} =
          {e.left[k] : k \in DOMAIN e.left} \ {list[m]}
    BY <1>2, <2>1
  <2>5. {list[i] : i \in DOMAIN list \ s} =
          {list[i] : i \in DOMAIN list \ (s \ {m})} \ {list[m]}
    BY <1>1, <2>2
  <2> QED
    BY <1>5, <2>3, <2>4, <2>5
<1>7. {d.sent[k] : k \in DOMAIN d.sent} = {list[i].id : i \in s}
  <2>1. {e.sent[k] : k \in DOMAIN e.sent} = {list[i].id : i \in s \ {m}}
    BY DEF Cleared
  <2>2. /\ d.sent = Append(e.sent, id)
        /\ DOMAIN e.sent = 1 .. Len(e.sent) /\ Len(e.sent) \in Nat
        /\ DOMAIN d.sent = 1 .. Len(e.sent) + 1
        /\ \A k \in 1 .. Len(e.sent) : d.sent[k] = e.sent[k]
        /\ d.sent[Len(e.sent) + 1] = id
    BY <1>1
  <2> HIDE DEF d
  <2>3. {d.sent[k] : k \in DOMAIN d.sent} = {e.sent[k] : k \in DOMAIN e.sent} \cup {id}
    BY <2>2
  <2> QED
    BY <2>1, <2>3
<1>8. ASSUME NEW j \in DOMAIN list, \A k \in s : j < k
      PROVE  j \in DOMAIN r /\ r[j] = list[j]
  <2>1. j \in DOMAIN e.left /\ e.left[j] = list[j] /\ j < m
    BY <1>8 DEF Cleared
  <2>2. /\ Len(r) = Len(e.left) - 1 /\ r \in Seq(Pos)
        /\ \A k \in DOMAIN r : r[k] = IF k < m THEN e.left[k] ELSE e.left[k + 1]
    BY <1>1, <1>2, RemovedAt
  <2> HIDE DEF r
  <2>3. j \in DOMAIN r
    BY <1>1, <1>2, <2>1, <2>2
  <2> QED
    BY <2>1, <2>2, <2>3
<1> HIDE DEF r
<1>9. d.left = r
  OBVIOUS
<1> HIDE DEF d
<1> QED
  BY <1>3, <1>4, <1>5, <1>6, <1>7, <1>8, <1>9 DEF Cleared

LEMMA EmptiedClears ==
  ASSUME NEW list \in Seq(Pos), Distinct(list), NEW S \in SUBSET (DOMAIN list)
  PROVE  Cleared(list, Emptied(list, S), S)
<1> DEFINE base == [left |-> list, sent |-> <<>>, rows |-> <<>>]
           pick == [s \in SUBSET S |-> Min(s)]
           step == [p \in S \X Emptyings |-> Removed(list, p[1], p[2])]
           F(f) == f = [s \in SUBSET S |->
                          IF s = {} THEN base
                          ELSE Removed(list, Min(s), f[s \ {Min(s)}])]
<1>1. IsFiniteSet(S) /\ S \subseteq Nat
  <2>1. DOMAIN list = 1 .. Len(list) /\ Len(list) \in Nat
    OBVIOUS
  <2>2. IsFiniteSet(1 .. Len(list))
    BY <2>1, FS_Interval
  <2> QED
    BY <2>1, <2>2, FS_Subset
<1>2. ASSUME NEW s \in SUBSET S, s # {}
      PROVE  Min(s) \in s /\ \A k \in s : Min(s) <= k
  <2>1. IsFiniteSet(s)
    BY <1>1, FS_Subset
  <2> QED
    BY <1>1, <1>2, <2>1, MinIs
<1>3. Emptied(list, S) = (CHOOSE f : F(f))[S]
  BY DEF Emptied, MapThenFoldSet, LastRemoved
<1>4. Picks(pick, S)
  BY <1>2 DEF Picks
<1>5. PICK f : IsFold(f, base, step, pick, SUBSET S)
  <2> HIDE DEF base, step, pick
  <2> QED
    BY <1>1, <1>4, FoldExists
<1>6. Cleared(list, base, {})
  BY DEF Cleared, Emptyings
<1> DEFINE Holds(g) == \A s \in SUBSET S : Cleared(list, g[s], s)
<1>7. ASSUME NEW s \in SUBSET S, s # {}, Cleared(list, f[s \ {Min(s)}], s \ {Min(s)})
      PROVE  f[s] = Removed(list, Min(s), f[s \ {Min(s)}])
  <2>1. f[s] = step[<<Min(s), f[s \ {Min(s)}]>>]
    <3> HIDE DEF step, base
    <3> QED
      BY <1>5, <1>7 DEF IsFold, FoldStep
  <2>2. f[s \ {Min(s)}] \in Emptyings /\ Min(s) \in S
    BY <1>2, <1>7 DEF Cleared
  <2> QED
    BY <2>1, <2>2
<1>8. f[{}] = base
  <2> HIDE DEF step, base, pick
  <2> QED
    BY <1>5 DEF IsFold, FoldStep
<1>9. Holds(f)
  <2> DEFINE P == {s \in SUBSET S : Cleared(list, f[s], s)}
  <2>1. ASSUME NEW s \in SUBSET S, \A u \in SUBSET s : u # s => u \in P
        PROVE  s \in P
    <3>1. CASE s = {}
      BY <1>6, <1>8, <3>1
    <3>2. CASE s # {}
      <4>1. Min(s) \in s /\ \A k \in s : Min(s) <= k
        BY <1>2, <3>2
      <4>2. Cleared(list, f[s \ {Min(s)}], s \ {Min(s)})
        <5>1. s \ {Min(s)} \in SUBSET s /\ s \ {Min(s)} # s
          BY <4>1
        <5> QED
          BY <2>1, <5>1
      <4>3. Cleared(list, Removed(list, Min(s), f[s \ {Min(s)}]), s)
        BY <4>1, <4>2, RemovedClears
      <4> QED
        BY <1>7, <3>2, <4>2, <4>3
    <3> QED
      BY <3>1, <3>2
  <2>2. SUBSET S \subseteq P
    <3> HIDE DEF P
    <3> QED
      BY <1>1, <2>1, SubsetInduction
  <2> QED
    BY <2>2
<1>10. F(f)
  <2>1. \A s \in SUBSET S : f[s] = IF s = {} THEN base
                                   ELSE Removed(list, Min(s), f[s \ {Min(s)}])
    <3> SUFFICES ASSUME NEW s \in SUBSET S, s # {}
                 PROVE  f[s] = Removed(list, Min(s), f[s \ {Min(s)}])
      BY <1>8
    <3> QED
      BY <1>7, <1>9
  <2>2. f = [s \in SUBSET S |-> f[s]]
    <3> HIDE DEF base, step, pick
    <3> QED
      BY <1>5 DEF IsFold
  <2> HIDE DEF base
  <2> QED
    BY <2>1, <2>2
<1>11. ASSUME NEW g, F(g) PROVE Holds(g)
  <2> DEFINE P == {s \in SUBSET S : Cleared(list, g[s], s)}
  <2>1. ASSUME NEW s \in SUBSET S, \A u \in SUBSET s : u # s => u \in P
        PROVE  s \in P
    <3>0. g[s] = IF s = {} THEN base ELSE Removed(list, Min(s), g[s \ {Min(s)}])
      <4> HIDE DEF base
      <4> QED
        BY <1>11
    <3>1. CASE s = {}
      BY <1>6, <3>0, <3>1
    <3>2. CASE s # {}
      <4>1. Min(s) \in s /\ \A k \in s : Min(s) <= k
        BY <1>2, <3>2
      <4>2. Cleared(list, g[s \ {Min(s)}], s \ {Min(s)})
        <5>1. s \ {Min(s)} \in SUBSET s /\ s \ {Min(s)} # s
          BY <4>1
        <5> QED
          BY <2>1, <5>1
      <4>3. Cleared(list, Removed(list, Min(s), g[s \ {Min(s)}]), s)
        BY <4>1, <4>2, RemovedClears
      <4> QED
        BY <3>0, <3>2, <4>3
    <3> QED
      BY <3>1, <3>2
  <2>2. SUBSET S \subseteq P
    <3> HIDE DEF P
    <3> QED
      BY <1>1, <2>1, SubsetInduction
  <2> QED
    BY <2>2
<1> HIDE DEF F
<1>12. F(CHOOSE g : F(g))
  BY <1>10
<1>13. Holds(CHOOSE g : F(g))
  BY <1>11, <1>12
<1> QED
  BY <1>3, <1>13

-----------------------------------------------------------------------------
(* Types, and what a look at one position may do to it. *)

Promotion == [id : Positions, peak : Nat, state : States, fast : BOOLEAN,
              dust : BOOLEAN]

MoonType ==
  /\ queue \in Seq(Promotion)
  /\ positions \in Seq(Pos)
  /\ looked \in BOOLEAN
  /\ exits \in Seq(Positions) /\ patched \in Seq(Positions)
  /\ refused \in SUBSET Positions

\* How old a position may be, before and after the turn of a unit.
InTime(pos, done) ==
  /\ pos.cap <= ConfirmedCap
  /\ pos.age <= IF done THEN pos.cap ELSE pos.cap + 1

LEMMA CapsAre ==
  /\ ConfirmedCap \in Nat /\ AgeCap = ConfirmedCap + 2
  /\ \A s \in States : HoldCap[s] \in Nat /\ HoldCap[s] <= ConfirmedCap
  BY MoonbagAssumption DEF ConfirmedCap, AgeCap, States

LEMMA FromCommandIs ==
  ASSUME NEW cmd \in Promotion
  PROVE  /\ FromCommand(cmd) \in Pos /\ FromCommand(cmd).id = cmd.id
         /\ \A done \in BOOLEAN : InTime(FromCommand(cmd), done)
<1>1. /\ cmd.id \in Positions /\ cmd.peak \in Nat /\ cmd.state \in States
      /\ cmd.fast \in BOOLEAN
  BY DEF Promotion
<1>2. Trailing[cmd.state] \in Nat /\ Gate \in Nat
  BY <1>1, MoonbagAssumption
<1> QED
  BY <1>1, <1>2, CapsAre DEF FromCommand, Pos, InTime

LEMMA OlderIs ==
  ASSUME NEW pos \in Pos, InTime(pos, TRUE)
  PROVE  Older(pos) \in Pos /\ Older(pos).id = pos.id /\ InTime(Older(pos), FALSE)
<1>1. /\ Older(pos).age = IF pos.age < AgeCap THEN pos.age + 1 ELSE pos.age
      /\ Older(pos).since = IF pos.since < SlowPoll THEN pos.since + 1 ELSE pos.since
      /\ Older(pos).cap = pos.cap /\ Older(pos).id = pos.id
  BY DEF Older, Pos
<1>3. pos.age \in Nat /\ pos.cap \in Nat /\ pos.since \in Nat
  BY DEF Pos
<1>2. Older(pos) \in Pos
  <2> DEFINE age == IF pos.age < AgeCap THEN pos.age + 1 ELSE pos.age
             since == IF pos.since < SlowPoll THEN pos.since + 1 ELSE pos.since
  <2>1. age \in Nat /\ since \in Nat
    BY <1>3, CapsAre, MoonbagAssumption
  <2>2. Older(pos) = [pos EXCEPT !.age = age, !.since = since]
    BY DEF Older, Pos
  <2> HIDE DEF age, since
  <2> QED
    BY <2>1, <2>2 DEF Pos
<1> QED
  BY <1>1, <1>2, <1>3, CapsAre DEF InTime

\* A look keeps the id and the age, and what it keeps is not over its cap.
Looks(pos, seen) ==
  /\ seen.pos \in Pos /\ seen.pos.id = pos.id
  /\ seen.pos.age = pos.age
  /\ seen.exit = None => InTime(seen.pos, TRUE)

LEMMA NoticedIs ==
  ASSUME NEW pos \in Pos, NEW check \in {None} \cup States
  PROVE  /\ Noticed(pos, check) \in Pos /\ Noticed(pos, check).id = pos.id
         /\ Noticed(pos, check).age = pos.age /\ Noticed(pos, check).cap = pos.cap
  BY DEF Noticed, Pos, States

LEMMA PricedIs ==
  ASSUME NEW pos \in Pos, NEW price \in Nat
  PROVE  /\ Priced(pos, price) \in Pos /\ Priced(pos, price).id = pos.id
         /\ Priced(pos, price).age = pos.age /\ Priced(pos, price).cap = pos.cap
<1>1. Gate \in Nat
  BY MoonbagAssumption
<1> QED
  BY <1>1 DEF Priced, Pos

LEMMA LookedIs ==
  ASSUME NEW pos \in Pos, InTime(pos, FALSE), NEW more \in BOOLEAN,
         NEW price \in Nat
  PROVE  Looks(pos, Looked(pos, more, price))
<1>n. None \notin {"max_hold_expired", "floor_hit", "trailing_stop"}
  BY MoonbagAssumption DEF Reasons
<1>t. pos.age \in Nat /\ pos.cap \in Nat /\ pos.id \in Positions
  BY DEF Pos
<1>1. CASE pos.age > pos.cap
  <2>1. CASE MayExtend(pos) /\ more
    <3> DEFINE kept == [pos EXCEPT !.extended = TRUE, !.cap = ConfirmedCap]
    <3>1. /\ kept \in Pos /\ kept.id = pos.id /\ kept.age = pos.age
          /\ kept.cap = ConfirmedCap
      BY CapsAre DEF Pos
    <3>2. Looked(pos, more, price) = [pos |-> kept, exit |-> None]
      BY <1>1, <2>1 DEF Looked, Kept
    <3>3. pos.cap < ConfirmedCap
      BY <2>1 DEF MayExtend
    <3> HIDE DEF kept
    <3> QED
      BY <1>t, <3>1, <3>2, <3>3, CapsAre DEF Looks, InTime
  <2>2. CASE ~(MayExtend(pos) /\ more)
    <3>1. Looked(pos, more, price) = [pos |-> pos, exit |-> "max_hold_expired"]
      BY <1>1, <2>2 DEF Looked, Exit
    <3>2. None # "max_hold_expired"
      BY <1>n
    <3> DEFINE seen == Looked(pos, more, price)
    <3>3. seen.pos = pos /\ seen.exit # None
      BY <3>1, <3>2
    <3> QED
      BY <3>3 DEF Looks
  <2> QED
    BY <2>1, <2>2
<1>2. CASE ~(pos.age > pos.cap)
  <2>0. Looked(pos, more, price) = AtPrice(pos, price)
    BY <1>2 DEF Looked
  <2>1. InTime(pos, TRUE)
    BY <1>t, <1>2, CapsAre DEF InTime
  <2>2. CASE ~Due(pos)
    <3> DEFINE seen == Looked(pos, more, price)
    <3>1. seen = [pos |-> pos, exit |-> None]
      BY <2>0, <2>2 DEF AtPrice, Kept
    <3>2. seen.pos = pos
      BY <3>1
    <3> QED
      BY <2>1, <3>2 DEF Looks
  <2>3. CASE Due(pos) /\ price = 0
    <3> DEFINE kept == [pos EXCEPT !.since = 0]
    <3>1. kept \in Pos /\ kept.id = pos.id /\ kept.age = pos.age /\ kept.cap = pos.cap
      BY DEF Pos
    <3>2. Looked(pos, more, price) = [pos |-> kept, exit |-> None]
      BY <2>0, <2>3 DEF AtPrice, Kept
    <3> HIDE DEF kept
    <3> QED
      BY <2>1, <3>1, <3>2 DEF Looks, InTime
  <2>4. CASE Due(pos) /\ price # 0
    <3> DEFINE priced == Priced(pos, price)
               seen == Looked(pos, more, price)
    <3>1. /\ priced \in Pos /\ priced.id = pos.id /\ priced.age = pos.age
          /\ priced.cap = pos.cap
      BY PricedIs
    <3>2. seen.pos = priced
      BY <2>0, <2>4 DEF AtPrice, Kept, Exit
    <3> HIDE DEF priced, seen
    <3> QED
      BY <2>1, <3>1, <3>2 DEF Looks, InTime, seen
  <2> QED
    BY <2>2, <2>3, <2>4
<1> QED
  BY <1>1, <1>2

LEMMA OutcomesLook ==
  ASSUME NEW pos \in Pos, InTime(pos, FALSE), NEW seen \in Outcomes(pos)
  PROVE  Looks(pos, seen)
<1> DEFINE Checks == IF pos.pending THEN {None} \cup States ELSE {None}
           Mores == IF pos.age > pos.cap THEN BOOLEAN ELSE {FALSE}
           Quotes == IF Due(pos) THEN Prices ELSE {0}
<1>0. /\ Checks \subseteq {None} \cup States /\ Mores \subseteq BOOLEAN
      /\ Quotes \subseteq Nat
  BY MoonbagAssumption
<1>s. Outcomes(pos) = {Looked(Noticed(pos, check), more, price) :
                         check \in Checks, more \in Mores, price \in Quotes}
  BY DEF Outcomes
<1> HIDE DEF Checks, Mores, Quotes
<1>1. PICK check \in Checks, more \in Mores, price \in Quotes :
        seen = Looked(Noticed(pos, check), more, price)
  BY <1>s
<1> DEFINE noticed == Noticed(pos, check)
<1>2. /\ noticed \in Pos /\ noticed.id = pos.id /\ noticed.age = pos.age
      /\ noticed.cap = pos.cap
  BY <1>0, NoticedIs
<1>3. seen = Looked(noticed, more, price)
  BY <1>1
<1> HIDE DEF noticed
<1>4. InTime(noticed, FALSE)
  BY <1>2 DEF InTime
<1>5. Looks(noticed, seen)
  BY <1>0, <1>2, <1>3, <1>4, LookedIs
<1> QED
  BY <1>2, <1>5 DEF Looks

-----------------------------------------------------------------------------
(* The steps of the tracker. *)

(***************************************************************************)
(* A position is in one place: on its way, held, sold or refused, and      *)
(* there once.  That is what lets an index stand for a position, and what  *)
(* makes removing an index the same as selling a position.                 *)
(***************************************************************************)
Apart(q, h, s, r) ==
  q \cap h = {} /\ q \cap s = {} /\ q \cap r = {}
    /\ h \cap s = {} /\ h \cap r = {} /\ s \cap r = {}

MoonInv ==
  /\ MoonType
  /\ patched = exits
  /\ Distinct(positions) /\ Distinct(queue)
  /\ Apart(Queued, Tracked, Sold, refused)
  /\ \A i \in DOMAIN positions : InTime(positions[i], looked)

\* What a step of the tracker is to its ledger.
LedgerStep == [Ledger!LedgerNext]_(Ledger!ledgerVars)

LEMMA IdsAre ==
  MoonType => /\ Tracked = Ids(positions) /\ Queued = Ids(queue)
              /\ Tracked \subseteq Positions /\ Queued \subseteq Positions
              /\ Sold \subseteq Positions
<1> SUFFICES ASSUME MoonType
             PROVE  /\ Tracked \subseteq Positions /\ Queued \subseteq Positions
                    /\ Sold \subseteq Positions
  BY DEF Tracked, Queued, Ids
<1>1. \A i \in DOMAIN positions : positions[i].id \in Positions
  <2>1. \A i \in DOMAIN positions : positions[i] \in Pos
    BY DEF MoonType
  <2> QED
    BY <2>1 DEF Pos
<1>2. \A i \in DOMAIN queue : queue[i].id \in Positions
  <2>1. \A i \in DOMAIN queue : queue[i] \in Promotion
    BY DEF MoonType
  <2> QED
    BY <2>1 DEF Promotion
<1>3. \A i \in DOMAIN exits : exits[i] \in Positions
  BY DEF MoonType
<1> QED
  BY <1>1, <1>2, <1>3 DEF Tracked, Queued, Sold

\* One more at the end of a list without duplicates.
LEMMA AppendDistinct ==
  ASSUME NEW A, NEW q \in Seq(A), Distinct(q), NEW x \in A, x.id \notin Ids(q)
  PROVE  /\ Append(q, x) \in Seq(A) /\ Distinct(Append(q, x))
         /\ Ids(Append(q, x)) = Ids(q) \cup {x.id}
<1> DEFINE n == Len(q)
           a == Append(q, x)
<1>1. /\ n \in Nat /\ DOMAIN q = 1 .. n /\ a \in Seq(A) /\ DOMAIN a = 1 .. n + 1
      /\ \A i \in 1 .. n : a[i] = q[i]
      /\ a[n + 1] = x
  OBVIOUS
<1> HIDE DEF a, n
<1>2. \A i \in DOMAIN a : i = n + 1 \/ (i \in DOMAIN q /\ a[i] = q[i])
  BY <1>1
<1>3. n + 1 \notin DOMAIN q /\ n + 1 \in DOMAIN a /\ DOMAIN q \subseteq DOMAIN a
  BY <1>1
<1>4. Distinct(a)
  BY <1>1, <1>2, <1>3 DEF Distinct, Ids
<1>5. Ids(a) = Ids(q) \cup {x.id}
  BY <1>1, <1>2, <1>3 DEF Ids
<1> QED
  BY <1>1, <1>4, <1>5 DEF a

\* A list without duplicates without its first.
LEMMA TailDistinct ==
  ASSUME NEW A, NEW q \in Seq(A), Distinct(q), q # <<>>
  PROVE  /\ Tail(q) \in Seq(A) /\ Distinct(Tail(q))
         /\ Head(q) \in A /\ Head(q).id \in Ids(q)
         /\ Ids(Tail(q)) = Ids(q) \ {Head(q).id}
<1> DEFINE n == Len(q)
           t == Tail(q)
<1>1. /\ n \in Nat /\ n >= 1 /\ DOMAIN q = 1 .. n /\ Head(q) = q[1]
      /\ t \in Seq(A) /\ DOMAIN t = 1 .. n - 1
      /\ \A i \in 1 .. n - 1 : t[i] = q[i + 1]
  OBVIOUS
<1> HIDE DEF t, n
<1>2. \A i \in DOMAIN t : i + 1 \in DOMAIN q /\ i + 1 # 1 /\ t[i] = q[i + 1]
  BY <1>1
<1>3. \A i \in DOMAIN q : i # 1 => i - 1 \in DOMAIN t /\ t[i - 1] = q[i]
  BY <1>1
<1>4. 1 \in DOMAIN q
  BY <1>1
<1>5. Distinct(t)
  <2> SUFFICES ASSUME NEW i \in DOMAIN t, NEW j \in DOMAIN t, t[i].id = t[j].id
               PROVE  i = j
    BY DEF Distinct
  <2>1. i + 1 = j + 1
    BY <1>2 DEF Distinct
  <2> QED
    BY <1>1, <2>1
<1>6. Ids(t) \subseteq Ids(q) \ {Head(q).id}
  <2> SUFFICES ASSUME NEW i \in DOMAIN t
               PROVE  t[i].id \in Ids(q) \ {Head(q).id}
    BY DEF Ids
  <2> QED
    BY <1>1, <1>2, <1>4 DEF Distinct, Ids
<1>7. Ids(q) \ {Head(q).id} \subseteq Ids(t)
  <2> SUFFICES ASSUME NEW i \in DOMAIN q, q[i].id # Head(q).id
               PROVE  q[i].id \in Ids(t)
    BY DEF Ids
  <2> QED
    BY <1>1, <1>3 DEF Ids
<1>8. Head(q) \in A /\ Head(q).id \in Ids(q)
  <2>1. q[1] \in A
    BY <1>4
  <2> QED
    BY <1>1, <1>4, <2>1 DEF Ids
<1> QED
  BY <1>1, <1>5, <1>6, <1>7, <1>8 DEF t

\* A list without duplicates is as long as it has ids.
LEMMA IdsFewer ==
  ASSUME NEW q \in Seq(Pos)
  PROVE  Cardinality(Ids(q)) \in Nat /\ Cardinality(Ids(q)) <= Len(q)
<1> DEFINE D == DOMAIN q
           f == [i \in D |-> q[i].id]
<1>1. D = 1 .. Len(q) /\ Len(q) \in Nat
  OBVIOUS
<1>2. IsFiniteSet(1 .. Len(q)) /\ Cardinality(1 .. Len(q)) = Len(q)
  BY <1>1, FS_Interval
<1>3. IsFiniteSet(D) /\ Cardinality(D) = Len(q)
  BY <1>1, <1>2
<1>4. f \in Surjection(D, Ids(q))
  BY DEF Surjection, Ids
<1> HIDE DEF D, f
<1> QED
  BY <1>3, <1>4, FS_Surjection, FS_CardinalityType

LEMMA MoonInit == Init => MoonInv /\ Ledger!LedgerInit
<1> SUFFICES ASSUME Init PROVE MoonInv /\ Ledger!LedgerInit
  OBVIOUS
<1>1. /\ queue = <<>> /\ positions = <<>> /\ looked = TRUE /\ exits = <<>>
      /\ patched = <<>> /\ refused = {}
  BY DEF Init
<1>2. Tracked = {} /\ Queued = {} /\ Sold = {}
  BY <1>1 DEF Tracked, Queued, Sold
<1>3. MoonType
  BY <1>1 DEF MoonType
<1>4. Distinct(positions) /\ Distinct(queue)
  BY <1>1 DEF Distinct
<1> QED
  BY <1>1, <1>2, <1>3, <1>4 DEF MoonInv, Apart, Ledger!LedgerInit

LEMMA PromoteKeeps ==
  ASSUME MoonInv, NEW p \in Positions, NEW cmd \in Commands, Promote(p, cmd)
  PROVE  MoonInv' /\ LedgerStep
<1> DEFINE new == [id |-> p, peak |-> cmd.peak, state |-> cmd.state,
                   fast |-> cmd.fast, dust |-> cmd.dust]
<1>1. new \in Promotion /\ new.id = p
  <2>1. cmd \in [peak : Nat, state : States, fast : BOOLEAN, dust : BOOLEAN]
    BY MoonbagAssumption
  <2> QED
    BY <2>1 DEF Promotion
<1>2. /\ queue' = Append(queue, new)
      /\ UNCHANGED <<positions, looked, exits, patched, refused>>
      /\ p \notin Tracked \cup Queued \cup Sold \cup refused
  BY DEF Promote
<1> HIDE DEF new
<1>3. UNCHANGED <<Tracked, Sold>>
  BY <1>2 DEF Tracked, Sold
<1>4. /\ queue' \in Seq(Promotion) /\ Distinct(queue')
      /\ Queued' = Queued \cup {p}
  <2>1. queue \in Seq(Promotion) /\ Distinct(queue) /\ Queued = Ids(queue)
    BY IdsAre DEF MoonInv, MoonType
  <2>2. /\ Append(queue, new) \in Seq(Promotion) /\ Distinct(Append(queue, new))
        /\ Ids(Append(queue, new)) = Ids(queue) \cup {p}
    BY <1>1, <1>2, <2>1, AppendDistinct
  <2>3. Queued' = Ids(queue')
    BY DEF Queued, Ids
  <2> QED
    BY <1>2, <2>1, <2>2, <2>3
<1>5. MoonInv'
  BY <1>2, <1>3, <1>4 DEF MoonInv, MoonType, Apart
<1>6. LedgerStep
  BY <1>2, <1>3 DEF LedgerStep, Ledger!ledgerVars
<1> QED
  BY <1>5, <1>6

LEMMA ReceiveKeeps ==
  ASSUME MoonInv, Receive
  PROVE  MoonInv' /\ LedgerStep
<1> DEFINE cmd == Head(queue)
           new == FromCommand(cmd)
<1>1. /\ queue \in Seq(Promotion) /\ positions \in Seq(Pos)
      /\ Distinct(queue) /\ Distinct(positions) /\ queue # <<>>
      /\ queue' = Tail(queue)
      /\ UNCHANGED <<looked, exits, patched>>
      /\ looked \in BOOLEAN
      /\ Tracked = Ids(positions) /\ Queued = Ids(queue)
      /\ Apart(Queued, Tracked, Sold, refused)
      /\ Queued \subseteq Positions
  BY IdsAre DEF MoonInv, MoonType, Receive, History
<1>2. /\ queue' \in Seq(Promotion) /\ Distinct(queue')
      /\ cmd \in Promotion /\ cmd.id \in Queued
      /\ Queued' = Queued \ {cmd.id}
  <2>1. /\ Tail(queue) \in Seq(Promotion) /\ Distinct(Tail(queue))
        /\ Ids(Tail(queue)) = Ids(queue) \ {cmd.id}
        /\ cmd \in Promotion /\ cmd.id \in Ids(queue)
    BY <1>1, TailDistinct
  <2>2. Queued' = Ids(queue')
    BY DEF Queued, Ids
  <2> QED
    BY <1>1, <2>1, <2>2
<1>3. Sold' = Sold
  BY <1>1 DEF Sold
<1>4. Ledger!Fresh(cmd.id)
  BY <1>1, <1>2 DEF Ledger!Fresh, Apart
<1>5. CASE Refused(cmd)
  <2>1. refused' = refused \cup {cmd.id} /\ positions' = positions
    BY <1>5 DEF Receive
  <2>2. Tracked' = Tracked
    BY <2>1 DEF Tracked
  <2>3. MoonInv'
    BY <1>1, <1>2, <1>3, <2>1, <2>2 DEF MoonInv, MoonType, Apart
  <2>4. Ledger!Refuse(cmd.id)
    BY <1>3, <1>4, <2>1, <2>2 DEF Ledger!Refuse
  <2>5. cmd.id \in Positions
    BY <1>1, <1>2
  <2> QED
    BY <2>3, <2>4, <2>5 DEF LedgerStep, Ledger!LedgerNext
<1>6. CASE ~Refused(cmd)
  <2>1. refused' = refused /\ positions' = Append(positions, new)
    BY <1>6 DEF Receive
  <2>2. /\ new \in Pos /\ new.id = cmd.id
        /\ InTime(new, looked)
    BY <1>1, <1>2, FromCommandIs
  <2> HIDE DEF new, cmd
  <2>3. /\ positions' \in Seq(Pos) /\ Distinct(positions')
        /\ Tracked' = Tracked \cup {cmd.id}
    <3>1. new.id \notin Ids(positions)
      BY <1>1, <1>2, <2>2 DEF Apart
    <3>2. /\ Append(positions, new) \in Seq(Pos)
          /\ Distinct(Append(positions, new))
          /\ Ids(Append(positions, new)) = Ids(positions) \cup {new.id}
      BY <1>1, <2>2, <3>1, AppendDistinct
    <3>3. Tracked' = Ids(positions')
      BY DEF Tracked, Ids
    <3> QED
      BY <1>1, <2>1, <2>2, <3>2, <3>3
  <2>4. ASSUME NEW i \in DOMAIN positions' PROVE InTime(positions'[i], looked')
    <3>1. /\ Len(positions) \in Nat
          /\ DOMAIN positions' = 1 .. Len(positions) + 1
          /\ DOMAIN positions = 1 .. Len(positions)
          /\ positions'[Len(positions) + 1] = new
          /\ \A j \in 1 .. Len(positions) : positions'[j] = positions[j]
      BY <1>1, <2>1
    <3>2. CASE i = Len(positions) + 1
      BY <1>1, <2>2, <3>1, <3>2
    <3>3. CASE i # Len(positions) + 1
      <4>1. i \in DOMAIN positions /\ positions'[i] = positions[i]
        BY <3>1, <3>3
      <4> QED
        BY <1>1, <4>1 DEF MoonInv
    <3> QED
      BY <3>2, <3>3
  <2>5. MoonInv'
    BY <1>1, <1>2, <1>3, <2>1, <2>3, <2>4 DEF MoonInv, MoonType, Apart
  <2>6. Cardinality(Tracked) < MaxConcurrent
    <3>1. Len(positions) < MaxConcurrent
      BY <1>1, <1>6, MoonbagAssumption DEF Refused
    <3>2. Cardinality(Tracked) \in Nat /\ Cardinality(Tracked) <= Len(positions)
      BY <1>1, IdsFewer
    <3> QED
      BY <1>1, <3>1, <3>2, MoonbagAssumption
  <2>7. Ledger!Hold(cmd.id)
    <3>1. Ledger!Cardinality(Tracked) = Cardinality(Tracked)
      BY DEF Ledger!Cardinality, Cardinality
    <3> QED
      BY <1>3, <1>4, <2>1, <2>3, <2>6, <3>1 DEF Ledger!Hold
  <2>8. cmd.id \in Positions
    BY <1>1, <1>2
  <2> QED
    BY <2>5, <2>7, <2>8 DEF LedgerStep, Ledger!LedgerNext
<1> QED
  BY <1>5, <1>6

LEMMA ClockKeeps ==
  ASSUME MoonInv, Clock
  PROVE  MoonInv' /\ LedgerStep
<1>1. /\ positions \in Seq(Pos) /\ looked = TRUE /\ looked' = FALSE
      /\ positions' = [i \in DOMAIN positions |-> Older(positions[i])]
      /\ UNCHANGED <<queue, refused, exits, patched>>
  BY DEF Clock, MoonInv, MoonType, History
<1>2. \A i \in DOMAIN positions :
        /\ positions'[i] \in Pos /\ positions'[i].id = positions[i].id
        /\ InTime(positions'[i], FALSE)
  <2> SUFFICES ASSUME NEW i \in DOMAIN positions
               PROVE  /\ Older(positions[i]) \in Pos
                      /\ Older(positions[i]).id = positions[i].id
                      /\ InTime(Older(positions[i]), FALSE)
    BY <1>1
  <2>1. positions[i] \in Pos
    BY <1>1
  <2>2. InTime(positions[i], looked)
    BY DEF MoonInv
  <2> QED
    BY <1>1, <2>1, <2>2, OlderIs
<1>3. DOMAIN positions' = DOMAIN positions
  BY <1>1
<1>4. positions' \in Seq(Pos)
  <2>1. DOMAIN positions = 1 .. Len(positions) /\ Len(positions) \in Nat
    BY <1>1
  <2>2. positions' \in [1 .. Len(positions) -> Pos]
    BY <1>1, <1>2, <2>1
  <2> QED
    BY <2>1, <2>2
<1>5. Tracked' = Tracked /\ Distinct(positions')
  <2>1. Tracked' = Tracked
    BY <1>2, <1>3 DEF Tracked
  <2>2. Distinct(positions)
    BY DEF MoonInv
  <2> QED
    BY <1>2, <1>3, <2>1, <2>2 DEF Distinct
<1>6. Queued' = Queued /\ Sold' = Sold
  BY <1>1 DEF Queued, Sold
<1>7. MoonInv'
  BY <1>1, <1>2, <1>3, <1>4, <1>5, <1>6 DEF MoonInv, MoonType, Apart
<1>8. LedgerStep
  BY <1>1, <1>5, <1>6 DEF LedgerStep, Ledger!ledgerVars
<1> QED
  BY <1>7, <1>8

\* What the turn made of the positions, before it removes some.
LEMMA SeenIs ==
  ASSUME MoonInv, NEW seen \in TurnOutcomes
  PROVE  LET list == [i \in DOMAIN positions |-> seen[i].pos]
         IN  /\ list \in Seq(Pos) /\ Distinct(list)
             /\ DOMAIN list = DOMAIN positions
             /\ \A i \in DOMAIN list : /\ list[i].id = positions[i].id
                                       /\ seen[i].exit = None => InTime(list[i], TRUE)
<1> DEFINE list == [i \in DOMAIN positions |-> seen[i].pos]
<1>1. ASSUME NEW i \in DOMAIN positions
      PROVE  /\ seen[i].pos \in Pos /\ seen[i].pos.id = positions[i].id
             /\ seen[i].exit = None => InTime(seen[i].pos, TRUE)
  <2>1. positions[i] \in Pos /\ InTime(positions[i], looked) /\ looked \in BOOLEAN
    BY DEF MoonInv, MoonType
  <2>2. InTime(positions[i], FALSE)
    <3>1. positions[i].age \in Nat /\ positions[i].cap \in Nat
      BY <2>1 DEF Pos
    <3> QED
      BY <2>1, <3>1 DEF InTime
  <2>3. seen[i] \in Outcomes(positions[i])
    BY DEF TurnOutcomes
  <2> QED
    BY <2>1, <2>2, <2>3, OutcomesLook DEF Looks
<1>2. list \in Seq(Pos)
  <2>1. DOMAIN positions = 1 .. Len(positions) /\ Len(positions) \in Nat
    BY DEF MoonInv, MoonType
  <2>2. list \in [1 .. Len(positions) -> Pos]
    BY <1>1, <2>1
  <2> HIDE DEF list
  <2> QED
    BY <2>1, <2>2
<1>3. \A i \in DOMAIN positions : list[i].id = positions[i].id
  BY <1>1
<1>4. DOMAIN list = DOMAIN positions
  OBVIOUS
<1>5. Distinct(list)
  <2>1. Distinct(positions)
    BY DEF MoonInv
  <2> HIDE DEF list
  <2> QED
    BY <1>3, <1>4, <2>1 DEF Distinct
<1> QED
  BY <1>1, <1>2, <1>3, <1>5

LEMMA TurnKeeps ==
  ASSUME MoonInv, Turn
  PROVE  MoonInv' /\ LedgerStep
<1>1. PICK seen \in TurnOutcomes :
        LET emptied == Emptied([i \in DOMAIN positions |-> seen[i].pos],
                               {i \in DOMAIN positions : seen[i].exit # None})
        IN  /\ positions' = emptied.left
            /\ patched' = patched \o emptied.rows
            /\ exits' = exits \o emptied.sent
  BY DEF Turn
<1> DEFINE list == [i \in DOMAIN positions |-> seen[i].pos]
           gone == {i \in DOMAIN positions : seen[i].exit # None}
           e == Emptied(list, gone)
           S == {list[i].id : i \in gone}
<1>2. /\ list \in Seq(Pos) /\ Distinct(list) /\ DOMAIN list = DOMAIN positions
      /\ \A i \in DOMAIN list : /\ list[i].id = positions[i].id
                                /\ seen[i].exit = None => InTime(list[i], TRUE)
  BY SeenIs
<1>3. /\ positions' = e.left /\ patched' = patched \o e.rows
      /\ exits' = exits \o e.sent /\ looked' = TRUE
      /\ UNCHANGED <<queue, refused>>
  BY <1>1 DEF Turn
<1>4. gone \in SUBSET (DOMAIN list) /\ \A i \in DOMAIN list \ gone : seen[i].exit = None
  BY <1>2
<1> HIDE DEF list, gone, e
<1>5. Cleared(list, e, gone)
  BY <1>2, <1>4, EmptiedClears DEF e
<1>6. /\ e.left \in Seq(Pos) /\ e.sent \in Seq(Positions) /\ e.rows = e.sent
      /\ Distinct(e.left)
      /\ {e.left[k] : k \in DOMAIN e.left} = {list[i] : i \in DOMAIN list \ gone}
      /\ {e.sent[k] : k \in DOMAIN e.sent} = S
  BY <1>5 DEF Cleared, Emptyings
<1>7. /\ exits \in Seq(Positions) /\ patched = exits
      /\ exits' \in Seq(Positions) /\ patched' = exits'
  BY <1>3, <1>6 DEF MoonInv, MoonType
<1>8. Sold' = Sold \cup S
  <2>1. /\ Len(exits) \in Nat /\ Len(e.sent) \in Nat
        /\ DOMAIN exits = 1 .. Len(exits) /\ DOMAIN e.sent = 1 .. Len(e.sent)
        /\ DOMAIN exits' = 1 .. Len(exits) + Len(e.sent)
        /\ \A i \in 1 .. Len(exits) : exits'[i] = exits[i]
        /\ \A i \in 1 .. Len(e.sent) : exits'[Len(exits) + i] = e.sent[i]
    BY <1>3, <1>6, <1>7
  <2>2. \A i \in DOMAIN exits' :
          \/ i \in DOMAIN exits /\ exits'[i] = exits[i]
          \/ i - Len(exits) \in DOMAIN e.sent /\ exits'[i] = e.sent[i - Len(exits)]
    <3> SUFFICES ASSUME NEW i \in DOMAIN exits', i \notin DOMAIN exits
                 PROVE  /\ i - Len(exits) \in DOMAIN e.sent
                        /\ exits'[i] = e.sent[i - Len(exits)]
      BY <2>1
    <3> DEFINE k == i - Len(exits)
    <3>1. k \in 1 .. Len(e.sent) /\ Len(exits) + k = i
      BY <2>1
    <3> HIDE DEF k
    <3>2. exits'[i] = e.sent[k]
      BY <2>1, <3>1
    <3> QED
      BY <2>1, <3>1, <3>2 DEF k
  <2>3. \A i \in DOMAIN exits : i \in DOMAIN exits' /\ exits'[i] = exits[i]
    BY <2>1
  <2>4. \A i \in DOMAIN e.sent : /\ Len(exits) + i \in DOMAIN exits'
                                 /\ exits'[Len(exits) + i] = e.sent[i]
    BY <2>1
  <2>5. {exits'[i] : i \in DOMAIN exits'} =
          {exits[i] : i \in DOMAIN exits} \cup {e.sent[i] : i \in DOMAIN e.sent}
    BY <2>2, <2>3, <2>4
  <2> QED
    BY <1>6, <2>5 DEF Sold
<1>9. S \subseteq Tracked
  BY <1>2, <1>4 DEF Tracked
<1>10. Tracked' = Tracked \ S
  <2>1. Tracked' = {x.id : x \in {e.left[k] : k \in DOMAIN e.left}}
    BY <1>3 DEF Tracked
  <2>2. Tracked' = {list[i].id : i \in DOMAIN list \ gone}
    <3>1. {x.id : x \in {list[i] : i \in DOMAIN list \ gone}} =
            {list[i].id : i \in DOMAIN list \ gone}
      OBVIOUS
    <3> QED
      BY <1>6, <2>1, <3>1
  <2>3. Tracked = {list[i].id : i \in DOMAIN list}
    BY <1>2 DEF Tracked
  <2>4. {list[i].id : i \in DOMAIN list \ gone} = {list[i].id : i \in DOMAIN list} \ S
    BY <1>2, <1>4 DEF Distinct
  <2> QED
    BY <2>2, <2>3, <2>4
<1>11. \A i \in DOMAIN positions' : InTime(positions'[i], looked')
  <2> SUFFICES ASSUME NEW i \in DOMAIN e.left PROVE InTime(e.left[i], TRUE)
    BY <1>3
  <2>1. PICK j \in DOMAIN list \ gone : e.left[i] = list[j]
    BY <1>6
  <2> QED
    BY <1>2, <1>4, <2>1
<1>12. Queued' = Queued
  BY <1>3 DEF Queued
<1> HIDE DEF S
<1>13. MoonInv'
  <2>1. MoonType'
    BY <1>3, <1>6, <1>7 DEF MoonInv, MoonType
  <2>2. Apart(Queued, Tracked, Sold, refused)'
    BY <1>3, <1>8, <1>9, <1>10, <1>12 DEF MoonInv, Apart
  <2> QED
    BY <1>3, <1>6, <1>7, <1>11, <2>1, <2>2 DEF MoonInv
<1>14. LedgerStep
  <2>1. CASE S = {}
    BY <1>3, <1>8, <1>10, <2>1 DEF LedgerStep, Ledger!ledgerVars
  <2>2. CASE S # {}
    <3>1. Ledger!Sell(S)
      BY <1>3, <1>8, <1>9, <1>10, <2>2 DEF Ledger!Sell
    <3> QED
      BY <1>9, <3>1 DEF LedgerStep, Ledger!LedgerNext
  <2> QED
    BY <2>1, <2>2
<1> QED
  BY <1>13, <1>14

LEMMA MoonNext == MoonInv /\ [Next]_vars => MoonInv' /\ LedgerStep
<1> SUFFICES ASSUME MoonInv, [Next]_vars PROVE MoonInv' /\ LedgerStep
  OBVIOUS
<1>1. CASE UNCHANGED vars
  <2>1. UNCHANGED <<queue, positions, looked, exits, patched, refused>>
    BY <1>1 DEF vars
  <2>2. UNCHANGED <<Tracked, Queued, Sold>>
    BY <2>1 DEF Tracked, Queued, Sold
  <2>3. MoonInv'
    BY <2>1, <2>2 DEF MoonInv, MoonType, Apart
  <2> QED
    BY <2>1, <2>2, <2>3 DEF LedgerStep, Ledger!ledgerVars
<1> QED
  BY <1>1, PromoteKeeps, ReceiveKeeps, ClockKeeps, TurnKeeps DEF Next

-----------------------------------------------------------------------------
(***************************************************************************)
(* The row marked as exited is the row of the position that was sold, for  *)
(* any number of positions sold in one turn (moonbag.rs:1073-1141).        *)
(***************************************************************************)
THEOREM RowsFollow == Spec => []RowsMatchSignals
<1>1. MoonInv => RowsMatchSignals
  BY DEF MoonInv, RowsMatchSignals
<1> QED
  BY <1>1, MoonInit, MoonNext, PTL DEF Spec

(***************************************************************************)
(* No position is held past its cap by more than a unit, and no cap passes *)
(* the highest one, for all caps, prices and results of checks, also when  *)
(* the price never comes (moonbag.rs run_moonbag_tracker).                 *)
(***************************************************************************)
THEOREM CapsHold == Spec => []NotHeldPastCap
<1>1. MoonInv => NotHeldPastCap
  <2> SUFFICES ASSUME MoonInv, NEW i \in DOMAIN positions
               PROVE  /\ positions[i].age <= positions[i].cap + 1
                      /\ positions[i].cap <= ConfirmedCap
    BY DEF NotHeldPastCap
  <2>1. positions[i] \in Pos /\ InTime(positions[i], looked) /\ looked \in BOOLEAN
    BY DEF MoonInv, MoonType
  <2>2. positions[i].age \in Nat /\ positions[i].cap \in Nat
    BY <2>1 DEF Pos
  <2> QED
    BY <2>1, <2>2 DEF InTime
<1> QED
  BY <1>1, MoonInit, MoonNext, PTL DEF Spec

(***************************************************************************)
(* The tracker, with its list and the indices it collects before it uses   *)
(* them, is the ledger: every turn sells a set of positions it held, every *)
(* promotion is held or refused, and all else the ledger does not see.     *)
(***************************************************************************)
THEOREM LedgerKept == Spec => ImplementsLedger
<1>1. Init => Ledger!LedgerInit
  BY MoonInit
<1>2. MoonInv /\ [Next]_vars => [Ledger!LedgerNext]_(Ledger!ledgerVars)
  BY MoonNext DEF LedgerStep
<1> QED
  BY <1>1, <1>2, MoonInit, MoonNext, PTL
     DEF Spec, ImplementsLedger, Ledger!LedgerSpec
=============================================================================
