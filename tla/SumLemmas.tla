----------------------------- MODULE SumLemmas -----------------------------
(***************************************************************************)
(* Induction over the subsets of a finite set, and what it proves of the   *)
(* sums that the models of the buy path and of the lifecycle are stated    *)
(* with (MapThenSumSet of FiniteSetsExt).  The claim of an induction is a  *)
(* set, the set of what has it, so that no operator has to be instantiated.*)
(***************************************************************************)
EXTENDS FiniteSetsExt, FiniteSetTheorems, TLAPS

-----------------------------------------------------------------------------
(* Induction. *)

\* A set that holds a subset of S whenever it holds the smaller ones holds all.
LEMMA SubsetInduction ==
  ASSUME NEW S, IsFiniteSet(S), NEW P,
         \A T \in SUBSET S : (\A U \in SUBSET T : U # T => U \in P) => T \in P
  PROVE  SUBSET S \subseteq P
<1> DEFINE Bad == (SUBSET S) \ P
           Less == StrictSubsetOrdering(S)
<1>1. SUFFICES ASSUME Bad # {} PROVE FALSE
  OBVIOUS
<1>2. IsWellFoundedOn(Less, SUBSET S)
  BY FS_StrictSubsetOrderingWellFounded, FS_FiniteSubsetsOfFinite
<1>3. PICK T \in Bad : \A U \in Bad : <<U, T>> \notin Less
  <2>1. Bad \subseteq SUBSET S
    OBVIOUS
  <2> HIDE DEF Bad, Less
  <2> QED
    BY <1>1, <1>2, <2>1, WFMin
<1>4. \A U \in SUBSET T : U # T => U \in P
  <2> SUFFICES ASSUME NEW U \in SUBSET T, U # T, U \notin P PROVE FALSE
    OBVIOUS
  <2>1. U \in Bad /\ <<U, T>> \in Less
    BY DEF StrictSubsetOrdering
  <2> QED
    BY <1>3, <2>1
<1> QED
  BY <1>4

\* The same, one element at a time.
LEMMA ElementInduction ==
  ASSUME NEW S, IsFiniteSet(S), NEW P, {} \in P,
         \A T \in SUBSET S : \A x \in T : T \ {x} \in P => T \in P
  PROVE  SUBSET S \subseteq P
<1>1. ASSUME NEW T \in SUBSET S, \A U \in SUBSET T : U # T => U \in P
      PROVE  T \in P
  <2>1. CASE T = {}
    BY <2>1
  <2>2. CASE T # {}
    <3>1. PICK x \in T : TRUE
      BY <2>2
    <3>2. T \ {x} \in SUBSET T /\ T \ {x} # T
      OBVIOUS
    <3> QED
      BY <1>1, <3>2
  <2> QED
    BY <2>1, <2>2
<1> QED
  BY <1>1, SubsetInduction

-----------------------------------------------------------------------------
(* Sums. *)

SumOver(w, S) == MapThenSumSet(LAMBDA x : w[x], S)

Pick(s) == CHOOSE x \in s : TRUE

\* The recursive function behind the fold, on some of the sets.
SumStep(f, w, s) == IF s = {} THEN 0 ELSE w[Pick(s)] + f[s \ {Pick(s)}]

IsSum(f, w, D) == f = [s \in D |-> SumStep(f, w, s)]

LEMMA SumOverIs ==
  ASSUME NEW w, NEW S
  PROVE  SumOver(w, S) = (CHOOSE f : IsSum(f, w, SUBSET S))[S]
  BY DEF SumOver, MapThenSumSet, MapThenFoldSet, IsSum, SumStep, Pick

LEMMA PickIn ==
  ASSUME NEW s, s # {}
  PROVE  Pick(s) \in s
  BY DEF Pick

\* There is such a function: first on the subsets of at most n elements.
Small(S, n) == {s \in SUBSET S : Cardinality(s) <= n}

LEMMA SmallSmaller ==
  ASSUME NEW S, IsFiniteSet(S), NEW n \in Nat, NEW s \in Small(S, n + 1),
         NEW x \in s
  PROVE  s \ {x} \in Small(S, n)
<1>1. IsFiniteSet(s)
  BY FS_Subset DEF Small
<1>2. /\ Cardinality(s \ {x}) = Cardinality(s) - 1
      /\ Cardinality(s) \in Nat
  BY <1>1, FS_RemoveElement, FS_CardinalityType
<1> QED
  BY <1>2 DEF Small

LEMMA SmallSum ==
  ASSUME NEW S, IsFiniteSet(S), NEW w, NEW n \in Nat, NEW f,
         IsSum(f, w, Small(S, n))
  PROVE  \E g : IsSum(g, w, Small(S, n + 1))
<1> DEFINE g == [s \in Small(S, n + 1) |-> SumStep(f, w, s)]
<1>1. \A s \in Small(S, n) : s \in Small(S, n + 1) /\ g[s] = f[s]
  <2> SUFFICES ASSUME NEW s \in Small(S, n)
               PROVE  s \in Small(S, n + 1) /\ g[s] = f[s]
    OBVIOUS
  <2>1. s \in Small(S, n + 1)
    <3>1. Cardinality(s) \in Nat
      BY FS_Subset, FS_CardinalityType DEF Small
    <3> QED
      BY <3>1 DEF Small
  <2>2. f[s] = SumStep(f, w, s)
    BY DEF IsSum
  <2> QED
    BY <2>1, <2>2
<1>2. \A s \in Small(S, n + 1) : g[s] = SumStep(g, w, s)
  <2> SUFFICES ASSUME NEW s \in Small(S, n + 1)
               PROVE  g[s] = SumStep(g, w, s)
    OBVIOUS
  <2>1. g[s] = SumStep(f, w, s)
    OBVIOUS
  <2>2. CASE s = {}
    BY <2>1, <2>2 DEF SumStep
  <2>3. CASE s # {}
    <3>1. s \ {Pick(s)} \in Small(S, n)
      BY <2>3, PickIn, SmallSmaller
    <3>2. g[s \ {Pick(s)}] = f[s \ {Pick(s)}]
      BY <1>1, <3>1
    <3> HIDE DEF g
    <3> QED
      BY <2>1, <2>3, <3>2 DEF SumStep
  <2> QED
    BY <2>2, <2>3
<1>3. g = [s \in Small(S, n + 1) |-> SumStep(g, w, s)]
  <2>1. g = [s \in Small(S, n + 1) |-> g[s]]
    OBVIOUS
  <2> HIDE DEF g
  <2> QED
    BY <1>2, <2>1
<1> QED
  BY <1>3 DEF IsSum

LEMMA SumExists ==
  ASSUME NEW S, IsFiniteSet(S), NEW w
  PROVE  \E f : IsSum(f, w, SUBSET S)
<1> DEFINE P == {T \in SUBSET S : \E f : IsSum(f, w, Small(S, Cardinality(T)))}
<1>1. {} \in P
  <2> DEFINE f == [s \in Small(S, 0) |-> 0]
  <2>1. \A s \in Small(S, 0) : s = {}
    <3> SUFFICES ASSUME NEW s \in Small(S, 0) PROVE s = {}
      OBVIOUS
    <3>1. IsFiniteSet(s) /\ Cardinality(s) \in Nat /\ Cardinality(s) <= 0
      BY FS_Subset, FS_CardinalityType DEF Small
    <3> QED
      BY <3>1, FS_EmptySet
  <2>2. IsSum(f, w, Small(S, 0))
    BY <2>1 DEF IsSum, SumStep
  <2> HIDE DEF f
  <2> QED
    BY <2>2, FS_EmptySet
<1>2. ASSUME NEW T \in SUBSET S, NEW x \in T, T \ {x} \in P
      PROVE  T \in P
  <2>1. IsFiniteSet(T)
    BY FS_Subset
  <2> DEFINE n == Cardinality(T \ {x})
  <2>2. n \in Nat /\ Cardinality(T) = n + 1
    <3>1. n = Cardinality(T) - 1 /\ n \in Nat /\ Cardinality(T) \in Nat
      BY <2>1, FS_RemoveElement, FS_CardinalityType
    <3> QED
      BY <3>1
  <2>3. \E f : IsSum(f, w, Small(S, n))
    BY <1>2
  <2> HIDE DEF n
  <2>4. \E f : IsSum(f, w, Small(S, n + 1))
    BY <2>2, <2>3, SmallSum
  <2> QED
    BY <2>2, <2>4
<1>3. S \in P
  <2> HIDE DEF P
  <2>1. SUBSET S \subseteq P
    BY <1>1, <1>2, ElementInduction
  <2> QED
    BY <2>1
<1>4. Small(S, Cardinality(S)) = SUBSET S
  <2>1. \A s \in SUBSET S : Cardinality(s) <= Cardinality(S)
    BY FS_Subset
  <2> QED
    BY <2>1 DEF Small
<1> QED
  BY <1>3, <1>4

\* There is one such function only, and it does not depend on the set that it
\* is for.
LEMMA SumUnique ==
  ASSUME NEW S, IsFiniteSet(S), NEW w, NEW T \in SUBSET S, NEW f, NEW g,
         IsSum(f, w, SUBSET S), IsSum(g, w, SUBSET T)
  PROVE  f[T] = g[T]
<1> DEFINE P == {U \in SUBSET T : f[U] = g[U]}
<1>1. IsFiniteSet(T)
  BY FS_Subset
<1>2. ASSUME NEW U \in SUBSET T, \A V \in SUBSET U : V # U => V \in P
      PROVE  U \in P
  <2>1. f[U] = SumStep(f, w, U) /\ g[U] = SumStep(g, w, U)
    BY DEF IsSum
  <2>2. CASE U = {}
    BY <2>1, <2>2 DEF SumStep
  <2>3. CASE U # {}
    <3>1. U \ {Pick(U)} \in SUBSET U /\ U \ {Pick(U)} # U
      BY <2>3, PickIn
    <3>2. f[U \ {Pick(U)}] = g[U \ {Pick(U)}]
      BY <1>2, <3>1
    <3> QED
      BY <2>1, <2>3, <3>2 DEF SumStep
  <2> QED
    BY <2>2, <2>3
<1>3. SUBSET T \subseteq P
  <2> HIDE DEF P
  <2> QED
    BY <1>1, <1>2, SubsetInduction
<1> QED
  BY <1>3

LEMMA SumOverOf ==
  ASSUME NEW S, IsFiniteSet(S), NEW w, NEW T \in SUBSET S, NEW f,
         IsSum(f, w, SUBSET S)
  PROVE  SumOver(w, T) = f[T]
<1>1. IsFiniteSet(T)
  BY FS_Subset
<1> DEFINE g == CHOOSE h : IsSum(h, w, SUBSET T)
<1>2. IsSum(g, w, SUBSET T)
  BY <1>1, SumExists
<1>3. SumOver(w, T) = g[T]
  BY SumOverIs
<1> HIDE DEF g
<1> QED
  BY <1>2, <1>3, SumUnique

LEMMA SumEmpty ==
  ASSUME NEW w
  PROVE  SumOver(w, {}) = 0
<1>1. PICK f : IsSum(f, w, SUBSET {})
  BY SumExists, FS_EmptySet
<1>2. SumOver(w, {}) = f[{}]
  BY <1>1, SumOverOf, FS_EmptySet
<1>3. f[{}] = SumStep(f, w, {})
  BY <1>1 DEF IsSum
<1> QED
  BY <1>2, <1>3 DEF SumStep

LEMMA SumPick ==
  ASSUME NEW S, IsFiniteSet(S), S # {}, NEW w
  PROVE  SumOver(w, S) = w[Pick(S)] + SumOver(w, S \ {Pick(S)})
<1>1. PICK f : IsSum(f, w, SUBSET S)
  BY SumExists
<1>2. SumOver(w, S) = f[S] /\ SumOver(w, S \ {Pick(S)}) = f[S \ {Pick(S)}]
  BY <1>1, SumOverOf
<1>3. f[S] = SumStep(f, w, S)
  BY <1>1 DEF IsSum
<1> QED
  BY <1>2, <1>3 DEF SumStep

\* A sum of naturals is one.
LEMMA SumType ==
  ASSUME NEW S, IsFiniteSet(S), NEW w, \A x \in S : w[x] \in Nat
  PROVE  SumOver(w, S) \in Nat
<1> DEFINE P == {T \in SUBSET S : SumOver(w, T) \in Nat}
<1>1. ASSUME NEW T \in SUBSET S, \A U \in SUBSET T : U # T => U \in P
      PROVE  T \in P
  <2>1. CASE T = {}
    BY <2>1, SumEmpty
  <2>2. CASE T # {}
    <3>1. Pick(T) \in T /\ IsFiniteSet(T)
      BY <2>2, PickIn, FS_Subset
    <3>2. SumOver(w, T \ {Pick(T)}) \in Nat
      <4>1. T \ {Pick(T)} \in SUBSET T /\ T \ {Pick(T)} # T
        BY <3>1
      <4> QED
        BY <1>1, <4>1
    <3>3. SumOver(w, T) = w[Pick(T)] + SumOver(w, T \ {Pick(T)})
      BY <2>2, <3>1, SumPick
    <3>4. w[Pick(T)] \in Nat
      BY <3>1
    <3> QED
      BY <3>2, <3>3, <3>4
  <2> QED
    BY <2>1, <2>2
<1>2. SUBSET S \subseteq P
  <2> HIDE DEF P
  <2> QED
    BY <1>1, SubsetInduction
<1> QED
  BY <1>2

\* Any element may be taken out first.
LEMMA SumTakeOut ==
  ASSUME NEW S, IsFiniteSet(S), NEW w, \A x \in S : w[x] \in Nat, NEW x \in S
  PROVE  SumOver(w, S) = w[x] + SumOver(w, S \ {x})
<1> DEFINE Out(T, y) == SumOver(w, T) = w[y] + SumOver(w, T \ {y})
           P == {T \in SUBSET S : \A y \in T : Out(T, y)}
<1>1. ASSUME NEW T \in SUBSET S, \A U \in SUBSET T : U # T => U \in P,
             NEW y \in T
      PROVE  Out(T, y)
  <2> DEFINE p == Pick(T)
  <2>1. IsFiniteSet(T) /\ p \in T
    BY PickIn, FS_Subset
  <2>2. Out(T, p)
    BY <2>1, SumPick
  <2> HIDE DEF p
  <2>3. CASE y = p
    BY <2>2, <2>3
  <2>4. CASE y # p
    <3> DEFINE Tp == T \ {p}
               Ty == T \ {y}
               Tpy == T \ {p, y}
    <3>1. Tp \in P /\ Ty \in P
      <4>1. Tp \in SUBSET T /\ Tp # T /\ Ty \in SUBSET T /\ Ty # T
        BY <2>1
      <4> QED
        BY <1>1, <4>1
    <3>2. SumOver(w, Tp) = w[y] + SumOver(w, Tpy)
      <4>1. y \in Tp /\ Tp \ {y} = Tpy
        BY <2>4
      <4>2. Out(Tp, y)
        BY <3>1, <4>1
      <4> QED
        BY <4>1, <4>2
    <3>3. SumOver(w, Ty) = w[p] + SumOver(w, Tpy)
      <4>1. p \in Ty /\ Ty \ {p} = Tpy
        BY <2>1, <2>4
      <4>2. Out(Ty, p)
        BY <3>1, <4>1
      <4> QED
        BY <4>1, <4>2
    <3>4. SumOver(w, Tpy) \in Nat /\ w[p] \in Nat /\ w[y] \in Nat
      <4>1. IsFiniteSet(Tpy)
        BY FS_Subset
      <4> QED
        BY <2>1, <4>1, SumType
    <3> QED
      BY <2>2, <3>2, <3>3, <3>4
  <2> QED
    BY <2>3, <2>4
<1>2. SUBSET S \subseteq P
  <2>1. ASSUME NEW T \in SUBSET S, \A U \in SUBSET T : U # T => U \in P
        PROVE  T \in P
    BY <1>1, <2>1
  <2> HIDE DEF P
  <2> QED
    BY <2>1, SubsetInduction
<1> QED
  BY <1>2

LEMMA SumAdd ==
  ASSUME NEW S, IsFiniteSet(S), NEW w, NEW x, x \notin S,
         \A y \in S \cup {x} : w[y] \in Nat
  PROVE  SumOver(w, S \cup {x}) = w[x] + SumOver(w, S)
<1>1. IsFiniteSet(S \cup {x}) /\ (S \cup {x}) \ {x} = S
  BY FS_AddElement
<1> QED
  BY <1>1, SumTakeOut

\* Only the weights of the set matter.
LEMMA SumSame ==
  ASSUME NEW S, IsFiniteSet(S), NEW w, NEW v, \A x \in S : w[x] = v[x]
  PROVE  SumOver(w, S) = SumOver(v, S)
<1> DEFINE P == {T \in SUBSET S : SumOver(w, T) = SumOver(v, T)}
<1>1. ASSUME NEW T \in SUBSET S, \A U \in SUBSET T : U # T => U \in P
      PROVE  T \in P
  <2>1. CASE T = {}
    BY <2>1, SumEmpty
  <2>2. CASE T # {}
    <3>1. Pick(T) \in T /\ IsFiniteSet(T)
      BY <2>2, PickIn, FS_Subset
    <3>2. SumOver(w, T \ {Pick(T)}) = SumOver(v, T \ {Pick(T)})
      <4>1. T \ {Pick(T)} \in SUBSET T /\ T \ {Pick(T)} # T
        BY <3>1
      <4> QED
        BY <1>1, <4>1
    <3> QED
      BY <2>2, <3>1, <3>2, SumPick
  <2> QED
    BY <2>1, <2>2
<1>2. SUBSET S \subseteq P
  <2> HIDE DEF P
  <2> QED
    BY <1>1, SubsetInduction
<1> QED
  BY <1>2

\* A sum is that of a part of the set and that of the rest.
LEMMA SumSplit ==
  ASSUME NEW S, IsFiniteSet(S), NEW w, \A x \in S : w[x] \in Nat,
         NEW T \in SUBSET S
  PROVE  SumOver(w, S) = SumOver(w, T) + SumOver(w, S \ T)
<1> DEFINE Splits(U) == SumOver(w, S) = SumOver(w, U) + SumOver(w, S \ U)
           P == {U \in SUBSET S : Splits(U)}
<1>1. {} \in P
  <2>1. S \ {} = S /\ SumOver(w, S) \in Nat
    BY SumType
  <2> QED
    BY <2>1, SumEmpty
<1>2. ASSUME NEW U \in SUBSET S, NEW x \in U, U \ {x} \in P
      PROVE  U \in P
  <2> DEFINE V == U \ {x}
             R == S \ U
  <2>1. IsFiniteSet(U) /\ IsFiniteSet(V) /\ IsFiniteSet(R)
    BY FS_Subset
  <2>2. SumOver(w, U) = w[x] + SumOver(w, V)
    BY <2>1, SumTakeOut
  <2>3. SumOver(w, S \ V) = w[x] + SumOver(w, R)
    <3>1. x \in S \ V /\ (S \ V) \ {x} = R /\ IsFiniteSet(S \ V)
      BY FS_Subset
    <3> QED
      BY <3>1, SumTakeOut
  <2>4. w[x] \in Nat /\ SumOver(w, V) \in Nat /\ SumOver(w, R) \in Nat
    BY <2>1, SumType
  <2>5. Splits(V)
    BY <1>2
  <2> QED
    BY <2>2, <2>3, <2>4, <2>5
<1>3. SUBSET S \subseteq P
  <2> HIDE DEF P
  <2> QED
    BY <1>1, <1>2, ElementInduction
<1> QED
  BY <1>3

LEMMA SumSubset ==
  ASSUME NEW S, IsFiniteSet(S), NEW w, \A x \in S : w[x] \in Nat,
         NEW T \in SUBSET S
  PROVE  SumOver(w, T) <= SumOver(w, S)
<1>1. IsFiniteSet(T) /\ IsFiniteSet(S \ T)
  BY FS_Subset
<1>2. SumOver(w, T) \in Nat /\ SumOver(w, S \ T) \in Nat
  BY <1>1, SumType
<1> QED
  BY <1>2, SumSplit

LEMMA SumZero ==
  ASSUME NEW S, IsFiniteSet(S), NEW w, \A x \in S : w[x] = 0
  PROVE  SumOver(w, S) = 0
<1> DEFINE P == {T \in SUBSET S : SumOver(w, T) = 0}
<1>1. {} \in P
  BY SumEmpty
<1>2. ASSUME NEW T \in SUBSET S, NEW x \in T, T \ {x} \in P
      PROVE  T \in P
  <2>1. IsFiniteSet(T)
    BY FS_Subset
  <2>2. SumOver(w, T) = w[x] + SumOver(w, T \ {x})
    BY <2>1, SumTakeOut
  <2> QED
    BY <1>2, <2>2
<1>3. SUBSET S \subseteq P
  <2> HIDE DEF P
  <2> QED
    BY <1>1, <1>2, ElementInduction
<1> QED
  BY <1>3

\* What weighs nothing may be left out.
LEMMA SumWeighing ==
  ASSUME NEW S, IsFiniteSet(S), NEW w, \A x \in S : w[x] \in Nat,
         NEW T \in SUBSET S, \A x \in S \ T : w[x] = 0
  PROVE  SumOver(w, T) = SumOver(w, S)
<1>1. IsFiniteSet(T) /\ IsFiniteSet(S \ T)
  BY FS_Subset
<1>2. SumOver(w, T) \in Nat /\ SumOver(w, S \ T) = 0
  BY <1>1, SumType, SumZero
<1> QED
  BY <1>2, SumSplit

\* One weight changes.
LEMMA SumChanged ==
  ASSUME NEW S, IsFiniteSet(S), NEW w, NEW v, NEW x \in S,
         \A y \in S : w[y] \in Nat /\ v[y] \in Nat,
         \A y \in S \ {x} : w[y] = v[y]
  PROVE  SumOver(v, S) + w[x] = SumOver(w, S) + v[x]
<1> DEFINE R == S \ {x}
<1>1. IsFiniteSet(R)
  BY FS_Subset
<1>2. SumOver(w, S) = w[x] + SumOver(w, R) /\ SumOver(v, S) = v[x] + SumOver(v, R)
  BY SumTakeOut
<1>3. SumOver(w, R) = SumOver(v, R)
  BY <1>1, SumSame
<1>4. SumOver(w, R) \in Nat /\ SumOver(v, R) \in Nat
  BY <1>1, SumType
<1> QED
  BY <1>2, <1>3, <1>4

-----------------------------------------------------------------------------
(* Folds in a given order: step[<<x, v>>] is what x makes of v, and        *)
(* pick[s] is the element of s that comes last.                            *)

FoldStep(f, base, step, pick, s) ==
  IF s = {} THEN base ELSE step[<<pick[s], f[s \ {pick[s]}]>>]

IsFold(f, base, step, pick, D) ==
  f = [s \in D |-> FoldStep(f, base, step, pick, s)]

Picks(pick, S) == \A s \in SUBSET S : s # {} => pick[s] \in s

LEMMA SmallFold ==
  ASSUME NEW S, IsFiniteSet(S), NEW base, NEW step, NEW pick,
         Picks(pick, S), NEW n \in Nat, NEW f,
         IsFold(f, base, step, pick, Small(S, n))
  PROVE  \E g : IsFold(g, base, step, pick, Small(S, n + 1))
<1> DEFINE g == [s \in Small(S, n + 1) |-> FoldStep(f, base, step, pick, s)]
<1>1. \A s \in Small(S, n) : s \in Small(S, n + 1) /\ g[s] = f[s]
  <2> SUFFICES ASSUME NEW s \in Small(S, n)
               PROVE  s \in Small(S, n + 1) /\ g[s] = f[s]
    OBVIOUS
  <2>1. s \in Small(S, n + 1)
    <3>1. Cardinality(s) \in Nat
      BY FS_Subset, FS_CardinalityType DEF Small
    <3> QED
      BY <3>1 DEF Small
  <2>2. f[s] = FoldStep(f, base, step, pick, s)
    BY DEF IsFold
  <2> QED
    BY <2>1, <2>2
<1>2. \A s \in Small(S, n + 1) : g[s] = FoldStep(g, base, step, pick, s)
  <2> SUFFICES ASSUME NEW s \in Small(S, n + 1)
               PROVE  g[s] = FoldStep(g, base, step, pick, s)
    OBVIOUS
  <2>1. g[s] = FoldStep(f, base, step, pick, s)
    OBVIOUS
  <2>2. CASE s = {}
    BY <2>1, <2>2 DEF FoldStep
  <2>3. CASE s # {}
    <3>1. s \ {pick[s]} \in Small(S, n)
      BY <2>3, SmallSmaller DEF Picks, Small
    <3>2. g[s \ {pick[s]}] = f[s \ {pick[s]}]
      BY <1>1, <3>1
    <3> HIDE DEF g
    <3> QED
      BY <2>1, <2>3, <3>2 DEF FoldStep
  <2> QED
    BY <2>2, <2>3
<1>3. g = [s \in Small(S, n + 1) |-> FoldStep(g, base, step, pick, s)]
  <2>1. g = [s \in Small(S, n + 1) |-> g[s]]
    OBVIOUS
  <2> HIDE DEF g
  <2> QED
    BY <1>2, <2>1
<1> QED
  BY <1>3 DEF IsFold

LEMMA FoldExists ==
  ASSUME NEW S, IsFiniteSet(S), NEW base, NEW step, NEW pick, Picks(pick, S)
  PROVE  \E f : IsFold(f, base, step, pick, SUBSET S)
<1> DEFINE Folded(n) == \E f : IsFold(f, base, step, pick, Small(S, n))
           P == {T \in SUBSET S : Folded(Cardinality(T))}
<1>1. {} \in P
  <2> DEFINE f == [s \in Small(S, 0) |-> base]
  <2>1. \A s \in Small(S, 0) : s = {}
    <3> SUFFICES ASSUME NEW s \in Small(S, 0) PROVE s = {}
      OBVIOUS
    <3>1. IsFiniteSet(s) /\ Cardinality(s) \in Nat /\ Cardinality(s) <= 0
      BY FS_Subset, FS_CardinalityType DEF Small
    <3> QED
      BY <3>1, FS_EmptySet
  <2>2. IsFold(f, base, step, pick, Small(S, 0))
    BY <2>1 DEF IsFold, FoldStep
  <2> HIDE DEF f
  <2> QED
    BY <2>2, FS_EmptySet
<1>2. ASSUME NEW T \in SUBSET S, NEW x \in T, T \ {x} \in P
      PROVE  T \in P
  <2>1. IsFiniteSet(T)
    BY FS_Subset
  <2> DEFINE n == Cardinality(T \ {x})
  <2>2. n \in Nat /\ Cardinality(T) = n + 1
    <3>1. n = Cardinality(T) - 1 /\ n \in Nat /\ Cardinality(T) \in Nat
      BY <2>1, FS_RemoveElement, FS_CardinalityType
    <3> QED
      BY <3>1
  <2>3. \E f : IsFold(f, base, step, pick, Small(S, n))
    BY <1>2
  <2> HIDE DEF n
  <2>4. \E f : IsFold(f, base, step, pick, Small(S, n + 1))
    BY <2>2, <2>3, SmallFold
  <2> QED
    BY <2>2, <2>4
<1>3. S \in P
  <2> HIDE DEF P
  <2>1. SUBSET S \subseteq P
    BY <1>1, <1>2, ElementInduction
  <2> QED
    BY <2>1
<1>4. Small(S, Cardinality(S)) = SUBSET S
  <2>1. \A s \in SUBSET S : Cardinality(s) <= Cardinality(S)
    BY FS_Subset
  <2> QED
    BY <2>1 DEF Small
<1> QED
  BY <1>3, <1>4
=============================================================================
