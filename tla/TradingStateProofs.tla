------------------------- MODULE TradingStateProofs -------------------------
(***************************************************************************)
(* Every method of the trading state keeps its type and the relation       *)
(* between open_mints and open_since: the lemmas the proofs about the      *)
(* modules that call these methods cite.                                   *)
(***************************************************************************)
EXTENDS TradingState, TLAPS

LEMMA OlderType ==
  ASSUME NEW age \in Ages \cup {None}
  PROVE  Older(age) \in Ages \cup {None}
  BY TSAssumption DEF Ages, Older

\* An amount given back leaves a sum that is no negative number.
LEMMA ReleasedType ==
  ASSUME NEW x \in Nat \cup {NaN}, NEW sol \in Nat \cup {NaN}
  PROVE  Released(x, sol) \in Nat \cup {NaN}
  BY TSAssumption DEF Released, Sub

LEMMA PlusType ==
  ASSUME NEW x \in Nat \cup {NaN}, NEW sol \in Nat
  PROVE  Plus(x, sol) \in Nat \cup {NaN}
  BY TSAssumption DEF Plus

LEMMA ZeroAge == 0 \in Ages
  BY TSAssumption DEF Ages

LEMMA PrunedType ==
  ASSUME NEW exited \in [Mints -> Ages \cup {None}]
  PROVE  Pruned(exited) \in [Mints -> Ages \cup {None}]
  BY DEF Pruned

LEMMA NewType ==
  ASSUME New
  PROVE  TSTypeOK
<1>1. \A m \in Mints : openSince[m] # None => m \in openMints
  BY DEF New
<1>2. /\ openSince \in [Mints -> Ages \cup {None}]
      /\ recentlyExited \in [Mints -> Ages \cup {None}]
  <2>1. [m \in Mints |-> None] \in [Mints -> Ages \cup {None}]
    OBVIOUS
  <2> QED
    BY <2>1 DEF New
<1>3. /\ openMints \in SUBSET Mints
      /\ pendingMints \in SUBSET Mints
      /\ blacklistedDevs \in SUBSET Devs
  BY DEF New
<1>4. exposure \in Nat \cup {NaN} /\ todayPnl \in Int
  BY DEF New
<1>5. rolledOver \in BOOLEAN
  BY DEF New
<1> QED
  BY <1>1, <1>2, <1>3, <1>4, <1>5 DEF TSTypeOK

LEMMA TryReserveType ==
  ASSUME TSTypeOK, NEW m \in Mints, NEW bypass \in BOOLEAN,
         TryReserve(m, bypass)
  PROVE  TSTypeOK'
  BY DEF TSTypeOK, TryReserve

LEMMA ReleaseReservationType ==
  ASSUME TSTypeOK, NEW m, ReleaseReservation(m)
  PROVE  TSTypeOK'
  BY DEF TSTypeOK, ReleaseReservation

LEMMA RecordBuyType ==
  ASSUME TSTypeOK, NEW m \in Mints, NEW sol \in Nat, RecordBuy(m, sol)
  PROVE  TSTypeOK'
<1>1. exposure' \in Nat \cup {NaN}
  BY PlusType DEF TSTypeOK, RecordBuy
<1>2. openSince' \in [Mints -> Ages \cup {None}]
  BY ZeroAge DEF TSTypeOK, RecordBuy
<1>3. \A n \in Mints : openSince'[n] # None => n \in openMints'
  BY DEF TSTypeOK, RecordBuy
<1> QED
  BY <1>1, <1>2, <1>3 DEF TSTypeOK, RecordBuy

LEMMA BookPnlType ==
  ASSUME TSTypeOK, NEW pnl \in Int, BookPnl(pnl)
  PROVE  todayPnl' \in Int /\ rolledOver' \in BOOLEAN
<1>1. (IF rolledOver THEN 0 ELSE todayPnl) \in Int
  BY DEF TSTypeOK
<1>2. todayPnl' \in Int
  BY <1>1 DEF BookPnl
<1>3. rolledOver' \in BOOLEAN
  BY DEF BookPnl
<1> QED
  BY <1>2, <1>3

LEMMA RecordExitType ==
  ASSUME TSTypeOK, NEW m \in Mints, NEW sol \in Nat \cup {NaN},
         NEW pnl \in Int, NEW full \in BOOLEAN, RecordExit(m, sol, pnl, full)
  PROVE  TSTypeOK'
<1>1. todayPnl' \in Int /\ rolledOver' \in BOOLEAN
  BY BookPnlType DEF RecordExit
<1>2. CASE full
  <2>1. exposure' \in Nat \cup {NaN}
    BY <1>2, ReleasedType DEF TSTypeOK, RecordExit
  <2>2. recentlyExited' \in [Mints -> Ages \cup {None}]
    <3>1. [recentlyExited EXCEPT ![m] = 0] \in [Mints -> Ages \cup {None}]
      BY ZeroAge DEF TSTypeOK
    <3> QED
      BY <1>2, <3>1, PrunedType DEF RecordExit
  <2>3. /\ openSince' \in [Mints -> Ages \cup {None}]
        /\ \A n \in Mints : openSince'[n] # None => n \in openMints'
    BY <1>2 DEF TSTypeOK, RecordExit
  <2> QED
    BY <1>1, <1>2, <2>1, <2>2, <2>3 DEF TSTypeOK, RecordExit
<1>3. CASE ~full
  BY <1>1, <1>3 DEF TSTypeOK, RecordExit
<1> QED
  BY <1>2, <1>3

LEMMA ForceCloseType ==
  ASSUME TSTypeOK, NEW m \in Mints, NEW sol \in Nat, ForceClose(m, sol)
  PROVE  TSTypeOK'
<1>1. CASE m \in openMints
  <2>1. exposure' \in Nat \cup {NaN}
    BY <1>1, ReleasedType DEF TSTypeOK, ForceClose
  <2>2. recentlyExited' \in [Mints -> Ages \cup {None}]
    BY <1>1, ZeroAge DEF TSTypeOK, ForceClose
  <2>3. /\ openSince' \in [Mints -> Ages \cup {None}]
        /\ \A n \in Mints : openSince'[n] # None => n \in openMints'
    BY <1>1 DEF TSTypeOK, ForceClose
  <2> QED
    BY <1>1, <2>1, <2>2, <2>3 DEF TSTypeOK, ForceClose
<1>2. CASE m \notin openMints
  BY <1>2 DEF TSTypeOK, ForceClose
<1> QED
  BY <1>1, <1>2

LEMMA ReadTodayPnlType ==
  ASSUME TSTypeOK, ReadTodayPnl
  PROVE  TSTypeOK'
<1>1. todayPnl' \in Int /\ rolledOver' \in BOOLEAN
  BY BookPnlType DEF ReadTodayPnl
<1> QED
  BY <1>1 DEF TSTypeOK, ReadTodayPnl

LEMMA HydrateRowType ==
  ASSUME TSTypeOK, NEW m \in Mints, NEW sol \in Nat, HydrateRow(m, sol)
  PROVE  TSTypeOK'
<1>1. exposure' \in Nat \cup {NaN}
  BY PlusType DEF TSTypeOK, HydrateRow
<1> QED
  BY <1>1 DEF TSTypeOK, HydrateRow

LEMMA HydratePnlType ==
  ASSUME TSTypeOK, NEW pnl \in Int, HydratePnl(pnl)
  PROVE  TSTypeOK'
  BY DEF TSTypeOK, HydratePnl

LEMMA TickType ==
  ASSUME TSTypeOK, Tick
  PROVE  TSTypeOK'
<1>1. \A m \in Mints : /\ Older(openSince[m]) \in Ages \cup {None}
                       /\ Older(recentlyExited[m]) \in Ages \cup {None}
                       /\ Older(openSince[m]) # None => openSince[m] # None
  BY OlderType DEF TSTypeOK, Older
<1> QED
  BY <1>1 DEF TSTypeOK, Tick

LEMMA MidnightType ==
  ASSUME TSTypeOK, Midnight
  PROVE  TSTypeOK'
  BY DEF TSTypeOK, Midnight
=============================================================================
