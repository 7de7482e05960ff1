--------------------------- MODULE BuyPathProofs ---------------------------
(***************************************************************************)
(* What holds of BuyPath for every set of buyers, mints, sizes and rows,   *)
(* every cap and every timeout, and of the re-entry watcher beside it, for *)
(* all windows, caps, queues and mints.                                    *)
(***************************************************************************)
EXTENDS ReEntry, TradingStateProofs, SumLemmas

-----------------------------------------------------------------------------
(* The type invariant. *)

\* The part of TypeOK about a buyer, and how each step of a buyer keeps it.
BuyerType == [pc : Steps, mint : Mints \cup {None},
              size : Amounts \cup {0}, ok : BOOLEAN]

BuyerOK(r) ==
  /\ r \in BuyerType
  /\ IF r.pc = "idle" THEN r = Idle ELSE r.mint \in Mints /\ r.size \in Amounts

BuyersOK == /\ buyer \in [Buyers -> BuyerType]
            /\ \A b \in Buyers : BuyerOK(buyer[b])

LEMMA BuyersOfTypeOK == TypeOK => BuyersOK
  BY DEF TypeOK, BuyersOK, BuyerOK, BuyerType

LEMMA IdleOK == BuyerOK(Idle)
  BY DEF BuyerOK, Idle, BuyerType, Steps

LEMMA OneBuyer ==
  ASSUME BuyersOK, NEW b \in Buyers, NEW r, BuyerOK(r),
         buyer' = [buyer EXCEPT ![b] = r]
  PROVE  BuyersOK'
  BY DEF BuyersOK, BuyerOK

LEMMA MovedOK ==
  ASSUME NEW r, BuyerOK(r), r.pc # "idle", NEW pc \in Steps \ {"idle"},
         NEW ok \in BOOLEAN
  PROVE  BuyerOK([r EXCEPT !.pc = pc, !.ok = ok])
  BY DEF BuyerOK, BuyerType

LEMMA GotoType ==
  ASSUME BuyersOK, NEW b \in Buyers, buyer[b].pc # "idle",
         NEW pc \in Steps \ {"idle"}, Goto(b, pc)
  PROVE  BuyersOK'
<1>1. BuyerOK([buyer[b] EXCEPT !.pc = pc])
  BY DEF BuyersOK, BuyerOK, BuyerType
<1>2. buyer' = [buyer EXCEPT ![b] = [buyer[b] EXCEPT !.pc = pc]]
  BY DEF BuyersOK, Goto
<1> QED
  BY <1>1, <1>2, OneBuyer

LEMMA CheckType ==
  ASSUME BuyersOK, NEW b \in Buyers, buyer[b].pc # "idle",
         NEW pc \in Steps \ {"idle"}, NEW passed \in BOOLEAN,
         Check(b, passed, pc)
  PROVE  BuyersOK'
<1> DEFINE ok == buyer[b].ok /\ passed
<1>1. ok \in BOOLEAN
  OBVIOUS
<1>2. BuyerOK(buyer[b])
  BY DEF BuyersOK
<1>3. BuyerOK([buyer[b] EXCEPT !.pc = pc, !.ok = ok])
  BY <1>1, <1>2, MovedOK
<1>4. buyer' = [buyer EXCEPT ![b] = [buyer[b] EXCEPT !.pc = pc, !.ok = ok]]
  BY DEF BuyersOK, Check
<1> QED
  BY <1>3, <1>4, OneBuyer

LEMMA FinishType ==
  ASSUME BuyersOK, NEW b \in Buyers, Finish(b)
  PROVE  BuyersOK'
  BY IdleOK, OneBuyer DEF Finish

\* TypeOK by parts, each kept by the method or helper that a step calls.
TypeIs == /\ TSTypeOK
          /\ BuyersOK
          /\ rows \in SUBSET Row
          /\ toHydrate \in SUBSET Row
          /\ running \in BOOLEAN
          /\ running => toHydrate = {}
          /\ sweepList \in SUBSET Mints
          /\ sinceClosed \in [Mints -> Ages \cup {None}]
          /\ leaked \in Nat

LEMMA TypeParts == TypeOK <=> TypeIs
  BY DEF TypeOK, TypeIs, BuyersOK, BuyerOK, BuyerType

LEMMA TypePartsNext == TypeOK' <=> TypeIs'
  BY DEF TypeOK, TypeIs, BuyersOK, BuyerOK, BuyerType

LEMMA TypeInit == Init => TypeOK
<1> SUFFICES ASSUME Init PROVE TypeIs
  BY TypeParts
<1>1. TSTypeOK
  BY NewType DEF Init
<1>2. BuyersOK
  <2>1. buyer = [b \in Buyers |-> Idle]
    BY DEF Init
  <2> QED
    BY <2>1, IdleOK DEF BuyersOK, BuyerOK
<1>3. rows \in SUBSET Row
  BY DEF Init
<1>4. toHydrate \in SUBSET Row
  BY <1>3, Zenon DEF Init
<1>5. running \in BOOLEAN /\ (running => toHydrate = {})
  BY DEF Init
<1>6. sweepList \in SUBSET Mints /\ leaked \in Nat
  BY DEF Init
<1>7. sinceClosed \in [Mints -> Ages \cup {None}]
  <2>1. [m \in Mints |-> None] \in [Mints -> Ages \cup {None}]
    OBVIOUS
  <2> QED
    BY <2>1 DEF Init
<1> QED
  BY <1>1, <1>2, <1>3, <1>4, <1>5, <1>6, <1>7 DEF TypeIs

LEMMA TypeNext == TypeOK /\ [Next]_vars => TypeOK'
<1> SUFFICES ASSUME TypeIs, [Next]_vars PROVE TypeIs'
  BY TypeParts, TypePartsNext
<1>t. /\ TSTypeOK
      /\ BuyersOK
      /\ rows \in SUBSET Row
      /\ toHydrate \in SUBSET Row
      /\ running \in BOOLEAN
      /\ running => toHydrate = {}
      /\ sweepList \in SUBSET Mints
      /\ sinceClosed \in [Mints -> Ages \cup {None}]
      /\ leaked \in Nat
  BY DEF TypeIs
<1>1. ASSUME NEW row \in Row, Hydrate(row) PROVE TypeIs'
  <2>1. TSTypeOK'
    <3>1. row.mint \in Mints /\ row.size \in Nat
      BY TSAssumption DEF Row
    <3> QED
      BY <1>t, <1>1, <3>1, HydrateRowType DEF Hydrate
  <2>2. toHydrate' \in SUBSET Row /\ (running' => toHydrate' = {})
    BY <1>t, <1>1 DEF Hydrate
  <2> QED
    BY <1>t, <1>1, <2>1, <2>2 DEF Hydrate, BuyersOK, TypeIs
<1>2. ASSUME NEW pnl \in Results, FinishHydration(pnl) PROVE TypeIs'
  <2>1. TSTypeOK'
    BY <1>t, <1>2, BuyAssumption, HydratePnlType DEF FinishHydration
  <2> QED
    BY <1>t, <1>2, <2>1 DEF FinishHydration, BuyersOK, TypeIs
<1>3. ASSUME NEW b \in Buyers, NEW m \in Mints, NEW bypass \in BOOLEAN,
             NEW size \in Amounts, Reserve(b, m, bypass, size)
      PROVE  TypeIs'
  <2>1. TSTypeOK'
    BY <1>t, <1>3, TryReserveType DEF Reserve
  <2>2. BuyersOK'
    <3>1. BuyerOK([pc |-> "count", mint |-> m, size |-> size, ok |-> TRUE])
      BY DEF BuyerOK, BuyerType, Steps
    <3> QED
      BY <1>t, <1>3, <3>1, OneBuyer DEF Reserve
  <2> QED
    BY <1>t, <1>3, <2>1, <2>2 DEF Reserve, TypeIs
<1>4. ASSUME NEW b \in Buyers, CheckOpenCount(b) PROVE TypeIs'
  <2> DEFINE passed == Cardinality(openMints) < MaxOpenPositions
  <2>1. BuyersOK'
    <3>1. passed \in BOOLEAN
      OBVIOUS
    <3>2. buyer[b].pc # "idle" /\ "exposure" \in Steps \ {"idle"}
      BY <1>4 DEF CheckOpenCount, At, Steps
    <3>3. Check(b, passed, "exposure")
      BY <1>4 DEF CheckOpenCount
    <3> HIDE DEF passed
    <3> QED
      BY <1>t, <3>1, <3>2, <3>3, CheckType
  <2> QED
    BY <1>t, <1>4, <2>1 DEF CheckOpenCount, TSTypeOK, tsVars, TypeIs
<1>5. ASSUME NEW b \in Buyers, CheckExposure(b) PROVE TypeIs'
  <2> DEFINE passed == exposure = NaN \/ exposure + ConfiguredBuy <= MaxExposure
  <2>1. BuyersOK'
    <3>1. passed \in BOOLEAN
      OBVIOUS
    <3>2. buyer[b].pc # "idle" /\ "pnl" \in Steps \ {"idle"}
      BY <1>5 DEF CheckExposure, At, Steps
    <3>3. Check(b, passed, "pnl")
      BY <1>5 DEF CheckExposure
    <3> HIDE DEF passed
    <3> QED
      BY <1>t, <3>1, <3>2, <3>3, CheckType
  <2> QED
    BY <1>t, <1>5, <2>1 DEF CheckExposure, TSTypeOK, tsVars, TypeIs
<1>6. ASSUME NEW b \in Buyers, CheckDailyPnl(b) PROVE TypeIs'
  <2> DEFINE passed == todayPnl' > -DailyLossLimit
  <2>1. BuyersOK'
    <3>1. passed \in BOOLEAN
      OBVIOUS
    <3>2. buyer[b].pc # "idle" /\ "trade" \in Steps \ {"idle"}
      BY <1>6 DEF CheckDailyPnl, At, Steps
    <3>3. Check(b, passed, "trade")
      BY <1>6 DEF CheckDailyPnl
    <3> HIDE DEF passed
    <3> QED
      BY <1>t, <3>1, <3>2, <3>3, CheckType
  <2>2. TSTypeOK'
    BY <1>t, <1>6, ReadTodayPnlType DEF CheckDailyPnl
  <2> QED
    BY <1>t, <1>6, <2>1, <2>2 DEF CheckDailyPnl, TypeIs
<1>7. ASSUME NEW b \in Buyers, Abort(b) PROVE TypeIs'
  <2>1. BuyersOK'
    BY <1>t, <1>7, FinishType DEF Abort
  <2>2. TSTypeOK'
    BY <1>t, <1>7, ReleaseReservationType DEF Abort
  <2> QED
    BY <1>t, <1>7, <2>1, <2>2 DEF Abort, TypeIs
<1>8. ASSUME NEW b \in Buyers, Buy(b) PROVE TypeIs'
  <2>1. buyer[b].mint \in Mints /\ buyer[b].size \in Nat
    BY <1>t, <1>8, TSAssumption DEF Buy, At, BuyersOK, BuyerOK
  <2>2. BuyersOK'
    BY <1>t, <1>8, GotoType DEF Buy, At, Steps
  <2>3. TSTypeOK'
    BY <1>t, <1>8, <2>1, RecordBuyType DEF Buy
  <2> QED
    BY <1>t, <1>8, <2>2, <2>3 DEF Buy, TypeIs
<1>9. ASSUME NEW b \in Buyers, NEW id \in RowIds, InsertRow(b, id)
      PROVE  TypeIs'
  <2>1. buyer[b].mint \in Mints /\ buyer[b].size \in Amounts
    BY <1>t, <1>9 DEF InsertRow, At, BuyersOK, BuyerOK
  <2>2. rows' \in SUBSET Row
    BY <1>t, <1>9, <2>1 DEF InsertRow, Row
  <2>3. BuyersOK'
    BY <1>t, <1>9, FinishType DEF InsertRow
  <2> QED
    BY <1>t, <1>9, <2>2, <2>3 DEF InsertRow, TSTypeOK, tsVars, TypeIs
<1>10. ASSUME NEW b \in Buyers, InsertFails(b) PROVE TypeIs'
  <2>1. buyer[b].size \in Nat
    BY <1>t, <1>10, TSAssumption DEF InsertFails, At, BuyersOK, BuyerOK
  <2>2. BuyersOK'
    BY <1>t, <1>10, FinishType DEF InsertFails
  <2>3. TSTypeOK'
    BY <1>t, <1>10, ReleaseReservationType DEF InsertFails
  <2>4. leaked' \in Nat
    BY <1>t, <1>10, <2>1 DEF InsertFails
  <2> QED
    BY <1>t, <1>10, <2>2, <2>3, <2>4 DEF InsertFails, TypeIs
<1>11. ASSUME NEW row \in Row, NEW pnl \in Results, NEW full \in BOOLEAN,
              ExitPosition(row, pnl, full)
       PROVE  TypeIs'
  <2>1. row.mint \in Mints /\ row.size \in Nat
    BY TSAssumption DEF Row
  <2>2. TSTypeOK'
    BY <1>t, <1>11, <2>1, BuyAssumption, RecordExitType DEF ExitPosition
  <2>3. rows' \in SUBSET Row
    BY <1>t, <1>11 DEF ExitPosition
  <2>4. sinceClosed' \in [Mints -> Ages \cup {None}]
    BY <1>t, <1>11, ZeroAge DEF ExitPosition
  <2> QED
    BY <1>t, <1>11, <2>2, <2>3, <2>4 DEF ExitPosition, BuyersOK, TypeIs
<1>12. ASSUME SweepRead PROVE TypeIs'
  BY <1>t, <1>12 DEF SweepRead, StaleMints, BuyersOK, TSTypeOK, tsVars, TypeIs
<1>13. ASSUME NEW m \in Mints, SweepClose(m) PROVE TypeIs'
  <2>1. TSTypeOK'
    BY <1>t, <1>13, BuyAssumption, ForceCloseType DEF SweepClose
  <2>2. sweepList' \in SUBSET Mints
    BY <1>t, <1>13 DEF SweepClose
  <2>3. sinceClosed' \in [Mints -> Ages \cup {None}]
    BY <1>t, <1>13, ZeroAge DEF SweepClose
  <2> QED
    BY <1>t, <1>13, <2>1, <2>2, <2>3 DEF SweepClose, BuyersOK, TypeIs
<1>14. ASSUME Clock PROVE TypeIs'
  <2>1. TSTypeOK'
    BY <1>t, <1>14, TickType DEF Clock
  <2>2. sinceClosed' \in [Mints -> Ages \cup {None}]
    BY <1>t, <1>14, OlderType DEF Clock
  <2> QED
    BY <1>t, <1>14, <2>1, <2>2 DEF Clock, BuyersOK, TypeIs
<1>15. ASSUME NewDay PROVE TypeIs'
  <2>1. TSTypeOK'
    BY <1>t, <1>15, MidnightType DEF NewDay
  <2> QED
    BY <1>t, <1>15, <2>1 DEF NewDay, buyVars, BuyersOK, TypeIs
<1>16. CASE UNCHANGED vars
  BY <1>t, <1>16 DEF vars, buyVars, tsVars, TSTypeOK, BuyersOK, TypeIs
<1> QED
  BY <1>1, <1>2, <1>3, <1>4, <1>5, <1>6, <1>7, <1>8, <1>9, <1>10, <1>11,
     <1>12, <1>13, <1>14, <1>15, <1>16 DEF Next, Startup, Proceed

(***************************************************************************)
(* The state keeps its types, an open_since entry only for an open mint,   *)
(* and each buyer a mint and a size exactly while it is at work            *)
(* (execution/state.rs:20-42).                                             *)
(***************************************************************************)
THEOREM TypeCorrect == Spec => []TypeOK
  BY TypeInit, TypeNext, PTL DEF Spec

-----------------------------------------------------------------------------
(* Reservations. *)

\* Each step of a buyer keeps its mark or takes it away with its claim to it.
LEMMA NoOrphanNext ==
  ASSUME TypeIs, NoOrphanReservation, [Next]_vars
  PROVE  NoOrphanReservation'
<1> USE DEF NoOrphanReservation, Holds
<1>t. /\ buyer \in [Buyers -> BuyerType]
      /\ pendingMints \in SUBSET Mints
  BY DEF TypeIs, BuyersOK, TSTypeOK
<1>1. ASSUME NEW b \in Buyers, NEW m \in Mints, NEW bypass \in BOOLEAN,
             NEW size \in Amounts, Reserve(b, m, bypass, size)
      PROVE  NoOrphanReservation'
  BY <1>t, <1>1 DEF Reserve, TryReserve, At
<1>2. ASSUME NEW b \in Buyers, NEW pc \in Steps \ {"idle", "insert"},
             NEW passed, Check(b, passed, pc), buyer[b].pc # "insert",
             buyer[b].pc # "idle", pendingMints' = pendingMints
      PROVE  NoOrphanReservation'
  BY <1>t, <1>2 DEF Check, BuyerType
<1>3. ASSUME NEW b \in Buyers, Proceed(b) PROVE NoOrphanReservation'
  <2>1. CASE CheckOpenCount(b)
    BY <1>2, <2>1 DEF CheckOpenCount, At, Steps, tsVars
  <2>2. CASE CheckExposure(b)
    BY <1>2, <2>2 DEF CheckExposure, At, Steps, tsVars
  <2>3. CASE CheckDailyPnl(b)
    BY <1>2, <2>3 DEF CheckDailyPnl, At, Steps, ReadTodayPnl
  <2>4. CASE Abort(b) \/ InsertFails(b)
    BY <1>t, <2>4 DEF Abort, InsertFails, ReleaseReservation, Finish
  <2>5. CASE Buy(b)
    BY <1>t, <2>5 DEF Buy, RecordBuy, Goto, BuyerType
  <2>6. CASE \E id \in RowIds : InsertRow(b, id)
    BY <1>t, <2>6 DEF InsertRow, At, tsVars, Finish
  <2> QED
    BY <1>3, <2>1, <2>2, <2>3, <2>4, <2>5, <2>6 DEF Proceed
<1>4. ASSUME UNCHANGED <<pendingMints, buyer>> PROVE NoOrphanReservation'
  BY <1>4
<1>5. CASE Startup
  BY <1>4, <1>5 DEF Startup, Hydrate, HydrateRow, FinishHydration, HydratePnl
<1>6. CASE \E row \in Row, pnl \in Results, full \in BOOLEAN :
             ExitPosition(row, pnl, full)
  BY <1>4, <1>6 DEF ExitPosition, RecordExit
<1>7. CASE SweepRead \/ \E m \in Mints : SweepClose(m)
  BY <1>4, <1>7 DEF SweepRead, SweepClose, ForceClose, tsVars
<1>8. CASE Clock \/ NewDay
  BY <1>4, <1>8 DEF Clock, Tick, NewDay, Midnight, buyVars
<1>9. CASE UNCHANGED vars
  BY <1>4, <1>9 DEF vars, tsVars, buyVars
<1> QED
  BY <1>1, <1>3, <1>5, <1>6, <1>7, <1>8, <1>9 DEF Next

(***************************************************************************)
(* A mint is never locked out of trading: whatever fails, a pending mint   *)
(* has a buyer that holds it and will release it or record its buy         *)
(* (execution/state.rs:37-40 and 229-237).                                 *)
(***************************************************************************)
THEOREM NoOrphan == Spec => []NoOrphanReservation
<1>1. Init => NoOrphanReservation
  BY DEF Init, New, NoOrphanReservation
<1>2. TypeOK /\ NoOrphanReservation /\ [Next]_vars => NoOrphanReservation'
  BY NoOrphanNext, TypeParts
<1> QED
  BY <1>1, <1>2, TypeCorrect, PTL DEF Spec

(***************************************************************************)
(* What keeps the reservation exclusive: besides the reserving buyer       *)
(* nobody works on its mint, and the table has no row of that mint, so no  *)
(* exit can take the mint out of open_mints while its buyer inserts the    *)
(* row.  That is where the two assumptions are needed: the sweeper and a   *)
(* failed hydration both leave a row whose mint the state does not count   *)
(* as open.                                                                *)
(***************************************************************************)
ReservationInv ==
  /\ \A b \in Buyers : buyer[b].pc # "idle" => running
  /\ \A b, c \in Buyers :
       buyer[b].pc # "idle" /\ buyer[b].mint = buyer[c].mint => b = c
  /\ \A b \in Buyers, m \in Mints :
       Holds(b, m) => m \in pendingMints /\ m \notin openMints /\ ~HasRow(m)
  /\ \A b \in Buyers, m \in Mints :
       Inserting(b, m) => m \in openMints /\ ~HasRow(m)
  /\ \A r, s \in rows : r.mint = s.mint => r = s
  /\ \A row \in rows : row.mint \in openMints \/ row \in toHydrate
  /\ sweepList = {}

LEMMA ReservationInit ==
  ASSUME ~HydrationMayFail, Init
  PROVE  ReservationInv
<1>1. \A b \in Buyers : buyer[b] = Idle
  BY DEF Init
<1>2. \A r, s \in rows : r.mint = s.mint => r = s
  BY DEF Init
<1>3. \A row \in rows : row \in toHydrate
  BY DEF Init
<1>4. sweepList = {}
  BY DEF Init
<1> QED
  BY <1>1, <1>2, <1>3, <1>4
     DEF ReservationInv, Idle, Holds, Inserting

LEMMA ReservationNext ==
  ASSUME StaleTimeout = 0, TypeIs, ReservationInv, [Next]_vars
  PROVE  ReservationInv'
<1> USE DEF ReservationInv, Holds, Inserting, HasRow
<1>t. /\ buyer \in [Buyers -> BuyerType]
      /\ \A b \in Buyers : IF buyer[b].pc = "idle" THEN buyer[b] = Idle
                            ELSE buyer[b].mint \in Mints
      /\ running => toHydrate = {}
      /\ None \notin Mints
  BY BuyAssumption DEF TypeIs, BuyersOK, BuyerOK
<1>1. ASSUME NEW row \in Row, Hydrate(row) PROVE ReservationInv'
  <2>1. \A b \in Buyers : buyer[b].pc = "idle"
    BY <1>t, <1>1 DEF Hydrate
  <2> QED
    BY <1>1, <2>1 DEF Hydrate, HydrateRow
<1>2. ASSUME NEW pnl \in Results, FinishHydration(pnl) PROVE ReservationInv'
  BY <1>2 DEF FinishHydration, HydratePnl
<1>3. ASSUME NEW b \in Buyers, NEW m \in Mints, NEW bypass \in BOOLEAN,
             NEW size \in Amounts, Reserve(b, m, bypass, size)
      PROVE  ReservationInv'
  <2>1. \A c \in Buyers : buyer[c].mint # m
    BY <1>t, <1>3 DEF Reserve, TryReserve, Idle
  <2>2. ~HasRow(m)
    BY <1>t, <1>3 DEF Reserve, TryReserve, At
  <2> QED
    BY <1>t, <1>3, <2>1, <2>2 DEF Reserve, TryReserve, At, Idle
<1>4. ASSUME NEW b \in Buyers, NEW pc \in Steps \ {"idle", "insert"},
             NEW passed, Check(b, passed, pc), buyer[b].pc # "insert",
             buyer[b].pc # "idle",
             UNCHANGED <<pendingMints, openMints, rows, toHydrate, running,
                         sweepList>>
      PROVE  ReservationInv'
  BY <1>t, <1>4 DEF Check, BuyerType
<1>5. ASSUME NEW b \in Buyers, Abort(b) PROVE ReservationInv'
  BY <1>t, <1>5 DEF Abort, At, ReleaseReservation, Finish, Idle
<1>6. ASSUME NEW b \in Buyers, Buy(b) PROVE ReservationInv'
  BY <1>t, <1>6 DEF Buy, At, RecordBuy, Goto, BuyerType
<1>7. ASSUME NEW b \in Buyers, NEW id \in RowIds, InsertRow(b, id)
      PROVE  ReservationInv'
  <2> DEFINE new == [id |-> id, mint |-> buyer[b].mint, size |-> buyer[b].size]
  <2>1. rows' = rows \cup {new} /\ UNCHANGED <<openMints, pendingMints>>
    BY <1>7 DEF InsertRow, tsVars
  <2>2. new.mint \in openMints /\ \A row \in rows : row.mint # new.mint
    BY <1>t, <1>7 DEF InsertRow, At
  <2>3. buyer' = [buyer EXCEPT ![b] = Idle]
    BY <1>7 DEF InsertRow, Finish
  <2>4. \A c \in Buyers : c # b => buyer[c].mint # new.mint
    BY <1>t, <1>7 DEF InsertRow, At
  <2> HIDE DEF new
  <2> QED
    BY <1>t, <1>7, <2>1, <2>2, <2>3, <2>4 DEF InsertRow, At, Idle
<1>8. ASSUME NEW b \in Buyers, InsertFails(b) PROVE ReservationInv'
  BY <1>t, <1>8 DEF InsertFails, At, ReleaseReservation, Finish, Idle
<1>9. ASSUME NEW row \in Row, NEW pnl \in Results, NEW full \in BOOLEAN,
             ExitPosition(row, pnl, full)
      PROVE  ReservationInv'
  <2>1. CASE full
    BY <1>t, <1>9, <2>1 DEF ExitPosition, RecordExit
  <2>2. CASE ~full
    BY <1>9, <2>2 DEF ExitPosition, RecordExit
  <2> QED
    BY <2>1, <2>2
<1>10. CASE SweepRead
  BY <1>10 DEF SweepRead
<1>11. CASE \E m \in Mints : SweepClose(m)
  BY <1>11 DEF SweepClose
<1>12. ASSUME UNCHANGED <<pendingMints, openMints, rows, toHydrate, running,
                          sweepList, buyer>>
       PROVE  ReservationInv'
  BY <1>12
<1>13. CASE Clock \/ NewDay
  BY <1>12, <1>13 DEF Clock, Tick, NewDay, Midnight, buyVars
<1>14. CASE UNCHANGED vars
  BY <1>12, <1>14 DEF vars, tsVars, buyVars
<1>15. ASSUME NEW b \in Buyers, Proceed(b) PROVE ReservationInv'
  <2>1. CASE CheckOpenCount(b)
    BY <1>4, <2>1 DEF CheckOpenCount, At, Steps, tsVars
  <2>2. CASE CheckExposure(b)
    BY <1>4, <2>2 DEF CheckExposure, At, Steps, tsVars
  <2>3. CASE CheckDailyPnl(b)
    BY <1>4, <2>3 DEF CheckDailyPnl, At, Steps, ReadTodayPnl
  <2> QED
    BY <1>5, <1>6, <1>7, <1>8, <1>15, <2>1, <2>2, <2>3 DEF Proceed
<1> QED
  BY <1>1, <1>2, <1>3, <1>9, <1>10, <1>11, <1>13, <1>14, <1>15
     DEF Next, Startup

(***************************************************************************)
(* While the sweeper is off and no hydration has failed, two buys of one   *)
(* mint are never in flight together, nor one for an open mint             *)
(* (execution/state.rs:188-207).                                           *)
(***************************************************************************)
THEOREM Exclusive ==
  ASSUME StaleTimeout = 0, ~HydrationMayFail
  PROVE  Spec => []ReservationExclusive
<1>1. Init => ReservationInv
  BY ReservationInit
<1>2. TypeOK /\ ReservationInv /\ [Next]_vars => ReservationInv'
  BY ReservationNext, TypeParts
<1>3. ReservationInv => ReservationExclusive
  BY DEF ReservationInv, ReservationExclusive, Holds
<1> QED
  BY <1>1, <1>2, <1>3, TypeCorrect, PTL DEF Spec

-----------------------------------------------------------------------------
(* The cooldown. *)

\* A close that still counts is in the map of recent exits, no older there.
\* The maps age together, and pruning drops only what is past counting.
Remembered(m) ==
  sinceClosed[m] # None /\ sinceClosed[m] < Cooldown =>
    recentlyExited[m] # None /\ recentlyExited[m] <= sinceClosed[m]

CooldownInv == \A m \in Mints : Remembered(m)

AgesOK == /\ recentlyExited \in [Mints -> Ages \cup {None}]
          /\ sinceClosed \in [Mints -> Ages \cup {None}]

LEMMA OlderIsLater ==
  ASSUME NEW a \in Ages \cup {None}
  PROVE  /\ Older(a) = None <=> a = None
         /\ a # None => a <= Older(a) /\ Older(a) <= a + 1
         /\ a # None /\ a < AgeCap => Older(a) = a + 1
  BY TSAssumption DEF Older, Ages

LEMMA ClosedRemembered ==
  ASSUME AgesOK, CooldownInv, NEW n \in Mints,
         sinceClosed' = [sinceClosed EXCEPT ![n] = 0],
         \/ recentlyExited' = [recentlyExited EXCEPT ![n] = 0]
         \/ recentlyExited' = Pruned([recentlyExited EXCEPT ![n] = 0])
  PROVE  CooldownInv'
<1> SUFFICES ASSUME NEW m \in Mints PROVE Remembered(m)'
  BY DEF CooldownInv
<1>1. CASE m = n
  <2>1. sinceClosed'[m] = 0 /\ recentlyExited'[m] = 0
    BY <1>1, TSAssumption DEF AgesOK, Pruned
  <2> QED
    BY <2>1, TSAssumption DEF Remembered
<1>2. CASE m # n
  <2>1. sinceClosed'[m] = sinceClosed[m]
    BY <1>2 DEF AgesOK
  <2>2. sinceClosed[m] \in Ages \cup {None} /\ recentlyExited[m] \in Ages \cup {None}
    BY DEF AgesOK
  <2>3. recentlyExited[m] # None /\ recentlyExited[m] < 2 * Cooldown
          => recentlyExited'[m] = recentlyExited[m]
    BY <1>2 DEF AgesOK, Pruned
  <2>4. Remembered(m)
    BY DEF CooldownInv
  <2> QED
    BY <2>1, <2>2, <2>3, <2>4, TSAssumption DEF Remembered, Ages
<1> QED
  BY <1>1, <1>2

LEMMA CooldownClock ==
  ASSUME AgesOK, CooldownInv, Clock
  PROVE  CooldownInv'
<1> SUFFICES ASSUME NEW m \in Mints PROVE Remembered(m)'
  BY DEF CooldownInv
<1>1. /\ sinceClosed'[m] = Older(sinceClosed[m])
      /\ recentlyExited'[m] = Older(recentlyExited[m])
  BY DEF Clock, Tick
<1>2. sinceClosed[m] \in Ages \cup {None} /\ recentlyExited[m] \in Ages \cup {None}
  BY DEF AgesOK
<1>3. Remembered(m)
  BY DEF CooldownInv
<1>4. ASSUME sinceClosed'[m] # None, sinceClosed'[m] < Cooldown
      PROVE  recentlyExited'[m] # None /\ recentlyExited'[m] <= sinceClosed'[m]
  <2>1. sinceClosed[m] # None /\ sinceClosed[m] <= sinceClosed'[m]
    BY <1>1, <1>2, <1>4, OlderIsLater
  <2>2. sinceClosed[m] \in Nat /\ sinceClosed[m] < Cooldown
    BY <1>1, <1>2, <1>4, <2>1, OlderIsLater, TSAssumption DEF Ages, Older
  <2>3. recentlyExited[m] # None /\ recentlyExited[m] <= sinceClosed[m]
    BY <1>3, <2>1, <2>2 DEF Remembered
  <2>4. sinceClosed[m] < AgeCap
    BY <2>2, TSAssumption
  <2>5. sinceClosed'[m] = sinceClosed[m] + 1
    BY <1>1, <1>2, <2>1, <2>4, OlderIsLater
  <2>6. recentlyExited'[m] # None /\ recentlyExited'[m] <= recentlyExited[m] + 1
    BY <1>1, <1>2, <2>3, OlderIsLater
  <2>7. recentlyExited[m] \in Nat /\ recentlyExited'[m] \in Int
    BY <1>1, <1>2, <2>3, TSAssumption DEF Ages, Older
  <2> QED
    BY <2>2, <2>3, <2>5, <2>6, <2>7
<1> QED
  BY <1>4 DEF Remembered

LEMMA CooldownNext == TypeOK /\ CooldownInv /\ [Next]_vars => CooldownInv'
<1> SUFFICES ASSUME TypeOK, CooldownInv, [Next]_vars PROVE CooldownInv'
  OBVIOUS
<1>t. AgesOK
  BY DEF TypeOK, TSTypeOK, AgesOK
<1>u. ASSUME UNCHANGED <<sinceClosed, recentlyExited>> PROVE CooldownInv'
  BY <1>u DEF CooldownInv, Remembered
<1>1. CASE Startup
  BY <1>1, <1>u DEF Startup, Hydrate, HydrateRow, FinishHydration, HydratePnl
<1>2. CASE \E b \in Buyers, m \in Mints, bypass \in BOOLEAN, size \in Amounts :
             Reserve(b, m, bypass, size)
  BY <1>2, <1>u DEF Reserve, TryReserve
<1>3. ASSUME NEW b \in Buyers, Proceed(b) PROVE CooldownInv'
  <2>1. CASE CheckOpenCount(b) \/ CheckExposure(b) \/ CheckDailyPnl(b)
    BY <2>1, <1>u DEF CheckOpenCount, CheckExposure, CheckDailyPnl, ReadTodayPnl, tsVars
  <2>2. CASE Abort(b) \/ Buy(b) \/ InsertFails(b)
    BY <2>2, <1>u DEF Abort, Buy, InsertFails, ReleaseReservation, RecordBuy
  <2>3. CASE \E id \in RowIds : InsertRow(b, id)
    BY <2>3, <1>u DEF InsertRow, tsVars
  <2> QED
    BY <1>3, <2>1, <2>2, <2>3 DEF Proceed
<1>4. ASSUME NEW row \in Row, NEW pnl \in Results, NEW full \in BOOLEAN,
             ExitPosition(row, pnl, full)
      PROVE  CooldownInv'
  <2>1. CASE full
    BY <1>t, <1>4, <2>1, ClosedRemembered DEF ExitPosition, RecordExit, Row
  <2>2. CASE ~full
    BY <1>4, <2>2, <1>u DEF ExitPosition, RecordExit
  <2> QED
    BY <2>1, <2>2
<1>5. ASSUME NEW m \in Mints, SweepClose(m) PROVE CooldownInv'
  <2>1. CASE m \in openMints
    BY <1>t, <1>5, <2>1, ClosedRemembered DEF SweepClose, ForceClose
  <2>2. CASE m \notin openMints
    BY <1>5, <2>2, <1>u DEF SweepClose, ForceClose
  <2> QED
    BY <2>1, <2>2
<1>6. CASE Clock
  BY <1>t, <1>6, CooldownClock
<1>7. CASE SweepRead \/ NewDay \/ UNCHANGED vars
  BY <1>7, <1>u DEF SweepRead, NewDay, Midnight, buyVars, vars, tsVars
<1> QED
  BY <1>1, <1>2, <1>3, <1>4, <1>5, <1>6, <1>7 DEF Next

(***************************************************************************)
(* The cooldown of a closed mint is never cut short: whatever the sweeper, *)
(* the exits and the pruning of record_exit do, has_position_for_mint      *)
(* answers yes as long as the close still counts.                          *)
(***************************************************************************)
THEOREM CooldownHolds == Spec => []CooldownKept
<1>1. Init => CooldownInv
  BY DEF Init, CooldownInv, Remembered
<1>2. TypeOK /\ CooldownInv => CooldownKept
  <2> SUFFICES ASSUME TypeOK, CooldownInv, NEW m \in Mints,
                      sinceClosed[m] # None, sinceClosed[m] < Cooldown
               PROVE  HasPosition(m)
    BY DEF CooldownKept
  <2>1. recentlyExited[m] # None /\ recentlyExited[m] <= sinceClosed[m]
    BY DEF CooldownInv, Remembered
  <2>2. recentlyExited[m] \in Int /\ sinceClosed[m] \in Int
    BY <2>1 DEF TypeOK, TSTypeOK, Ages
  <2> QED
    BY <2>1, <2>2, TSAssumption DEF HasPosition, InCooldown
<1> QED
  BY <1>1, <1>2, CooldownNext, TypeCorrect, PTL DEF Spec

-----------------------------------------------------------------------------
(* The exposure. *)

Sizes == [row \in Row |-> row.size]
Spent == [b \in Buyers |-> InFlight(b)]

\* The sums of the property are sums over functions.
LEMMA RowsCost ==
  ASSUME NEW T \in SUBSET Row, IsFiniteSet(T)
  PROVE  MapThenSumSet(RowSize, T) = SumOver(Sizes, T)
<1> DEFINE F(f) == f = [s \in SUBSET T |->
                          IF s = {} THEN 0
                          ELSE RowSize(Pick(s)) + f[s \ {Pick(s)}]]
<1>1. MapThenSumSet(RowSize, T) = (CHOOSE f : F(f))[T]
  BY DEF MapThenSumSet, MapThenFoldSet, Pick
<1>2. ASSUME NEW f, NEW s \in SUBSET T
      PROVE  SumStep(f, Sizes, s) = IF s = {} THEN 0
                                    ELSE RowSize(Pick(s)) + f[s \ {Pick(s)}]
  BY PickIn DEF SumStep, Sizes, RowSize
<1>3. ASSUME NEW f PROVE F(f) <=> IsSum(f, Sizes, SUBSET T)
  BY <1>2 DEF IsSum
<1>4. \E f : F(f)
  BY <1>3, SumExists
<1>5. F(CHOOSE f : F(f))
  BY <1>4
<1> HIDE DEF F
<1>6. IsSum(CHOOSE f : F(f), Sizes, SUBSET T)
  BY <1>3, <1>5
<1> QED
  BY <1>1, <1>6, SumOverOf

LEMMA InFlightCosts == MapThenSumSet(InFlight, Buyers) = SumOver(Spent, Buyers)
<1>f. IsFiniteSet(Buyers)
  BY BuyAssumption
<1> DEFINE F(f) == f = [s \in SUBSET Buyers |->
                          IF s = {} THEN 0
                          ELSE InFlight(Pick(s)) + f[s \ {Pick(s)}]]
<1>1. MapThenSumSet(InFlight, Buyers) = (CHOOSE f : F(f))[Buyers]
  BY DEF MapThenSumSet, MapThenFoldSet, Pick
<1>2. ASSUME NEW f, NEW s \in SUBSET Buyers
      PROVE  SumStep(f, Spent, s) = IF s = {} THEN 0
                                    ELSE InFlight(Pick(s)) + f[s \ {Pick(s)}]
  BY PickIn DEF SumStep, Spent
<1>3. ASSUME NEW f PROVE F(f) <=> IsSum(f, Spent, SUBSET Buyers)
  BY <1>2 DEF IsSum
<1>4. \E f : F(f)
  BY <1>f, <1>3, SumExists
<1>5. F(CHOOSE f : F(f))
  BY <1>4
<1> HIDE DEF F
<1>6. IsSum(CHOOSE f : F(f), Spent, SUBSET Buyers)
  BY <1>3, <1>5
<1> QED
  BY <1>f, <1>1, <1>6, SumOverOf

(***************************************************************************)
(* While the startup query loads its rows the counter lacks those still to *)
(* load, no buyer is at work and nothing is lost.  Afterwards a buy moves  *)
(* its size from the buyer to the row or to what leaked, and an exit frees *)
(* what its own row cost, which the counter therefore still contains: it   *)
(* is never cut off at zero.  The sweeper would free the configured size   *)
(* instead, and a failed query leave rows that were never counted.         *)
(***************************************************************************)
Counted == SumOver(Sizes, rows) + SumOver(Spent, Buyers) + leaked

ExposureInv ==
  /\ IsFiniteSet(rows)
  /\ toHydrate \subseteq rows
  /\ sweepList = {}
  /\ \A b \in Buyers : buyer[b].pc # "idle" => running
  /\ exposure \in Nat
  /\ exposure + SumOver(Sizes, toHydrate) = Counted

LEMMA SizesAre == \A row \in Row : Sizes[row] = row.size /\ Sizes[row] \in Nat
  BY TSAssumption DEF Sizes, Row

LEMMA InFlightIs ==
  ASSUME NEW k \in BuyerType
  PROVE  (IF k.pc = "insert" THEN k.size ELSE 0) \in Nat
<1>1. k.size \in Amounts \cup {0}
  BY DEF BuyerType
<1>2. Amounts \cup {0} \subseteq Nat
  BY TSAssumption
<1>3. k.size \in Nat
  BY <1>1, <1>2
<1> QED
  BY <1>3

LEMMA SpentAre ==
  ASSUME BuyersOK
  PROVE  \A b \in Buyers : Spent[b] = InFlight(b) /\ Spent[b] \in Nat
<1>1. \A b \in Buyers : buyer[b] \in BuyerType
  BY DEF BuyersOK
<1> QED
  BY <1>1, InFlightIs DEF Spent, InFlight

LEMMA SpentNext ==
  ASSUME BuyersOK'
  PROVE  \A b \in Buyers : Spent'[b] = InFlight(b)' /\ Spent'[b] \in Nat
<1>1. \A b \in Buyers : buyer'[b] \in BuyerType
  BY DEF BuyersOK
<1> QED
  BY <1>1, InFlightIs DEF Spent, InFlight

\* The sums are natural numbers.
LEMMA SumsType ==
  ASSUME TypeIs, ExposureInv
  PROVE  /\ SumOver(Sizes, rows) \in Nat
         /\ SumOver(Sizes, toHydrate) \in Nat
         /\ SumOver(Spent, Buyers) \in Nat
<1>1. IsFiniteSet(toHydrate)
  BY FS_Subset DEF ExposureInv
<1>2. SumOver(Sizes, rows) \in Nat
  BY SizesAre, SumType DEF ExposureInv, TypeIs
<1>3. SumOver(Sizes, toHydrate) \in Nat
  BY <1>1, SizesAre, SumType DEF TypeIs
<1>4. SumOver(Spent, Buyers) \in Nat
  BY SpentAre, SumType, BuyAssumption DEF TypeIs
<1> QED
  BY <1>2, <1>3, <1>4

LEMMA ExposureInit ==
  ASSUME ~HydrationMayFail, Init
  PROVE  ExposureInv
<1>1. IsFiniteSet(rows)
  <2> DEFINE id == [row \in rows |-> row.id]
  <2>1. rows \subseteq Row /\ \A r, s \in rows : r.id = s.id => r = s
    BY DEF Init
  <2>2. id \in Injection(rows, RowIds)
    BY <2>1 DEF Row, Injection, IsInjective
  <2> QED
    BY <2>2, FS_Injection, BuyAssumption
<1>2. toHydrate = rows
  BY Zenon DEF Init
<1>3. \A b \in Buyers : buyer[b].pc = "idle"
  BY DEF Init, Idle
<1>4. SumOver(Spent, Buyers) = 0
  <2>1. \A b \in Buyers : Spent[b] = 0
    BY <1>3 DEF Spent, InFlight
  <2> QED
    BY <2>1, SumZero, BuyAssumption
<1>5. SumOver(Sizes, rows) \in Nat
  <2>1. rows \subseteq Row
    BY DEF Init
  <2> QED
    BY <1>1, <2>1, SizesAre, SumType
<1>6. exposure = 0 /\ leaked = 0 /\ sweepList = {}
  BY DEF Init, New
<1> QED
  BY <1>1, <1>2, <1>3, <1>4, <1>5, <1>6 DEF ExposureInv, Counted

\* A step that leaves the amounts alone.
LEMMA ExposureStill ==
  ASSUME TypeIs, ExposureInv, BuyersOK',
         UNCHANGED <<rows, toHydrate, sweepList, exposure, leaked>>,
         running => running',
         \A b \in Buyers : /\ InFlight(b)' = InFlight(b)
                           /\ buyer'[b].pc # "idle" => running'
  PROVE  ExposureInv'
<1>1. \A b \in Buyers : Spent[b] = Spent'[b]
  BY SpentAre, SpentNext DEF TypeIs
<1>2. SumOver(Spent, Buyers)' = SumOver(Spent, Buyers)
  BY <1>1, SumSame, BuyAssumption
<1>3. Counted' = Counted /\ SumOver(Sizes, toHydrate)' = SumOver(Sizes, toHydrate)
  BY <1>2 DEF Counted, Sizes
<1> QED
  BY <1>3 DEF ExposureInv

\* A step of one buyer, by what it does to what is being inserted.
LEMMA SpentBy ==
  ASSUME BuyersOK, BuyersOK', NEW b \in Buyers, NEW r,
         buyer' = [buyer EXCEPT ![b] = r]
  PROVE  SumOver(Spent, Buyers)' + InFlight(b) =
           SumOver(Spent, Buyers) + InFlight(b)'
<1>1. \A c \in Buyers : Spent[c] \in Nat /\ Spent'[c] \in Nat
  BY SpentAre, SpentNext
<1>2. \A c \in Buyers \ {b} : Spent[c] = Spent'[c]
  BY DEF BuyersOK, Spent, InFlight
<1>3. SumOver(Spent', Buyers) + Spent[b] = SumOver(Spent, Buyers) + Spent'[b]
  BY <1>1, <1>2, SumChanged, BuyAssumption
<1> QED
  BY <1>3 DEF Spent
LEMMA ExposureNext ==
  ASSUME StaleTimeout = 0, TypeIs, TypeIs', ExposureInv, [Next]_vars
  PROVE  ExposureInv'
<1> DEFINE all == SumOver(Sizes, rows)
           left == SumOver(Sizes, toHydrate)
           spent == SumOver(Spent, Buyers)
<1>t. /\ all \in Nat /\ left \in Nat /\ spent \in Nat /\ leaked \in Nat
      /\ BuyersOK /\ BuyersOK'
      /\ rows \subseteq Row /\ toHydrate \subseteq Row
      /\ running => toHydrate = {}
      /\ exposure # NaN
  BY SumsType, TSAssumption DEF TypeIs, ExposureInv
<1>i. /\ IsFiniteSet(rows) /\ toHydrate \subseteq rows /\ sweepList = {}
      /\ \A b \in Buyers : buyer[b].pc # "idle" => running
      /\ exposure \in Nat /\ exposure + left = all + spent + leaked
  BY DEF ExposureInv, Counted
<1> HIDE DEF all, left, spent
<1>1. ASSUME NEW row \in Row, Hydrate(row) PROVE ExposureInv'
  <2>1. IsFiniteSet(toHydrate)
    BY <1>i, FS_Subset
  <2>2. left = row.size + left' /\ row.size \in Nat
    <3>1. SumOver(Sizes, toHydrate) =
            Sizes[row] + SumOver(Sizes, toHydrate \ {row})
      BY <1>t, <1>1, <2>1, SizesAre, SumTakeOut DEF Hydrate
    <3> QED
      BY <1>1, <3>1, SizesAre DEF Hydrate, left, Sizes
  <2>3. left' \in Nat
    <3>1. IsFiniteSet(toHydrate \ {row})
      BY <2>1, FS_RemoveElement
    <3> QED
      BY <1>t, <1>1, <3>1, SizesAre, SumType DEF Hydrate, left, Sizes
  <2>4. exposure' = exposure + row.size
    BY <1>t, <1>1, <2>2, TSAssumption DEF Hydrate, HydrateRow, Plus
  <2>5. all' = all /\ spent' = spent /\ leaked' = leaked
    BY <1>1 DEF Hydrate, all, spent, Sizes, Spent, InFlight
  <2>6. exposure' \in Nat /\ exposure' + left' = all' + spent' + leaked'
    BY <1>t, <1>i, <2>2, <2>3, <2>4, <2>5
  <2> QED
    BY <1>1, <1>i, <2>6 DEF Hydrate, ExposureInv, Counted, all, left, spent
<1>2. ASSUME NEW pnl \in Results, FinishHydration(pnl) PROVE ExposureInv'
  BY <1>t, <1>2, ExposureStill DEF FinishHydration, HydratePnl, InFlight, ExposureInv
<1>3. ASSUME NEW b \in Buyers, NEW m \in Mints, NEW bypass \in BOOLEAN,
             NEW size \in Amounts, Reserve(b, m, bypass, size)
      PROVE  ExposureInv'
  <2>1. \A c \in Buyers : InFlight(c)' = InFlight(c)
    BY <1>t, <1>3 DEF Reserve, At, InFlight, BuyersOK
  <2> QED
    BY <1>t, <1>i, <1>3, <2>1, ExposureStill DEF Reserve, At, TryReserve
<1>4. ASSUME NEW b \in Buyers, NEW pc \in Steps \ {"idle", "insert"},
             NEW passed, At(b, buyer[b].pc), Check(b, passed, pc),
             buyer[b].pc # "insert",
             UNCHANGED <<rows, toHydrate, running, sweepList, exposure, leaked>>
      PROVE  ExposureInv'
  <2>1. \A c \in Buyers : InFlight(c)' = InFlight(c)
    BY <1>t, <1>4 DEF Check, InFlight, BuyersOK, BuyerType
  <2> QED
    BY <1>t, <1>i, <1>4, <2>1, ExposureStill DEF At
<1>5. ASSUME NEW b \in Buyers, Abort(b) PROVE ExposureInv'
  <2>1. \A c \in Buyers : InFlight(c)' = InFlight(c)
    BY <1>t, <1>5 DEF Abort, At, Finish, Idle, InFlight, BuyersOK
  <2> QED
    BY <1>t, <1>i, <1>5, <2>1, ExposureStill
       DEF Abort, At, ReleaseReservation
<1>6. ASSUME NEW b \in Buyers, Buy(b) PROVE ExposureInv'
  <2>1. buyer[b].size \in Nat
    BY <1>t, TSAssumption DEF BuyersOK, BuyerType
  <2>2. /\ buyer' = [buyer EXCEPT ![b] = [buyer[b] EXCEPT !.pc = "insert"]]
        /\ InFlight(b) = 0 /\ InFlight(b)' = buyer[b].size
    BY <1>t, <1>6 DEF Buy, At, Goto, InFlight, BuyersOK, BuyerType
  <2>3. spent' = spent + buyer[b].size
    <3>1. spent' + InFlight(b) = spent + InFlight(b)'
      BY <1>t, <2>2, SpentBy DEF spent
    <3>2. spent' \in Nat
      BY <1>t, SpentNext, SumType, BuyAssumption DEF spent
    <3> QED
      BY <1>t, <2>1, <2>2, <3>1, <3>2
  <2>4. exposure' = exposure + buyer[b].size
    BY <1>t, <1>6, <2>1, TSAssumption DEF Buy, RecordBuy, Plus
  <2>5. all' = all /\ left' = left /\ leaked' = leaked
    BY <1>6 DEF Buy, all, left, Sizes
  <2>6. exposure' \in Nat /\ exposure' + left' = all' + spent' + leaked'
    BY <1>t, <1>i, <2>1, <2>3, <2>4, <2>5
  <2> QED
    BY <1>6, <1>i, <2>6 DEF Buy, At, ExposureInv, Counted, all, left, spent
<1>7. ASSUME NEW b \in Buyers, Finish(b), buyer[b].pc = "insert"
      PROVE  spent = spent' + buyer[b].size /\ spent' \in Nat
             /\ buyer[b].size \in Nat
  <2>1. buyer[b].size \in Nat
    BY <1>t, TSAssumption DEF BuyersOK, BuyerType
  <2>2. /\ buyer' = [buyer EXCEPT ![b] = Idle]
        /\ InFlight(b) = buyer[b].size /\ InFlight(b)' = 0
    BY <1>t, <1>7 DEF Finish, Idle, InFlight, BuyersOK
  <2>3. spent' \in Nat
    BY <1>t, SpentNext, SumType, BuyAssumption DEF spent
  <2>4. spent' + InFlight(b) = spent + InFlight(b)'
    BY <1>t, <2>2, SpentBy DEF spent
  <2> QED
    BY <1>t, <2>1, <2>2, <2>3, <2>4
<1>8. ASSUME NEW b \in Buyers, NEW id \in RowIds, InsertRow(b, id)
      PROVE  ExposureInv'
  <2> DEFINE new == [id |-> id, mint |-> buyer[b].mint, size |-> buyer[b].size]
  <2>1. spent = spent' + buyer[b].size /\ spent' \in Nat
        /\ buyer[b].size \in Nat
    BY <1>7, <1>8 DEF InsertRow, At
  <2>2. new \in Row /\ new \notin rows /\ rows' = rows \cup {new}
    <3>1. buyer[b].mint \in Mints /\ buyer[b].size \in Amounts
      BY <1>t, <1>8 DEF InsertRow, At, BuyersOK, BuyerOK
    <3> QED
      BY <1>8, <3>1 DEF InsertRow, Row
  <2>3. all' = buyer[b].size + all
    <3>1. Sizes[new] = buyer[b].size
      BY <2>2, SizesAre
    <3>2. SumOver(Sizes, rows \cup {new}) = Sizes[new] + SumOver(Sizes, rows)
      BY <1>t, <1>i, <2>2, SizesAre, SumAdd
    <3> QED
      BY <2>2, <3>1, <3>2 DEF all, Sizes
  <2>4. exposure' = exposure /\ leaked' = leaked /\ left' = left
    BY <1>8 DEF InsertRow, tsVars, left, Sizes
  <2>5. exposure' \in Nat /\ exposure' + left' = all' + spent' + leaked'
    BY <1>t, <1>i, <2>1, <2>3, <2>4
  <2>6. IsFiniteSet(rows')
    BY <1>i, <2>2, FS_AddElement
  <2>7. \A c \in Buyers : buyer'[c].pc # "idle" => running'
    BY <1>8 DEF InsertRow, At
  <2> QED
    BY <1>8, <1>i, <2>2, <2>5, <2>6, <2>7
       DEF InsertRow, ExposureInv, Counted, all, left, spent
<1>9. ASSUME NEW b \in Buyers, InsertFails(b) PROVE ExposureInv'
  <2>1. spent = spent' + buyer[b].size /\ spent' \in Nat
        /\ buyer[b].size \in Nat
    BY <1>7, <1>9 DEF InsertFails, At
  <2>2. leaked' = leaked + buyer[b].size
    BY <1>9 DEF InsertFails
  <2>3. exposure' = exposure /\ all' = all /\ left' = left
    BY <1>9 DEF InsertFails, ReleaseReservation, all, left, Sizes
  <2>4. exposure' \in Nat /\ exposure' + left' = all' + spent' + leaked'
    BY <1>t, <1>i, <2>1, <2>2, <2>3
  <2>5. \A c \in Buyers : buyer'[c].pc # "idle" => running'
    BY <1>9 DEF InsertFails, At
  <2> QED
    BY <1>9, <1>i, <2>4, <2>5
       DEF InsertFails, ExposureInv, Counted, all, left, spent
<1>10. ASSUME NEW row \in Row, NEW pnl \in Results, NEW full \in BOOLEAN,
              ExitPosition(row, pnl, full)
       PROVE  ExposureInv'
  <2>1. CASE full
    <3>1. rows' = rows \ {row} /\ row \in rows /\ toHydrate = {}
      BY <1>t, <1>10, <2>1 DEF ExitPosition
    <3>2. all = row.size + all' /\ row.size \in Nat
      <4>1. SumOver(Sizes, rows) = Sizes[row] + SumOver(Sizes, rows \ {row})
        BY <1>t, <1>i, <3>1, SizesAre, SumTakeOut
      <4> QED
        BY <3>1, <4>1, SizesAre DEF all, Sizes
    <3>3. IsFiniteSet(rows')
      BY <1>i, <3>1, FS_RemoveElement
    <3>4. all' \in Nat
      BY <1>t, <3>1, <3>3, SizesAre, SumType DEF all, Sizes
    <3>5. left = 0
      BY <3>1, SumEmpty DEF left
    <3>6. exposure' = exposure - row.size
      <4>1. exposure >= row.size
        BY <1>t, <1>i, <3>2, <3>4, <3>5
      <4>2. exposure' = Released(exposure, row.size)
        BY <1>10, <2>1 DEF ExitPosition, RecordExit
      <4> QED
        BY <1>t, <1>i, <3>2, <4>1, <4>2, TSAssumption DEF Released, Sub
    <3>7. spent' = spent /\ leaked' = leaked /\ left' = left
      BY <1>10 DEF ExitPosition, spent, Spent, InFlight, left, Sizes
    <3>8. exposure' \in Nat /\ exposure' + left' = all' + spent' + leaked'
      BY <1>t, <1>i, <3>2, <3>4, <3>5, <3>6, <3>7
    <3> QED
      BY <1>10, <1>i, <3>1, <3>3, <3>8
         DEF ExitPosition, ExposureInv, Counted, all, left, spent
  <2>2. CASE ~full
    BY <1>t, <1>i, <1>10, <2>2, ExposureStill DEF ExitPosition, RecordExit, InFlight
  <2> QED
    BY <2>1, <2>2
<1>11. CASE SweepRead \/ \E m \in Mints : SweepClose(m)
  BY <1>i, <1>11 DEF SweepRead, SweepClose
<1>12. CASE Clock \/ NewDay \/ UNCHANGED vars
  BY <1>t, <1>i, <1>12, ExposureStill
     DEF Clock, Tick, NewDay, Midnight, buyVars, vars, tsVars, InFlight
<1>13. ASSUME NEW b \in Buyers, Proceed(b) PROVE ExposureInv'
  <2>1. CASE CheckOpenCount(b)
    BY <1>4, <2>1 DEF CheckOpenCount, At, Steps, tsVars
  <2>2. CASE CheckExposure(b)
    BY <1>4, <2>2 DEF CheckExposure, At, Steps, tsVars
  <2>3. CASE CheckDailyPnl(b)
    BY <1>4, <2>3 DEF CheckDailyPnl, At, Steps, ReadTodayPnl
  <2> QED
    BY <1>5, <1>6, <1>8, <1>9, <1>13, <2>1, <2>2, <2>3 DEF Proceed
<1> QED
  BY <1>1, <1>2, <1>3, <1>10, <1>11, <1>12, <1>13 DEF Next, Startup

(***************************************************************************)
(* While the sweeper is off and no hydration has failed, the exposure is   *)
(* what the open rows cost, with the buys whose row is being inserted or   *)
(* was lost (execution/state.rs:25), for any number of buyers and rows.    *)
(***************************************************************************)
THEOREM ExposureCounts ==
  ASSUME StaleTimeout = 0, ~HydrationMayFail
  PROVE  Spec => []ExposureIsSumOfOpen
<1>1. Init => ExposureInv
  BY ExposureInit
<1>2. TypeOK /\ TypeOK' /\ ExposureInv /\ [Next]_vars => ExposureInv'
  BY ExposureNext, TypeParts, TypePartsNext
<1>3. TypeOK /\ ExposureInv => ExposureIsSumOfOpen
  <2> SUFFICES ASSUME TypeIs, ExposureInv, running
               PROVE  exposure = MapThenSumSet(RowSize, rows)
                                   + MapThenSumSet(InFlight, Buyers) + leaked
    BY TypeParts DEF ExposureIsSumOfOpen
  <2>1. SumOver(Sizes, toHydrate) = 0
    BY SumEmpty DEF TypeIs
  <2>2. exposure + SumOver(Sizes, toHydrate) = SumOver(Sizes, rows)
                     + SumOver(Spent, Buyers) + leaked
    BY DEF ExposureInv, Counted
  <2>3. exposure \in Nat
    BY DEF ExposureInv
  <2>4. MapThenSumSet(RowSize, rows) = SumOver(Sizes, rows)
    BY RowsCost DEF TypeIs, ExposureInv
  <2> QED
    BY <2>1, <2>2, <2>3, <2>4, InFlightCosts
<1> QED
  BY <1>1, <1>2, <1>3, TypeCorrect, PTL DEF Spec

-----------------------------------------------------------------------------
(* The cap of open positions. *)

(***************************************************************************)
(* The property is not inductive: a buyer that has passed the check will   *)
(* still add its mint, and inherited mints hide from it what was bought    *)
(* beside them.  What keeps it counts the mints bought in this run, which  *)
(* are those with an age, and with them the buyers that passed the check.  *)
(***************************************************************************)
Bought == {m \in Mints : openSince[m] # None}

Admitted == {b \in Buyers : /\ buyer[b].pc \in {"exposure", "pnl", "trade"}
                            /\ buyer[b].ok}

SlackInv == Cardinality(Bought) + Cardinality(Admitted) <=
              MaxOpenPositions + Cardinality(Buyers) - 1

LEMMA Counts ==
  ASSUME TypeIs
  PROVE  /\ IsFiniteSet(Bought) /\ Cardinality(Bought) \in Nat
         /\ IsFiniteSet(Admitted) /\ Cardinality(Admitted) \in Nat
         /\ Cardinality(Admitted) <= Cardinality(Buyers)
         /\ Cardinality(Buyers) \in Nat
         /\ Cardinality(Bought) <= Cardinality(openMints)
         /\ Cardinality(openMints) \in Nat
         /\ ~Inherited => Bought = openMints
<1>1. Bought \subseteq openMints /\ openMints \subseteq Mints
  BY DEF TypeIs, TSTypeOK, Bought
<1>2. IsFiniteSet(openMints) /\ Cardinality(openMints) \in Nat
  BY <1>1, BuyAssumption, FS_Subset, FS_CardinalityType
<1>3. /\ IsFiniteSet(Bought) /\ Cardinality(Bought) \in Nat
      /\ Cardinality(Bought) <= Cardinality(openMints)
  BY <1>1, <1>2, FS_Subset, FS_CardinalityType
<1>4. Admitted \subseteq Buyers
  BY DEF Admitted
<1>5. /\ IsFiniteSet(Admitted) /\ Cardinality(Admitted) \in Nat
      /\ Cardinality(Admitted) <= Cardinality(Buyers)
      /\ Cardinality(Buyers) \in Nat
  BY <1>4, BuyAssumption, FS_Subset, FS_CardinalityType
<1>6. ~Inherited => Bought = openMints
  BY <1>1 DEF Inherited, Bought
<1> QED
  BY <1>2, <1>3, <1>5, <1>6

LEMMA CountsNext ==
  ASSUME TypeIs'
  PROVE  /\ Cardinality(Bought') \in Nat /\ Cardinality(Admitted') \in Nat
         /\ Cardinality(Admitted') <= Cardinality(Buyers)
<1>1. Bought' \subseteq Mints /\ Admitted' \subseteq Buyers
  BY DEF Bought, Admitted
<1> QED
  BY <1>1, BuyAssumption, FS_Subset, FS_CardinalityType

LEMMA SlackInit ==
  ASSUME Buyers # {}, Init
  PROVE  SlackInv
<1>1. Bought = {}
  BY DEF Init, New, Bought
<1>2. Admitted = {}
  BY DEF Init, Idle, Admitted
<1>3. Cardinality(Buyers) \in Nat /\ Cardinality(Buyers) # 0
  BY BuyAssumption, FS_CardinalityType, FS_EmptySet
<1>4. MaxOpenPositions \in Nat /\ Cardinality({}) = 0
  BY BuyAssumption, FS_EmptySet
<1> QED
  BY <1>1, <1>2, <1>3, <1>4 DEF SlackInv

\* A step after which there are no more of either.
LEMMA SlackLess ==
  ASSUME TypeIs, SlackInv, Bought' \subseteq Bought, Admitted' \subseteq Admitted
  PROVE  SlackInv'
<1>1. /\ Cardinality(Bought') <= Cardinality(Bought) /\ Cardinality(Bought') \in Nat
      /\ Cardinality(Admitted') <= Cardinality(Admitted)
      /\ Cardinality(Admitted') \in Nat
  BY Counts, FS_Subset, FS_CardinalityType
<1>2. MaxOpenPositions \in Nat
  BY BuyAssumption
<1> QED
  BY <1>1, <1>2, Counts DEF SlackInv

LEMMA SlackNext ==
  ASSUME TypeIs, TypeIs', SlackInv, [Next]_vars
  PROVE  SlackInv'
<1>t. /\ BuyersOK /\ openSince \in [Mints -> Ages \cup {None}]
      /\ MaxOpenPositions \in Nat
  BY BuyAssumption DEF TypeIs, TSTypeOK
<1>1. ASSUME NEW row \in Row, Hydrate(row) PROVE SlackInv'
  BY <1>1, SlackLess DEF Hydrate, HydrateRow, Bought, Admitted
<1>2. ASSUME NEW pnl \in Results, FinishHydration(pnl) PROVE SlackInv'
  BY <1>2, SlackLess DEF FinishHydration, HydratePnl, Bought, Admitted
<1>3. ASSUME NEW b \in Buyers, NEW m \in Mints, NEW bypass \in BOOLEAN,
             NEW size \in Amounts, Reserve(b, m, bypass, size)
      PROVE  SlackInv'
  BY <1>t, <1>3, SlackLess DEF Reserve, TryReserve, Bought, Admitted, BuyersOK
<1>4. ASSUME NEW b \in Buyers, CheckOpenCount(b) PROVE SlackInv'
  <2>1. Bought' = Bought
    BY <1>4 DEF CheckOpenCount, tsVars, Bought
  <2>2. CASE Cardinality(openMints) < MaxOpenPositions
    BY <1>t, <2>1, <2>2, Counts, CountsNext DEF SlackInv
  <2>3. CASE ~(Cardinality(openMints) < MaxOpenPositions)
    BY <1>t, <1>4, <2>1, <2>3, SlackLess
       DEF CheckOpenCount, Check, Admitted, BuyersOK, BuyerType
  <2> QED
    BY <2>2, <2>3
<1>5. ASSUME NEW b \in Buyers, CheckExposure(b) \/ CheckDailyPnl(b)
      PROVE  SlackInv'
  <2>1. Bought' = Bought
    BY <1>5 DEF CheckExposure, CheckDailyPnl, ReadTodayPnl, tsVars, Bought
  <2>2. Admitted' \subseteq Admitted
    BY <1>t, <1>5 DEF CheckExposure, CheckDailyPnl, At, Check, Admitted,
                      BuyersOK, BuyerType
  <2> QED
    BY <2>1, <2>2, SlackLess
<1>6. ASSUME NEW b \in Buyers, Abort(b) PROVE SlackInv'
  BY <1>t, <1>6, SlackLess
     DEF Abort, ReleaseReservation, Finish, Idle, Bought, Admitted, BuyersOK
<1>7. ASSUME NEW b \in Buyers, Buy(b) PROVE SlackInv'
  <2>1. Bought' \subseteq Bought \cup {buyer[b].mint}
    BY <1>t, <1>7 DEF Buy, RecordBuy, Bought
  <2>2. b \in Admitted /\ Admitted' \subseteq Admitted \ {b}
    BY <1>t, <1>7 DEF Buy, At, Goto, Admitted, BuyersOK, BuyerType
  <2>3. /\ IsFiniteSet(Bought \cup {buyer[b].mint})
        /\ Cardinality(Bought \cup {buyer[b].mint}) <= Cardinality(Bought) + 1
        /\ Cardinality(Bought \cup {buyer[b].mint}) \in Nat
    <3> DEFINE m == buyer[b].mint
    <3>1. IsFiniteSet(Bought) /\ Cardinality(Bought) \in Nat
      BY Counts
    <3> HIDE DEF m
    <3>2. /\ IsFiniteSet(Bought \cup {m})
          /\ Cardinality(Bought \cup {m}) = IF m \in Bought THEN Cardinality(Bought)
                                           ELSE Cardinality(Bought) + 1
      BY <3>1, FS_AddElement
    <3>3. Cardinality(Bought \cup {m}) <= Cardinality(Bought) + 1
          /\ Cardinality(Bought \cup {m}) \in Nat
      BY <3>1, <3>2
    <3> QED
      BY <3>2, <3>3 DEF m
  <2>4. /\ IsFiniteSet(Admitted \ {b})
        /\ Cardinality(Admitted \ {b}) = Cardinality(Admitted) - 1
    BY <2>2, Counts, FS_RemoveElement
  <2>5. Cardinality(Bought') \in Nat /\ Cardinality(Bought') <= Cardinality(Bought) + 1
    BY <2>1, <2>3, Counts, FS_Subset, FS_CardinalityType
  <2>6. /\ Cardinality(Admitted') \in Nat
        /\ Cardinality(Admitted') <= Cardinality(Admitted) - 1
    BY <2>2, <2>4, Counts, FS_Subset, FS_CardinalityType
  <2> QED
    BY <1>t, <2>5, <2>6, Counts DEF SlackInv
<1>8. ASSUME NEW b \in Buyers,
             InsertFails(b) \/ \E id \in RowIds : InsertRow(b, id)
      PROVE  SlackInv'
  <2>1. Finish(b) /\ openSince' = openSince
    BY <1>8 DEF InsertRow, InsertFails, ReleaseReservation, tsVars
  <2> QED
    BY <1>t, <2>1, SlackLess DEF Finish, Idle, Bought, Admitted, BuyersOK
<1>9. ASSUME NEW row \in Row, NEW pnl \in Results, NEW full \in BOOLEAN,
             ExitPosition(row, pnl, full)
      PROVE  SlackInv'
  BY <1>t, <1>9, SlackLess DEF ExitPosition, RecordExit, Bought, Admitted
<1>10. ASSUME NEW m \in Mints, SweepClose(m) PROVE SlackInv'
  BY <1>t, <1>10, SlackLess DEF SweepClose, ForceClose, Bought, Admitted
<1>11. CASE Clock
  BY <1>t, <1>11, SlackLess DEF Clock, Tick, Older, Bought, Admitted
<1>12. CASE SweepRead \/ NewDay \/ UNCHANGED vars
  BY <1>12, SlackLess
     DEF SweepRead, NewDay, Midnight, vars, buyVars, tsVars, Bought, Admitted
<1> QED
  BY <1>1, <1>2, <1>3, <1>4, <1>5, <1>6, <1>7, <1>8, <1>9, <1>10, <1>11, <1>12
     DEF Next, Startup, Proceed

(***************************************************************************)
(* Where somebody buys at all, the open positions of this run never pass   *)
(* the cap by more than the other buyers, for any cap and any number of    *)
(* buyers (execution/mod.rs:97, pre_execution_checks_cached).              *)
(***************************************************************************)
THEOREM SlackKept ==
  ASSUME Buyers # {}
  PROVE  Spec => []OpenWithinSlack
<1>1. Init => SlackInv
  BY SlackInit
<1>2. TypeOK /\ TypeOK' /\ SlackInv /\ [Next]_vars => SlackInv'
  BY SlackNext, TypeParts, TypePartsNext
<1>3. TypeOK /\ SlackInv => OpenWithinSlack
  <2> SUFFICES ASSUME TypeIs, SlackInv, ~Inherited
               PROVE  Cardinality(openMints) <=
                        MaxOpenPositions + Cardinality(Buyers) - 1
    BY TypeParts DEF OpenWithinSlack
  <2> QED
    BY Counts, BuyAssumption DEF SlackInv
<1> QED
  BY <1>1, <1>2, <1>3, TypeCorrect, PTL DEF Spec

-----------------------------------------------------------------------------
(* The buy path beside the watcher is the buy path. *)

QueueOK == TypeOK /\ queue \in Seq(Mints)

LEMMA StepIsBuyPathStep ==
  ASSUME QueueOK, [ReNext]_allVars
  PROVE  [Next]_vars /\ queue' \in Seq(Mints)
<1>t. rows \subseteq Row /\ queue \in Seq(Mints)
  BY DEF QueueOK, TypeOK
<1>1. CASE Others /\ UNCHANGED reVars
  BY <1>t, <1>1 DEF Others, Next, reVars
<1>2. ASSUME NEW row \in rows, NEW pnl \in Results, CloseRow(row, pnl)
      PROVE  [Next]_vars /\ queue' \in Seq(Mints)
  BY <1>t, <1>2 DEF CloseRow, Next
<1>3. CASE TimePasses
  BY <1>t, <1>3 DEF TimePasses, Next
<1>4. CASE Poll
  BY <1>t, <1>4 DEF Poll
<1>5. ASSUME NEW m \in Mints, NotDipped(m) \/ Dipped(m)
      PROVE  [Next]_vars /\ queue' \in Seq(Mints)
  BY <1>t, <1>5 DEF NotDipped, Dipped
<1>6. ASSUME NEW b \in Buyers, NEW size \in Amounts, TakeReentry(b, size)
      PROVE  [Next]_vars /\ queue' \in Seq(Mints)
  <2>1. Head(queue) \in Mints /\ queue' \in Seq(Mints)
    BY <1>t, <1>6 DEF TakeReentry
  <2>2. Reserve(b, Head(queue), TRUE, size) \/ UNCHANGED vars
    BY <1>6 DEF TakeReentry
  <2> QED
    BY <2>1, <2>2 DEF Next
<1>7. CASE UNCHANGED allVars
  BY <1>t, <1>7 DEF allVars, reVars
<1> QED
  BY <1>1, <1>2, <1>3, <1>4, <1>5, <1>6, <1>7 DEF ReNext

(***************************************************************************)
(* The watcher (reentry/mod.rs) reaches the trading state only through the *)
(* channel of the buyers: with it, the buy path still makes only the steps *)
(* of BuyPath, and every theorem about BuyPath holds of the two.           *)
(***************************************************************************)
THEOREM Implements == ReSpec => Spec
<1>1. ReInit => Init /\ QueueOK
  BY TypeInit DEF ReInit, QueueOK
<1>2. QueueOK /\ [ReNext]_allVars => [Next]_vars /\ QueueOK'
  BY StepIsBuyPathStep, TypeNext DEF QueueOK
<1> QED
  BY <1>1, <1>2, PTL DEF ReSpec, Spec

-----------------------------------------------------------------------------
(* The cap. *)

ClosedRows == [id : ClosedIds, mint : Mints, age : Nat]
Watches == [origin : ClosedIds, attempts : Nat, age : Nat]

\* What is watched is a closed row that was seen, and the attempts count at
\* least its re-entries.
Watched(m) ==
  /\ tracked[m] \in Watches
  /\ tracked[m].attempts <= MaxReentries
  /\ injected[tracked[m].origin] <= tracked[m].attempts
  /\ tracked[m].origin \in seen
  /\ \E row \in closed : row.id = tracked[m].origin /\ row.mint = m

CapInv ==
  /\ closed \subseteq ClosedRows
  /\ \A r, s \in closed : r.id = s.id => r = s
  /\ tracked \in [Mints -> Watches \cup {None}]
  /\ injected \in [ClosedIds -> Nat]
  /\ round \subseteq {m \in Mints : tracked[m] # None}
  /\ \A m \in Mints : tracked[m] # None => Watched(m)
  /\ \A id \in ClosedIds : id \notin seen => injected[id] = 0
  /\ CappedPerOrigin

LEMMA NoneIsNone == None \notin ClosedRows /\ None \notin Watches
  BY ReAssumption DEF ClosedRows, Watches

\* Only the rows found are watched afresh, from nothing.
LEMMA EnqueuedIs ==
  ASSUME CapInv, NEW rowsFound \in {Found, {}}, NEW now \in Enqueued(rowsFound),
         NEW m \in Mints
  PROVE  \/ now[m] = tracked[m]
         \/ \E row \in Found : row.mint = m /\ now[m] = Watch(row) /\ row \in rowsFound
<1>1. PICK last \in [Mints -> rowsFound \cup {None}] :
        /\ \A n \in Mints : last[n] \in Last(rowsFound, n)
        /\ now = [n \in Mints |-> IF last[n] = None THEN tracked[n] ELSE Watch(last[n])]
  BY DEF Enqueued
<1>2. CASE last[m] = None
  BY <1>1, <1>2
<1>3. CASE last[m] # None
  <2>1. last[m] \in rowsFound /\ last[m] \in Last(rowsFound, m)
    BY <1>1, <1>3
  <2>2. last[m].mint = m
    BY <1>3, <2>1 DEF Last
  <2>3. last[m] \in Found
    BY <2>1
  <2> QED
    BY <1>1, <1>3, <2>1, <2>2, <2>3
<1> QED
  BY <1>2, <1>3

LEMMA PollKeeps ==
  ASSUME CapInv, Poll
  PROVE  CapInv'
<1>0. PICK rowsFound \in {Found, {}} : \E now \in Enqueued(rowsFound) :
        LET live == {m \in Mints : now[m] # None /\ now[m].age <= WatchWindow}
        IN  /\ seen' = Seen(rowsFound)
            /\ tracked' = [m \in Mints |-> IF m \in live THEN now[m] ELSE None]
            /\ round' = live
  BY DEF Poll
<1>1. PICK now \in Enqueued(rowsFound) :
        LET live == {m \in Mints : now[m] # None /\ now[m].age <= WatchWindow}
        IN  /\ seen' = Seen(rowsFound)
            /\ tracked' = [m \in Mints |-> IF m \in live THEN now[m] ELSE None]
            /\ round' = live
  BY <1>0
<1>2. UNCHANGED <<closed, injected>>
  BY DEF Poll
<1>3. seen \subseteq seen' /\ \A row \in rowsFound : row.id \in seen'
  BY <1>1 DEF Seen
<1>4. ASSUME NEW m \in Mints, now[m] # None
      PROVE  /\ now[m] \in Watches
             /\ now[m].attempts <= MaxReentries
             /\ injected[now[m].origin] <= now[m].attempts
             /\ now[m].origin \in seen'
             /\ \E row \in closed : row.id = now[m].origin /\ row.mint = m
  <2>1. CASE now[m] = tracked[m]
    BY <1>3, <1>4, <2>1 DEF CapInv, Watched
  <2>2. ASSUME NEW row \in Found, row.mint = m, now[m] = Watch(row), row \in rowsFound
        PROVE  /\ now[m] \in Watches
               /\ now[m].attempts <= MaxReentries
               /\ injected[now[m].origin] <= now[m].attempts
               /\ now[m].origin \in seen'
               /\ \E r \in closed : r.id = now[m].origin /\ r.mint = m
    <3>1. row \in closed /\ row \in ClosedRows /\ row.id \notin seen
      BY <2>2 DEF Found, CapInv
    <3>2. row.id \in ClosedIds /\ row.age \in Nat
      BY <3>1 DEF ClosedRows
    <3>3. now[m].origin = row.id /\ now[m].attempts = 0 /\ now[m] \in Watches
      BY <2>2, <3>2 DEF Watch, Watches
    <3>4. injected[row.id] = 0
      BY <3>1, <3>2 DEF CapInv
    <3>5. row.id \in seen'
      BY <1>3, <2>2
    <3> QED
      BY <2>2, <3>1, <3>3, <3>4, <3>5, ReAssumption
  <2> QED
    BY <1>1, <2>1, <2>2, EnqueuedIs
<1>5. ASSUME NEW m \in Mints
      PROVE  /\ tracked'[m] \in {now[m], None}
             /\ m \in round' => tracked'[m] = now[m] /\ now[m] # None
  BY <1>1
<1>6. \A m \in Mints : tracked'[m] # None => Watched(m)'
  BY <1>2, <1>4, <1>5 DEF Watched
<1>7. tracked' \in [Mints -> Watches \cup {None}]
  BY <1>1, <1>4
<1>8. round' \subseteq {m \in Mints : tracked'[m] # None}
  <2>1. round' \subseteq Mints
    BY <1>1
  <2> QED
    BY <1>5, <2>1
<1>9. /\ closed' \subseteq ClosedRows
      /\ \A r, s \in closed' : r.id = s.id => r = s
      /\ injected' \in [ClosedIds -> Nat]
      /\ \A id \in ClosedIds : id \notin seen' => injected'[id] = 0
      /\ CappedPerOrigin'
  BY <1>2, <1>3 DEF CapInv, CappedPerOrigin
<1> QED
  BY <1>6, <1>7, <1>8, <1>9 DEF CapInv

LEMMA DippedKeeps ==
  ASSUME CapInv, NEW m \in Mints, Dipped(m)
  PROVE  CapInv'
<1> DEFINE o == tracked[m].origin
           n == tracked[m].attempts
<1>1. UNCHANGED <<closed, seen>> /\ round' \subseteq round /\ m \in round
  BY DEF Dipped
<1>2. tracked[m] # None /\ tracked[m] \in Watches /\ Watched(m)
  BY <1>1, NoneIsNone DEF CapInv, Watched
<1>3. o \in ClosedIds /\ n \in Nat /\ tracked[m].age \in Nat /\ MaxReentries \in Nat
  BY <1>2, ReAssumption DEF Watches
<1>4. tracked' = [tracked EXCEPT ![m].attempts = IF Capped(m) THEN @ ELSE @ + 1]
  BY DEF Dipped
<1> DEFINE new == [tracked[m] EXCEPT !.attempts = IF Capped(m) THEN n ELSE n + 1]
<1>5. tracked' = [tracked EXCEPT ![m] = new]
  BY <1>4 DEF CapInv
<1>6. /\ new \in Watches /\ new.origin = o
      /\ new.attempts = IF Capped(m) THEN n ELSE n + 1
  BY <1>2, <1>3 DEF Watches
<1>7. Capped(m) <=> n + 1 > MaxReentries
  BY DEF Capped
<1> HIDE DEF new, n, o
<1>8. n <= MaxReentries /\ injected[o] <= n /\ o \in seen
      /\ \E row \in closed : row.id = o /\ row.mint = m
  BY <1>2 DEF Watched, n, o
<1>9. injected' = injected
      \/ (~Capped(m) /\ injected' = [injected EXCEPT ![o] = @ + 1])
  BY DEF Dipped, o
<1>10. injected \in [ClosedIds -> Nat]
  BY DEF CapInv
<1>11. /\ injected' \in [ClosedIds -> Nat]
       /\ \A id \in ClosedIds \ {o} : injected'[id] = injected[id]
       /\ injected'[o] <= new.attempts /\ new.attempts <= MaxReentries
  <2>1. CASE injected' = injected
    BY <1>3, <1>6, <1>7, <1>8, <1>10, <2>1
  <2>2. CASE ~Capped(m) /\ injected' = [injected EXCEPT ![o] = @ + 1]
    BY <1>3, <1>6, <1>7, <1>8, <1>10, <2>2
  <2> QED
    BY <1>9, <2>1, <2>2
<1>12. tracked'[m] = new /\ \A k \in Mints \ {m} : tracked'[k] = tracked[k]
  BY <1>5 DEF CapInv
<1>13. ASSUME NEW k \in Mints, tracked'[k] # None PROVE Watched(k)'
  <2>1. CASE k = m
    BY <1>1, <1>6, <1>8, <1>11, <1>12, <2>1 DEF Watched
  <2>2. CASE k # m
    <3>1. tracked'[k] = tracked[k] /\ Watched(k)
      BY <1>12, <1>13, <2>2 DEF CapInv
    <3>2. tracked[k].origin # o
      BY <1>8, <2>2, <3>1 DEF Watched, CapInv
    <3>3. tracked[k].origin \in ClosedIds
      BY <3>1 DEF Watched, Watches
    <3> QED
      BY <1>1, <1>11, <3>1, <3>2, <3>3 DEF Watched
  <2> QED
    BY <2>1, <2>2
<1>14. tracked' \in [Mints -> Watches \cup {None}]
  BY <1>5, <1>6 DEF CapInv
<1>15. round' \subseteq {k \in Mints : tracked'[k] # None}
  BY <1>1, <1>6, <1>12, NoneIsNone DEF CapInv
<1>16. /\ \A id \in ClosedIds : id \notin seen' => injected'[id] = 0
       /\ CappedPerOrigin'
  <2>1. ASSUME NEW id \in ClosedIds
        PROVE  (id \notin seen' => injected'[id] = 0) /\ injected'[id] <= MaxReentries
    <3>1. CASE id = o
      BY <1>1, <1>3, <1>6, <1>8, <1>11, <3>1 DEF Watches
    <3>2. CASE id # o
      BY <1>1, <1>11, <3>2 DEF CapInv, CappedPerOrigin
    <3> QED
      BY <3>1, <3>2
  <2> QED
    BY <2>1 DEF CappedPerOrigin
<1> QED
  BY <1>1, <1>11, <1>13, <1>14, <1>15, <1>16 DEF CapInv

LEMMA AgedIs ==
  /\ \A row \in ClosedRows : /\ Aged(row) \in ClosedRows
                             /\ Aged(row).id = row.id /\ Aged(row).mint = row.mint
  /\ \A w \in Watches : /\ Aged(w) \in Watches
                        /\ Aged(w).origin = w.origin /\ Aged(w).attempts = w.attempts
<1>1. ASSUME NEW row \in ClosedRows
      PROVE  /\ Aged(row) \in ClosedRows
             /\ Aged(row).id = row.id /\ Aged(row).mint = row.mint
  BY DEF Aged, ClosedRows
<1>2. ASSUME NEW w \in Watches
      PROVE  /\ Aged(w) \in Watches
             /\ Aged(w).origin = w.origin /\ Aged(w).attempts = w.attempts
  BY DEF Aged, Watches
<1> QED
  BY <1>1, <1>2

LEMMA TimeKeeps ==
  ASSUME CapInv, TimePasses
  PROVE  CapInv'
<1>1. /\ closed' = {Aged(row) : row \in closed}
      /\ tracked' = [m \in Mints |-> IF tracked[m] = None THEN None ELSE Aged(tracked[m])]
      /\ UNCHANGED <<seen, round, injected>>
  BY DEF TimePasses
<1>2. closed \subseteq ClosedRows /\ tracked \in [Mints -> Watches \cup {None}]
  BY DEF CapInv
<1>3. ASSUME NEW m \in Mints, tracked[m] # None
      PROVE  /\ tracked'[m] \in Watches
             /\ tracked'[m].origin = tracked[m].origin
             /\ tracked'[m].attempts = tracked[m].attempts
  BY <1>1, <1>2, <1>3, AgedIs
<1>4. ASSUME NEW m \in Mints, tracked[m] = None PROVE tracked'[m] = None
  BY <1>1, <1>4
<1>5. closed' \subseteq ClosedRows
  BY <1>1, <1>2, AgedIs
<1>6. ASSUME NEW r \in closed', NEW s \in closed', r.id = s.id PROVE r = s
  <2>1. PICK r0 \in closed : r = Aged(r0)
    BY <1>1
  <2>2. PICK s0 \in closed : s = Aged(s0)
    BY <1>1
  <2>3. r0.id = s0.id
    BY <1>2, <1>6, <2>1, <2>2, AgedIs
  <2> QED
    BY <2>1, <2>2, <2>3 DEF CapInv
<1>7. ASSUME NEW m \in Mints, tracked'[m] # None PROVE Watched(m)'
  <2>1. tracked[m] # None /\ Watched(m)
    BY <1>4, <1>7 DEF CapInv
  <2>2. PICK row \in closed : row.id = tracked[m].origin /\ row.mint = m
    BY <2>1 DEF Watched
  <2>3. Aged(row) \in closed' /\ Aged(row).id = row.id /\ Aged(row).mint = row.mint
    BY <1>1, <1>2, AgedIs
  <2>4. \E r \in closed' : r.id = tracked'[m].origin /\ r.mint = m
    BY <1>3, <2>1, <2>2, <2>3
  <2> QED
    BY <1>1, <1>3, <2>1, <2>4 DEF Watched
<1>8. tracked' \in [Mints -> Watches \cup {None}]
  BY <1>1, <1>3
<1>9. round' \subseteq {m \in Mints : tracked'[m] # None}
  BY <1>1, <1>3, NoneIsNone DEF CapInv
<1> QED
  BY <1>1, <1>5, <1>6, <1>7, <1>8, <1>9 DEF CapInv, CappedPerOrigin

LEMMA CloseKeeps ==
  ASSUME CapInv, NEW row \in Row, NEW pnl, CloseRow(row, pnl)
  PROVE  CapInv'
<1>1. UNCHANGED <<seen, tracked, round, injected>>
  BY DEF CloseRow, watcherVars
<1>2. CASE closed' = closed
  BY <1>1, <1>2 DEF CapInv, Watched, CappedPerOrigin
<1>3. CASE \E id \in {i \in ClosedIds : \A c \in closed : c.id # i} :
             closed' = closed \cup {[id |-> id, mint |-> row.mint, age |-> 0]}
  <2>1. PICK id \in ClosedIds :
          /\ \A c \in closed : c.id # id
          /\ closed' = closed \cup {[id |-> id, mint |-> row.mint, age |-> 0]}
    BY <1>3
  <2>2. row.mint \in Mints
    BY DEF Row
  <2>3. closed' \subseteq ClosedRows /\ \A r, s \in closed' : r.id = s.id => r = s
    BY <2>1, <2>2 DEF CapInv, ClosedRows
  <2>4. closed \subseteq closed'
    BY <2>1
  <2>5. \A m \in Mints : tracked'[m] # None => Watched(m)'
    BY <1>1, <2>4 DEF CapInv, Watched
  <2> QED
    BY <1>1, <2>3, <2>5 DEF CapInv, CappedPerOrigin
<1> QED
  BY <1>2, <1>3 DEF CloseRow

LEMMA CapStep ==
  ASSUME TypeOK, CapInv, [ReNext]_allVars
  PROVE  CapInv'
<1>a. ASSUME UNCHANGED <<closed, seen, tracked, injected>>, round' \subseteq round
      PROVE  CapInv'
  BY <1>a DEF CapInv, Watched, CappedPerOrigin
<1>1. CASE Others /\ UNCHANGED reVars
  BY <1>1, <1>a DEF reVars
<1>2. ASSUME NEW row \in rows, NEW pnl \in Results, CloseRow(row, pnl) PROVE CapInv'
  BY <1>2, CloseKeeps DEF TypeOK
<1>3. ASSUME NEW m \in Mints, NotDipped(m) PROVE CapInv'
  BY <1>3, <1>a DEF NotDipped
<1>4. ASSUME NEW b \in Buyers, NEW size \in Amounts, TakeReentry(b, size) PROVE CapInv'
  BY <1>4, <1>a DEF TakeReentry, watcherVars
<1>5. CASE UNCHANGED allVars
  BY <1>5, <1>a DEF allVars, reVars
<1> QED
  BY <1>1, <1>2, <1>3, <1>4, <1>5, TimeKeeps, PollKeeps, DippedKeeps DEF ReNext

(***************************************************************************)
(* However often a closed row is polled, watched and evaluated             *)
(* (reentry/mod.rs), it leads to no more re-entries than                   *)
(* max_reentries_per_mint.                                                 *)
(***************************************************************************)
THEOREM CapHolds == ReSpec => []CappedPerOrigin
<1>1. ReInit => CapInv
  <2> SUFFICES ASSUME ReInit PROVE CapInv
    OBVIOUS
  <2>1. /\ closed = {} /\ round = {}
        /\ tracked = [m \in Mints |-> None]
        /\ injected = [id \in ClosedIds |-> 0]
    BY DEF ReInit
  <2>2. MaxReentries \in Nat
    BY ReAssumption
  <2> QED
    BY <2>1, <2>2 DEF CapInv, CappedPerOrigin
<1>2. TypeOK /\ CapInv /\ [ReNext]_allVars => CapInv'
  BY CapStep
<1>3. CapInv => CappedPerOrigin
  BY DEF CapInv
<1>4. ReSpec => []TypeOK
  BY Implements, TypeCorrect, PTL
<1> QED
  BY <1>1, <1>2, <1>3, <1>4, PTL DEF ReSpec
=============================================================================
