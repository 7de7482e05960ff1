------------------------ MODULE PositionLifeProofs ------------------------
(***************************************************************************)
(* The life of a position, for every number of positions, crashes, prices  *)
(* and services that fail.  First what bounds the patience of its monitor: *)
(* the pause of the trailing stop, the staged evaluation and the turns     *)
(* without a price, however the stream and the services behave.  Then who  *)
(* owns its tokens, and what becomes of them, through any number of        *)
(* crashes and every combination of faults.                                *)
(***************************************************************************)
EXTENDS MonitorTick, PriceFeed, Lifecycle, SumLemmas, TLAPS

LEMMA MinOfTwo ==
  ASSUME NEW a \in Nat, NEW b \in Nat
  PROVE  UpTo(a, b) = IF a <= b THEN a ELSE b
<1>1. PICK x \in {a, b} : \A y \in {a, b} : x =< y
  OBVIOUS
<1>2. Min({a, b}) \in {a, b} /\ \A y \in {a, b} : Min({a, b}) =< y
  BY <1>1 DEF Min
<1> QED
  BY <1>2 DEF UpTo

LEMMA MaxOfTwo ==
  ASSUME NEW a \in Nat, NEW b \in Nat
  PROVE  Max({a, b}) \in Nat /\ Max({a, b}) >= a /\ Max({a, b}) >= b
<1>1. PICK x \in {a, b} : \A y \in {a, b} : x >= y
  OBVIOUS
<1>2. Max({a, b}) \in {a, b} /\ \A y \in {a, b} : Max({a, b}) >= y
  BY <1>1 DEF Max
<1> QED
  BY <1>2

-----------------------------------------------------------------------------
(* The staged evaluation. *)

CtoStates == [state : {"none", "on", "over"}, stage : Nat, for : Nat]

\* A look that counts as overdue has passed a stage.
CtoInv ==
  /\ cto \in CtoStates
  /\ overdue \in Nat
  /\ IF cto.state = "on" THEN cto.stage < Len(Stages) /\ overdue <= cto.stage
                         ELSE overdue = 0

LEMMA StagesAre ==
  /\ Len(Stages) \in Nat \ {0}
  /\ LastStage \in Nat
  /\ \A n \in Nat : n < Len(Stages) =>
       Stages[n + 1] \in Nat /\ Stages[n + 1] <= LastStage
<1>1. Stages \in Seq(Nat) /\ Len(Stages) \in Nat \ {0}
  BY TickAssumption
<1>2. ASSUME NEW n \in Nat, n < Len(Stages)
      PROVE  n + 1 \in DOMAIN Stages
  BY <1>1, <1>2
<1> QED
  BY <1>1, <1>2, TickAssumption DEF LastStage

LEMMA DetectedIs ==
  ASSUME CtoInv, NEW c \in Detected
  PROVE  /\ c \in CtoStates
         /\ c.state = "on" => c.stage < Len(Stages) /\ overdue <= c.stage
         /\ c.state # "on" => overdue = 0
<1>1. CASE c = cto
  BY <1>1 DEF CtoInv
<1>2. CASE c # cto
  <2>1. cto.state = "none" /\ c = [NoCto EXCEPT !.state = "on"]
    BY <1>2 DEF Detected
  <2>2. c = [state |-> "on", stage |-> 0, for |-> 0]
    BY <2>1 DEF NoCto
  <2>3. overdue = 0 /\ overdue <= 0
    BY <2>1 DEF CtoInv
  <2>4. c.state = "on" /\ c.stage = 0 /\ c \in CtoStates
    BY <2>2 DEF CtoStates
  <2> QED
    BY <2>3, <2>4, StagesAre
<1> QED
  BY <1>1, <1>2

LEMMA GoesOnKeeps ==
  ASSUME CtoInv, NEW p \in Prices, GoesOn(p)
  PROVE  CtoInv'
<1>1. PICK c \in Detected : cto' = NextStage(c)
  BY DEF GoesOn
<1>2. /\ c \in CtoStates
      /\ c.state = "on" => c.stage < Len(Stages) /\ overdue <= c.stage
      /\ c.state # "on" => overdue = 0
  BY <1>1, DetectedIs
<1>3. overdue' = IF cto'.state = "on" /\ cto'.for >= LastStage
                   THEN overdue + 1 ELSE 0
  BY DEF GoesOn
<1>4. overdue \in Nat /\ c.stage \in Nat /\ c.for \in Nat
  BY <1>2 DEF CtoInv, CtoStates
<1>5. CASE StageDue(c)
  <2>1. /\ cto' = [c EXCEPT !.stage = @ + 1, !.state = IF LastOne(c) THEN "over" ELSE "on"]
        /\ c.state = "on"
    BY <1>1, <1>5 DEF NextStage, StageDue
  <2>2. /\ cto' \in CtoStates /\ cto'.stage = c.stage + 1 /\ cto'.for = c.for
        /\ cto'.state = IF LastOne(c) THEN "over" ELSE "on"
    <3> DEFINE state == IF LastOne(c) THEN "over" ELSE "on"
    <3>1. state \in {"none", "on", "over"}
      OBVIOUS
    <3>2. cto' = [c EXCEPT !.stage = @ + 1, !.state = state]
      BY <2>1
    <3> HIDE DEF state
    <3>3. cto' \in CtoStates /\ cto'.stage = c.stage + 1 /\ cto'.for = c.for /\ cto'.state = state
      <4>1. c = [state |-> c.state, stage |-> c.stage, for |-> c.for]
        BY <1>2 DEF CtoStates
      <4>2. cto' = [state |-> state, stage |-> c.stage + 1, for |-> c.for]
        BY <3>2, <4>1
      <4> QED
        BY <1>4, <3>1, <4>2 DEF CtoStates
    <3> QED
      BY <3>3 DEF state
  <2> QED
    BY <1>2, <1>3, <1>4, <2>1, <2>2, StagesAre DEF CtoInv, LastOne
<1>6. CASE ~StageDue(c)
  <2>1. cto' = c
    BY <1>1, <1>6 DEF NextStage
  <2>2. c.state = "on" => ~(c.for >= LastStage)
    BY <1>2, <1>4, <1>6, StagesAre DEF StageDue
  <2> QED
    BY <1>2, <1>3, <1>4, <2>1, <2>2 DEF CtoInv
<1> QED
  BY <1>5, <1>6

\* A loop that has ended makes no more turns, so what an end leaves behind is
\* of no concern; the count alone is.
EndedOrCto == overdue < Len(Stages) /\ (ended = None => CtoInv)

LEMMA CtoStep == EndedOrCto /\ [TickNext]_tickVars => EndedOrCto'
<1> SUFFICES ASSUME EndedOrCto, [TickNext]_tickVars PROVE EndedOrCto'
  OBVIOUS
<1>a. ASSUME UNCHANGED <<cto, overdue>>, ended = None \/ UNCHANGED ended
      PROVE  EndedOrCto'
  BY <1>a DEF EndedOrCto, CtoInv
<1>b. ASSUME ended' # None, UNCHANGED overdue PROVE EndedOrCto'
  BY <1>b DEF EndedOrCto
<1>1. CASE Pass
  <2>1. CtoInv /\ overdue' = overdue
    BY <1>1 DEF Pass, EndedOrCto
  <2>2. cto' = IF cto.state = "on" THEN [cto EXCEPT !.for = UpTo(LastStage, @ + 1)] ELSE cto
    BY <1>1 DEF Pass
  <2>3. cto \in CtoStates
    BY <2>1 DEF CtoInv
  <2>4. UpTo(LastStage, cto.for + 1) \in Nat
    BY <2>3, MinOfTwo, StagesAre DEF CtoStates
  <2>5. cto' \in CtoStates /\ cto'.state = cto.state /\ cto'.stage = cto.stage
    BY <2>2, <2>3, <2>4 DEF CtoStates
  <2> QED
    BY <2>1, <2>5 DEF EndedOrCto, CtoInv
<1>2. CASE TimeStop \/ NoPrice
  BY <1>2, <1>a DEF TimeStop, NoPrice
<1>3. ASSUME NEW p \in Prices, PostFillSanity(p) \/ DevDump(p) PROVE EndedOrCto'
  BY <1>3, <1>a DEF PostFillSanity, DevDump, Look
<1>4. ASSUME NEW p \in Prices, CtoEnds(p) PROVE EndedOrCto'
  <2>1. PICK verdict \in CtoVerdicts(cto') : Ends(verdict)
    BY <1>4 DEF CtoEnds
  <2>2. CtoInv /\ cto' \in Detected
    BY <1>4 DEF CtoEnds, Look, EndedOrCto
  <2>3. cto' \in CtoStates /\ overdue' = overdue
        /\ (cto'.state = "on" => cto'.stage < Len(Stages) /\ overdue <= cto'.stage)
        /\ (cto'.state # "on" => overdue = 0)
    BY <1>4, <2>2, DetectedIs DEF CtoEnds
  <2> QED
    BY <2>2, <2>3 DEF EndedOrCto, CtoInv
<1>5. ASSUME NEW p \in Prices, Decides(p) PROVE EndedOrCto'
  <2>1. CtoInv
    BY <1>5 DEF Decides, GoesOn, Look, EndedOrCto
  <2>2. CtoInv'
    BY <1>5, <2>1, GoesOnKeeps DEF Decides
  <2>3. CtoInv' => overdue' < Len(Stages)
    BY StagesAre DEF CtoInv, CtoStates
  <2> QED
    BY <2>2, <2>3 DEF EndedOrCto
<1>6. CASE UNCHANGED tickVars
  BY <1>6, <1>a DEF tickVars
<1> QED
  BY <1>1, <1>2, <1>3, <1>4, <1>5, <1>6 DEF TickNext

(***************************************************************************)
(* The staged evaluation after the developer sold out (monitoring/mod.rs   *)
(* 1166-1460) is over within as many looks at the price, counted from the  *)
(* time of its last checkpoint, as it has stages.                          *)
(***************************************************************************)
THEOREM CtoIsDecided == TickSpec => []CtoDecided
<1>1. TickInit => EndedOrCto
  BY StagesAre DEF TickInit, EndedOrCto, CtoInv, CtoStates, NoCto
<1>2. EndedOrCto => CtoDecided
  BY DEF EndedOrCto, CtoDecided
<1> QED
  BY <1>1, <1>2, CtoStep, PTL DEF TickSpec

-----------------------------------------------------------------------------
(* The dip machine. *)

DipStates == [mode : {"normal", "watch", "recovering"}, for : Nat, soft : 0 .. 2]

\* A verdict that does not suppress forgets the dip.
Verdict(v) ==
  /\ v.dip \in DipStates
  /\ v.action \in {"suppress", "exit", "normal"}
  /\ IF v.action = "suppress" THEN v.dip.mode # "normal" ELSE v.dip = NoDip

Moved(dp, mode, soft) == [mode |-> mode, for |-> dp.for, soft |-> soft]

LEMMA NoDipIs == NoDip \in DipStates /\ NoDip.mode = "normal"
  BY DEF NoDip, DipStates

LEMMA OverIs ==
  ASSUME NEW action \in {"exit", "normal"}
  PROVE  Verdict(Over(action)) /\ Over(action).action = action
  BY NoDipIs DEF Verdict, Over

LEMMA SuppressedIs ==
  ASSUME NEW dp \in DipStates, dp.mode # "normal"
  PROVE  /\ Verdict(Suppressed(dp))
         /\ Suppressed(dp).action = "suppress" /\ Suppressed(dp).dip = dp
  BY DEF Verdict, Suppressed

LEMMA MovedIs ==
  ASSUME NEW dp \in DipStates, NEW mode \in {"watch", "recovering"}, NEW soft \in 0 .. 2
  PROVE  /\ Moved(dp, mode, soft) \in DipStates
         /\ Moved(dp, mode, soft).mode = mode
         /\ Moved(dp, mode, soft).for = dp.for
         /\ Moved(dp, mode, soft).soft = soft
         /\ dp = Moved(dp, dp.mode, dp.soft)
  BY DEF Moved, DipStates

LEMMA SoftSignIs ==
  ASSUME NEW dp \in DipStates, dp.mode # "normal"
  PROVE  /\ Verdict(SoftSign(dp))
         /\ SoftSign(dp).action \in {"suppress", "exit"}
         /\ SoftSign(dp).action = "suppress" =>
              /\ SoftSign(dp).dip.mode = dp.mode
              /\ SoftSign(dp).dip.for = dp.for
              /\ SoftSign(dp).dip.soft = dp.soft + 1
<1>0. dp.soft \in 0 .. 2 /\ dp.mode \in {"watch", "recovering"}
  BY DEF DipStates
<1>1. CASE dp.soft >= 2
  BY <1>1, OverIs DEF SoftSign
<1>2. CASE ~(dp.soft >= 2)
  <2> DEFINE next == Moved(dp, dp.mode, dp.soft + 1)
  <2>1. [dp EXCEPT !.soft = @ + 1] = next
    BY DEF DipStates, Moved
  <2>2. next \in DipStates /\ next.mode = dp.mode /\ next.for = dp.for /\ next.soft = dp.soft + 1
    BY <1>0, <1>2, MovedIs
  <2>3. SoftSign(dp) = Suppressed(next)
    BY <1>2, <2>1 DEF SoftSign
  <2> HIDE DEF next
  <2> QED
    BY <1>0, <2>2, <2>3, SuppressedIs
<1> QED
  BY <1>1, <1>2

\* Past all patience a watched dip is counted on or begins to recover, and a
\* recovering one is counted on, is over, or is left alone no more.
Advances(dp, v) ==
  v.action = "suppress" =>
    /\ v.dip.for = dp.for
    /\ dp.mode = "watch" /\ v.dip.mode = "watch" => v.dip.soft >= dp.soft + 1
    /\ dp.mode = "recovering" =>
         v.dip.mode = "recovering" /\ v.dip.soft >= dp.soft + 1

Fits(dp, v) ==
  /\ Verdict(v)
  /\ v.action = "suppress" => v.dip.for = dp.for
  /\ Outlived(dp.for) => Advances(dp, v)

LEMMA WatchAdvances ==
  ASSUME NEW dp \in DipStates, dp.mode = "watch", NEW r \in Readings,
         NEW age, NEW inProfit \in BOOLEAN
  PROVE  Fits(dp, DipWatch(dp, r, age, inProfit))
<1> DEFINE dead    == r.silent /\ 2 * dp.for > Patience(NoTrades, age) /\ ~inProfit
           counted == IF dead THEN SoftSign(dp) ELSE Suppressed(dp)
           v == DipWatch(dp, r, age, inProfit)
           patience == Patience(Grace, age)
<1>0. dp.for \in Nat /\ dp.soft \in 0 .. 2 /\ Grace \in Nat
  BY TriggerAssumption DEF DipStates
<1>1. /\ Verdict(counted)
      /\ counted.action \in {"suppress", "exit"}
      /\ counted.action = "suppress" =>
           /\ counted.dip.mode = "watch" /\ counted.dip.for = dp.for
           /\ counted.dip.soft >= dp.soft
  BY <1>0, SoftSignIs, SuppressedIs
<1>2. patience \in Nat /\ patience <= 5 * Grace
  BY <1>0 DEF Patience
<1>3. v = IF r.kill \/ counted.action = "exit" THEN Over("exit")
          ELSE IF r.signals >= 2
            THEN Suppressed([dp EXCEPT !.mode = "recovering", !.soft = 0])
          ELSE IF 2 * dp.for >= patience THEN Expired(counted.dip, r, inProfit)
          ELSE counted
  BY DEF DipWatch
<1> SUFFICES Fits(dp, v)
  OBVIOUS
<1> HIDE DEF dead, counted, v, patience
<1>4. CASE v = Over("exit")
  BY <1>4, OverIs DEF Fits, Advances
<1>5. CASE v = Suppressed([dp EXCEPT !.mode = "recovering", !.soft = 0])
  <2>1. [dp EXCEPT !.mode = "recovering", !.soft = 0] = Moved(dp, "recovering", 0)
    <3>1. dp = [mode |-> dp.mode, for |-> dp.for, soft |-> dp.soft]
      BY DEF DipStates
    <3>2. PICK x : x = [dp EXCEPT !.mode = "recovering", !.soft = 0]
      OBVIOUS
    <3>3. x = [mode |-> "recovering", for |-> dp.for, soft |-> 0]
      BY <3>1, <3>2
    <3> QED
      BY <3>2, <3>3 DEF Moved
  <2> QED
    BY <1>5, <2>1, MovedIs, SuppressedIs DEF Fits, Advances
<1>6. CASE v = Expired(counted.dip, r, inProfit) /\ counted.action # "exit"
  <2> DEFINE c == counted.dip
  <2>1. /\ c \in DipStates /\ c.mode = "watch" /\ c.for = dp.for
        /\ c.soft >= dp.soft /\ c.soft \in 0 .. 2
    BY <1>1, <1>6 DEF Verdict, DipStates
  <2> HIDE DEF c
  <2>2. CASE v = Suppressed([c EXCEPT !.mode = "recovering"])
    <3>1. [c EXCEPT !.mode = "recovering"] = Moved(c, "recovering", c.soft)
      BY <2>1 DEF DipStates, Moved
    <3> QED
      BY <2>1, <2>2, <3>1, MovedIs, SuppressedIs DEF Fits, Advances
  <2>3. CASE v = SoftSign(c)
    BY <1>0, <2>1, <2>3, SoftSignIs DEF Fits, Advances
  <2>4. v \in {Suppressed([c EXCEPT !.mode = "recovering"]), SoftSign(c)}
    BY <1>6 DEF Expired, c
  <2> QED
    BY <2>2, <2>3, <2>4
<1>7. CASE v = counted /\ ~(2 * dp.for >= patience)
  <2>1. ~Outlived(dp.for)
    BY <1>0, <1>2, <1>7 DEF Outlived
  <2> QED
    BY <1>1, <1>7, <2>1 DEF Fits
<1> QED
  BY <1>3, <1>4, <1>5, <1>6, <1>7

LEMMA RecoveringAdvances ==
  ASSUME NEW dp \in DipStates, dp.mode = "recovering", NEW r \in Readings, NEW ps
  PROVE  Fits(dp, Recovering(dp, ps, r))
<1> DEFINE v == Recovering(dp, ps, r)
<1>0. dp.for \in Nat /\ Grace \in Nat \ {0}
  BY TriggerAssumption DEF DipStates
<1>1. \/ v \in {Over("normal"), Over("exit")}
      \/ v = SoftSign(dp)
      \/ v = Suppressed(dp) /\ dp.for < 2 * Grace
  BY DEF Recovering
<1> SUFFICES Fits(dp, v)
  OBVIOUS
<1> HIDE DEF v
<1>2. CASE v \in {Over("normal"), Over("exit")}
  BY <1>2, OverIs DEF Fits, Advances
<1>3. CASE v = SoftSign(dp)
  BY <1>0, <1>3, SoftSignIs DEF Fits, Advances, DipStates
<1>4. CASE v = Suppressed(dp) /\ dp.for < 2 * Grace
  <2>1. ~Outlived(dp.for)
    BY <1>0, <1>4 DEF Outlived
  <2> QED
    BY <1>4, <2>1, SuppressedIs DEF Fits
<1> QED
  BY <1>1, <1>2, <1>3, <1>4

\* A dip begins with nothing counted.
LEMMA DipAdvances ==
  ASSUME NEW dp \in DipStates, NEW r \in Readings, NEW ps, NEW v,
         v = EvaluateDip(dp, ps, r)
  PROVE  /\ Verdict(v)
         /\ v.action = "suppress" =>
              v.dip.for = IF dp.mode = "normal" THEN 0 ELSE dp.for
         /\ dp.mode # "normal" /\ Outlived(dp.for) => Advances(dp, v)
<1> DEFINE inProfit == 10 * ps.price > 11 * ps.entry
<1>1. CASE dp.mode = "normal"
  <2>1. v \in {Suppressed([NoDip EXCEPT !.mode = "watch"]), Over("normal")}
    BY <1>1 DEF EvaluateDip
  <2>2. [NoDip EXCEPT !.mode = "watch"] = Moved(NoDip, "watch", 0)
    BY DEF NoDip, Moved
  <2>3. NoDip.for = 0
    BY DEF NoDip
  <2>4. CASE v = Over("normal")
    BY <1>1, <2>4, OverIs
  <2>5. CASE v = Suppressed([NoDip EXCEPT !.mode = "watch"])
    BY <1>1, <2>2, <2>3, <2>5, NoDipIs, MovedIs, SuppressedIs
  <2> QED
    BY <2>1, <2>4, <2>5
<1>2. CASE dp.mode = "watch"
  <2>1. v = DipWatch(dp, r, ps.age, inProfit) /\ inProfit \in BOOLEAN
    BY <1>2 DEF EvaluateDip
  <2> HIDE DEF inProfit
  <2> QED
    BY <1>2, <2>1, WatchAdvances DEF Fits
<1>3. CASE dp.mode = "recovering"
  <2>1. v = Recovering(dp, ps, r)
    BY <1>3 DEF EvaluateDip
  <2> QED
    BY <1>3, <2>1, RecoveringAdvances DEF Fits
<1>4. dp.mode \in {"normal", "watch", "recovering"}
  BY DEF DipStates
<1> QED
  BY <1>1, <1>2, <1>3, <1>4

-----------------------------------------------------------------------------
(* The pause. *)

\* The dip is as old as the pause, and each look past all patience that
\* paused has counted a sign, or was the one look that began the recovery
\* after at most two.
PauseInv ==
  /\ dip \in DipStates
  /\ dipAge \in Nat /\ paused \in Nat
  /\ IF dip.mode = "normal" THEN dipAge = 0 /\ paused = 0 ELSE dip.for = dipAge
  /\ dip.mode = "watch" => paused <= dip.soft
  /\ dip.mode = "recovering" => paused <= 3 + dip.soft

LEMMA PauseInvBounds == PauseInv => PauseIsBounded
<1> SUFFICES ASSUME PauseInv PROVE paused <= 5
  BY DEF PauseIsBounded
<1>1. dip.mode \in {"normal", "watch", "recovering"} /\ dip.soft \in 0 .. 2
  BY DEF PauseInv, DipStates
<1> QED
  BY <1>1 DEF PauseInv

LEMMA SurvivesKeeps ==
  ASSUME PauseInv, NEW p \in Prices, NEW d \in Dips(p), Survives(p, d)
  PROVE  PauseInv'
<1>1. PICK r \in Readings : d = EvaluateDip(dip, State(p), r)
  BY DEF Dips
<1>2. /\ dip' = d.dip
      /\ dipAge' = IF d.action = "suppress" THEN dipAge ELSE 0
      /\ paused' = IF d.action = "suppress" /\ Outlived(dipAge) THEN paused + 1 ELSE 0
  BY DEF Survives
<1>3. /\ Verdict(d)
      /\ d.action = "suppress" =>
           d.dip.for = IF dip.mode = "normal" THEN 0 ELSE dip.for
      /\ dip.mode # "normal" /\ Outlived(dip.for) => Advances(dip, d)
  BY <1>1, DipAdvances DEF PauseInv
<1>4. dip \in DipStates /\ dipAge \in Nat /\ paused \in Nat
  BY DEF PauseInv
<1>5. dip.mode \in {"normal", "watch", "recovering"} /\ dip.soft \in 0 .. 2
  BY <1>4 DEF DipStates
<1>6. dip' \in DipStates /\ dip'.mode \in {"normal", "watch", "recovering"} /\ dip'.soft \in 0 .. 2
  BY <1>2, <1>3 DEF Verdict, DipStates
<1>7. CASE d.action # "suppress"
  <2>1. dip'.mode = "normal" /\ dipAge' = 0 /\ paused' = 0
    BY <1>2, <1>3, <1>7, NoDipIs DEF Verdict
  <2> QED
    BY <1>6, <2>1 DEF PauseInv
<1>8. CASE d.action = "suppress"
  <2>1. /\ dip'.mode # "normal" /\ dipAge' = dipAge
        /\ dip'.for = IF dip.mode = "normal" THEN 0 ELSE dip.for
    BY <1>2, <1>3, <1>8 DEF Verdict
  <2>2. dip'.for = dipAge'
    BY <2>1 DEF PauseInv
  <2>3. CASE ~Outlived(dipAge)
    <3>1. paused' = 0
      BY <1>2, <2>3
    <3> QED
      BY <1>4, <1>6, <2>1, <2>2, <3>1 DEF PauseInv
  <2>4. CASE Outlived(dipAge)
    <3>1. dip.mode # "normal"
      BY <2>4, TriggerAssumption DEF PauseInv, Outlived
    <3>2. Advances(dip, d)
      BY <1>3, <2>4, <3>1 DEF PauseInv
    <3>3. paused' = paused + 1
      BY <1>2, <1>8, <2>4
    <3>4. /\ dip.mode = "watch" /\ dip'.mode = "watch" => dip'.soft >= dip.soft + 1
          /\ dip.mode = "recovering" =>
               dip'.mode = "recovering" /\ dip'.soft >= dip.soft + 1
      BY <1>2, <1>8, <3>2 DEF Advances
    <3>5. /\ dip.mode = "watch" => paused <= dip.soft
          /\ dip.mode = "recovering" => paused <= 3 + dip.soft
      BY DEF PauseInv
    <3>6. /\ dip'.mode = "watch" => paused' <= dip'.soft
          /\ dip'.mode = "recovering" => paused' <= 3 + dip'.soft
      BY <1>4, <1>5, <1>6, <3>1, <3>3, <3>4, <3>5
    <3> QED
      BY <1>4, <1>6, <2>1, <2>2, <3>3, <3>6 DEF PauseInv
  <2> QED
    BY <2>3, <2>4
<1> QED
  BY <1>7, <1>8


LEMMA CapIs == DipCap \in Nat
<1>1. Max({Grace, NoTrades}) \in Nat
  BY MaxOfTwo, TriggerAssumption
<1> QED
  BY <1>1 DEF DipCap

LEMMA PassKeepsPause ==
  ASSUME PauseInv, Pass
  PROVE  PauseInv'
<1>1. /\ dip' = IF dip.mode = "normal" THEN dip
                ELSE [dip EXCEPT !.for = UpTo(DipCap, @ + 1)]
      /\ dipAge' = IF dip.mode = "normal" THEN 0 ELSE UpTo(DipCap, dipAge + 1)
      /\ paused' = paused
  BY DEF Pass
<1>2. CASE dip.mode = "normal"
  BY <1>1, <1>2 DEF PauseInv
<1>3. CASE dip.mode # "normal"
  <2> DEFINE for == UpTo(DipCap, dip.for + 1)
  <2>1. dip \in DipStates /\ dip.for \in Nat /\ dip.for = dipAge
    BY <1>3 DEF PauseInv, DipStates
  <2>2. for \in Nat
    BY <2>1, CapIs, MinOfTwo
  <2>3. dip' = [dip EXCEPT !.for = for] /\ dipAge' = for
    BY <1>1, <1>3, <2>1
  <2> HIDE DEF for
  <2>4. /\ dip' \in DipStates /\ dip'.for = for
        /\ dip'.mode = dip.mode /\ dip'.soft = dip.soft
    BY <2>1, <2>2, <2>3 DEF DipStates
  <2> QED
    BY <1>1, <1>3, <2>2, <2>3, <2>4 DEF PauseInv
<1> QED
  BY <1>2, <1>3

LEMMA PauseStep == PauseInv /\ [TickNext]_tickVars => PauseInv'
<1> SUFFICES ASSUME PauseInv, [TickNext]_tickVars PROVE PauseInv'
  OBVIOUS
<1>a. ASSUME UNCHANGED <<dip, dipAge, paused>> PROVE PauseInv'
  BY <1>a DEF PauseInv
<1>1. CASE Pass
  BY <1>1, PassKeepsPause
<1>2. CASE TimeStop \/ NoPrice
  BY <1>2, <1>a DEF TimeStop, NoPrice
<1>3. ASSUME NEW p \in Prices, PostFillSanity(p) \/ DevDump(p) \/ CtoEnds(p)
      PROVE  PauseInv'
  BY <1>3, <1>a DEF PostFillSanity, DevDump, CtoEnds
<1>4. ASSUME NEW p \in Prices, Decides(p) PROVE PauseInv'
  <2>1. PICK d \in Dips(p) : DipDeath(p, d) \/ Survives(p, d)
    BY <1>4 DEF Decides
  <2>2. CASE DipDeath(p, d)
    <3>1. PICK r \in Readings : d = EvaluateDip(dip, State(p), r)
      BY DEF Dips
    <3>2. Verdict(d) /\ d.action = "exit"
      BY <2>2, <3>1, DipAdvances DEF PauseInv, DipDeath
    <3>3. dip' = NoDip /\ dipAge' = 0 /\ paused' = 0
      BY <2>2, <3>2 DEF DipDeath, Verdict
    <3> QED
      BY <3>3, NoDipIs DEF PauseInv
  <2>3. CASE Survives(p, d)
    BY <2>3, SurvivesKeeps
  <2> QED
    BY <2>1, <2>2, <2>3
<1>5. CASE UNCHANGED tickVars
  BY <1>5, <1>a DEF tickVars
<1> QED
  BY <1>1, <1>2, <1>3, <1>4, <1>5 DEF TickNext

(***************************************************************************)
(* The dip machine (evaluate_dip, monitoring/tick_stream.rs) pauses the    *)
(* trailing stop for no more than five looks at the price past the longest *)
(* patience, whatever the prices and the tick window tell.                 *)
(***************************************************************************)
THEOREM PauseBounded == TickSpec => []PauseIsBounded
<1>1. TickInit => PauseInv
  BY NoDipIs DEF TickInit, PauseInv
<1> QED
  BY <1>1, PauseInvBounds, PauseStep, PTL DEF TickSpec

-----------------------------------------------------------------------------
(***************************************************************************)
(* A position without a price is given up in time.                         *)
(*                                                                         *)
(* The bound alone is not inductive.  While the last known price is alive  *)
(* it answers, and the silence is no longer than its age; once it has      *)
(* expired, every turn of silence is also a turn without a price.          *)
(***************************************************************************)

Knowns == {Unknown} \cup [price : Nat, age : Nat]

FeedTypes ==
  /\ known \in Knowns
  /\ cache \in {Unknown} \cup [price : Quotes, fresh : BOOLEAN]
  /\ misses \in Nat /\ blanks \in Nat /\ silent \in Nat

Alive(k) == LastKnown(k) > 0

SilenceInv ==
  /\ FeedTypes
  /\ SilenceEnds
  /\ monitor # "over" =>
       /\ blanks < MaxBlanks
       /\ IF Alive(known) THEN silent <= known.age ELSE silent < KnownFor + blanks

-----------------------------------------------------------------------------
(* What a look at the price yields, from a last known price that is not of *)
(* this turn: a price of now, the last known price, or none.               *)

Earlier(k) == k \in Knowns /\ (k = Unknown \/ k.age > 0 \/ k.price = 0)

Told(y) == y.price > 0 /\ y.known = Now(y.price)
Served(k, y) == Alive(k) /\ y.price = k.price /\ y.known = k
Blank(k, y) == y.price = 0 /\ (y.known = k \/ (~Alive(k) /\ y.known = Now(0)))

YieldOf(k, y) ==
  /\ y.price \in Nat /\ y.misses \in Nat
  /\ Told(y) \/ Served(k, y) \/ Blank(k, y)

LEMMA LastKnownIs ==
  ASSUME NEW k \in Knowns
  PROVE  /\ LastKnown(k) \in Nat
         /\ Alive(k) <=> k # Unknown /\ k.age < KnownFor /\ k.price > 0
         /\ Alive(k) => LastKnown(k) = k.price
         /\ ~Alive(k) => LastKnown(k) = 0
<1>1. CASE k = Unknown
  BY <1>1 DEF LastKnown, Alive
<1>2. CASE k # Unknown
  <2>1. k.price \in Nat /\ k.age \in Nat
    BY <1>2 DEF Knowns
  <2> QED
    BY <1>2, <2>1, FeedAssumption DEF LastKnown, Alive
<1> QED
  BY <1>1, <1>2

LEMMA NowIs ==
  ASSUME NEW p \in Nat
  PROVE  /\ Now(p) \in Knowns /\ Now(p) # Unknown
         /\ Now(p).price = p /\ Now(p).age = 0
         /\ Alive(Now(p)) <=> p > 0
<1>1. Now(p) \in [price : Nat, age : Nat] /\ Now(p).price = p /\ Now(p).age = 0
  BY DEF Now
<1>2. Now(p) \in Knowns /\ Now(p) # Unknown
  BY <1>1, FeedAssumption DEF Knowns
<1> QED
  BY <1>1, <1>2, LastKnownIs, FeedAssumption

LEMMA AcceptedYields ==
  ASSUME NEW k \in Knowns, NEW a \in Nat
  PROVE  YieldOf(k, Accepted(a, k))
<1> DEFINE last == LastKnown(k)
           valid == Validated(a, last)
<1>1. last \in Nat
  BY LastKnownIs
<1>2. valid \in {a, last} /\ (a = 0 => valid = last)
  BY <1>1 DEF Validated
<1>3. PICK y : /\ y = Accepted(a, k)
               /\ y.price = valid /\ y.misses = 0
               /\ y.known = IF valid = a THEN Now(a) ELSE k
  <2> DEFINE kept == IF valid = a THEN Now(a) ELSE k
             r == Yields(valid, kept, 0)
  <2>1. Accepted(a, k) = r
    BY DEF Accepted
  <2>2. r.price = valid /\ r.misses = 0 /\ r.known = kept
    BY DEF Yields
  <2> QED
    BY <2>1, <2>2
<1> HIDE DEF last, valid
<1> SUFFICES YieldOf(k, y)
  BY <1>3
<1>4. CASE valid = a /\ a > 0
  BY <1>3, <1>4 DEF YieldOf, Told
<1>5. CASE valid = a /\ a = 0
  <2>1. ~Alive(k)
    BY <1>2, <1>5 DEF last, Alive
  <2> QED
    BY <1>3, <1>5, <2>1 DEF YieldOf, Blank
<1>6. CASE valid # a /\ Alive(k)
  <2>1. valid = k.price
    BY <1>2, <1>6, LastKnownIs DEF last
  <2> QED
    BY <1>1, <1>2, <1>3, <1>6, <2>1 DEF YieldOf, Served
<1>7. CASE valid # a /\ ~Alive(k)
  <2>1. valid = 0
    BY <1>2, <1>7, LastKnownIs DEF last
  <2> QED
    BY <1>3, <1>7, <2>1 DEF YieldOf, Blank
<1>8. a = 0 \/ a > 0
  OBVIOUS
<1> QED
  BY <1>4, <1>5, <1>6, <1>7, <1>8

LEMMA FallbacksYield ==
  ASSUME NEW k \in Knowns, NEW n \in Nat, NEW y \in Fallbacks(k, n)
  PROVE  YieldOf(k, y)
<1>1. PICK a \in Answers :
        y = IF a # Unknown THEN Accepted(a, k)
            ELSE Yields(IF n + 1 >= MaxMisses THEN 0 ELSE LastKnown(k), k, n + 1)
  BY DEF Fallbacks
<1>2. CASE a # Unknown
  <2>1. a \in Nat
    <3>1. Quotes \subseteq Nat
      BY FeedAssumption
    <3> QED
      BY <1>2, <3>1 DEF Answers
  <2> QED
    BY <1>1, <1>2, <2>1, AcceptedYields
<1>3. CASE a = Unknown
  <2> DEFINE p == IF n + 1 >= MaxMisses THEN 0 ELSE LastKnown(k)
  <2>1. y.price = p /\ y.known = k /\ y.misses = n + 1
    BY <1>1, <1>3 DEF Yields
  <2>2. p = 0 \/ (Alive(k) /\ p = k.price)
    BY LastKnownIs
  <2>3. p \in Nat
    BY LastKnownIs
  <2> HIDE DEF p
  <2> QED
    BY <2>1, <2>2, <2>3 DEF YieldOf, Served, Blank
<1> QED
  BY <1>2, <1>3

LEMMA CachedYields ==
  ASSUME FeedTypes, cache # Unknown, NEW k \in Knowns
  PROVE  /\ cache.price > 0
         /\ YieldOf(k, Yields(cache.price, Now(cache.price), 0))
<1>1. cache.price \in Nat \ {0}
  BY FeedAssumption DEF FeedTypes
<1> QED
  BY <1>1 DEF Yields, YieldOf, Told

LEMMA GetPriceYields ==
  ASSUME FeedTypes, NEW k \in Knowns, NEW n \in Nat, NEW y \in GetPrice(k, n)
  PROVE  YieldOf(k, y)
<1>1. CASE cache # Unknown /\ cache.fresh
  BY <1>1, CachedYields DEF GetPrice
<1>2. CASE ~(cache # Unknown /\ cache.fresh)
  <2> DEFINE quotes == {Accepted(a, k) : a \in Answers \ {Unknown}}
  <2>1. y \in quotes \/ y \in Fallbacks(k, 0) \/ y \in Fallbacks(k, n)
    BY <1>2 DEF GetPrice
  <2>2. ASSUME y \in quotes PROVE YieldOf(k, y)
    <3>1. PICK a \in Answers \ {Unknown} : y = Accepted(a, k)
      BY <2>2
    <3>2. a \in Nat
      BY FeedAssumption DEF Answers
    <3> QED
      BY <3>1, <3>2, AcceptedYields
  <2> QED
    BY <2>1, <2>2, FallbacksYield
<1> QED
  BY <1>1, <1>2

\* A second look follows one that found no price; it starts from what the
\* first one left.
LEMMA LooksYield ==
  ASSUME FeedTypes, NEW k \in Knowns, NEW n \in Nat, NEW y \in Looks(k, n)
  PROVE  YieldOf(k, y)
<1> DEFINE first == IF cache = Unknown /\ turns' % Refresh = 0 THEN GetPrice(k, n)
                    ELSE {GetMonitoringPrice(k, n)}
<1>1. ASSUME NEW z \in first PROVE YieldOf(k, z)
  <2>1. CASE z \in GetPrice(k, n)
    BY <2>1, GetPriceYields
  <2>2. CASE z = GetMonitoringPrice(k, n) /\ cache # Unknown
    BY <2>2, CachedYields DEF GetMonitoringPrice
  <2>3. CASE z = GetMonitoringPrice(k, n) /\ cache = Unknown
    <3>1. z = Yields(LastKnown(k), k, n)
      BY <2>3 DEF GetMonitoringPrice
    <3>2. z.price = LastKnown(k) /\ z.known = k /\ z.misses = n
      BY <3>1 DEF Yields
    <3> QED
      BY <3>2, LastKnownIs DEF YieldOf, Served, Blank
  <2> QED
    BY <1>1, <2>1, <2>2, <2>3
<1>2. CASE y \in first
  BY <1>1, <1>2
<1>3. CASE \E z \in first : z.price = 0 /\ y \in GetPrice(z.known, z.misses)
  <2>1. PICK z \in first : z.price = 0 /\ y \in GetPrice(z.known, z.misses)
    BY <1>3
  <2>2. YieldOf(k, z)
    BY <1>1
  <2>3. z.misses \in Nat /\ (z.known = k \/ (~Alive(k) /\ z.known = Now(0)))
    <3>1. ~Told(z) /\ ~Served(k, z)
      BY <2>1, LastKnownIs DEF Told, Served
    <3> QED
      BY <2>2, <3>1 DEF YieldOf, Blank
  <2>4. CASE z.known = k
    BY <2>1, <2>3, <2>4, GetPriceYields
  <2>5. CASE ~Alive(k) /\ z.known = Now(0)
    <3>1. YieldOf(Now(0), y)
      BY <2>1, <2>3, <2>5, NowIs, GetPriceYields
    <3>2. ~Alive(Now(0))
      BY NowIs
    <3> QED
      BY <2>5, <3>1, <3>2 DEF YieldOf, Served, Blank
  <2> QED
    BY <2>3, <2>4, <2>5
<1>4. y \in first \/ \E z \in first : z.price = 0 /\ y \in GetPrice(z.known, z.misses)
  BY DEF Looks
<1> QED
  BY <1>2, <1>3, <1>4

-----------------------------------------------------------------------------
(* A turn of the monitor. *)

LEMMA OlderIs ==
  ASSUME NEW k \in Knowns
  PROVE  /\ Older(k) \in Knowns /\ Earlier(Older(k))
         /\ Alive(Older(k)) => Alive(k) /\ Older(k).age = k.age + 1
         /\ Alive(k) => k.age < KnownFor
         /\ Alive(k) => Older(k) # Unknown /\ Older(k).age = k.age + 1
<1>1. CASE k = Unknown
  BY <1>1, LastKnownIs DEF Older, Earlier
<1>2. CASE k # Unknown /\ k.age >= KnownFor
  <2>1. k.age \in Nat
    BY <1>2 DEF Knowns
  <2> QED
    BY <1>2, <2>1, LastKnownIs, FeedAssumption DEF Older, Earlier
<1>3. CASE k # Unknown /\ ~(k.age >= KnownFor)
  <2> DEFINE older == [k EXCEPT !.age = @ + 1]
  <2>1. k \in [price : Nat, age : Nat]
    BY <1>3 DEF Knowns
  <2>2. older \in [price : Nat, age : Nat] /\ older.age = k.age + 1 /\ older.price = k.price
    BY <2>1
  <2>3. Older(k) = older
    BY <1>3 DEF Older
  <2>4. older \in Knowns /\ older # Unknown
    BY <2>2, FeedAssumption DEF Knowns
  <2>5. k.age \in Nat /\ k.price \in Nat
    BY <2>1
  <2> HIDE DEF older
  <2> QED
    BY <1>3, <2>2, <2>3, <2>4, <2>5, LastKnownIs, FeedAssumption DEF Earlier
<1> QED
  BY <1>1, <1>2, <1>3

LEMMA Longer ==
  ASSUME NEW n \in Nat, NEW age \in Nat, NEW most \in Nat, n <= age,
         age + 1 < most
  PROVE  n + 1 <= age + 1 /\ n + 1 < most
  OBVIOUS

LEMMA TurnKeeps ==
  ASSUME SilenceInv, Turn
  PROVE  SilenceInv'
<1> DEFINE k == Older(known)
<1>0. FeedTypes /\ known \in Knowns /\ misses \in Nat
  BY DEF SilenceInv, FeedTypes
<1>1. PICK y \in Looks(k, misses) :
        /\ blanks' = IF y.price = 0 THEN blanks + 1 ELSE 0
        /\ silent' = IF y.price > 0 /\ y.known.age = 0 THEN 0 ELSE silent + 1
        /\ \/ /\ blanks' < MaxBlanks
              /\ known' = y.known /\ misses' = y.misses
              /\ UNCHANGED <<monitor, commands>>
           \/ /\ blanks' >= MaxBlanks
              /\ Closes(0)
  BY DEF Turn
<1>2. k \in Knowns /\ YieldOf(k, y)
  BY <1>0, <1>1, OlderIs, LooksYield
<1>3. cache' \in {Unknown} \cup [price : Quotes, fresh : BOOLEAN]
  <2>1. cache' = IF cache = Unknown THEN Unknown ELSE [cache EXCEPT !.fresh = FALSE]
    BY DEF Turn
  <2>2. cache # Unknown => cache \in [price : Quotes, fresh : BOOLEAN]
    BY <1>0 DEF FeedTypes
  <2> QED
    BY <2>1, <2>2
<1>4. /\ silent \in Nat /\ blanks \in Nat /\ blanks < MaxBlanks /\ monitor = "on"
      /\ IF Alive(known) THEN silent <= known.age ELSE silent < KnownFor + blanks
  BY DEF SilenceInv, FeedTypes, Turn
<1>5. y.known \in Knowns /\ y.misses \in Nat /\ y.price \in Nat
  BY <1>2, NowIs DEF YieldOf, Told, Served, Blank
<1>6. silent' \in Nat /\ blanks' \in Nat
  BY <1>1, <1>4
<1>7. /\ Alive(y.known) => silent' <= y.known.age
      /\ silent' < KnownFor + blanks'
  <2>a. KnownFor \in Nat \ {0} /\ (known # Unknown => known.age \in Nat)
    BY <1>0, FeedAssumption DEF Knowns
  <2>1. CASE Told(y)
    <3>1. y.known.age = 0 /\ Alive(y.known)
      BY <1>5, <2>1, NowIs DEF Told
    <3>2. silent' = 0
      BY <1>1, <2>1, <3>1 DEF Told
    <3> QED
      BY <1>1, <1>4, <1>6, <2>a, <3>1, <3>2
  <2>2. CASE Served(k, y)
    <3>1. /\ y.known = k /\ Alive(k) /\ k.age = known.age + 1 /\ Alive(known)
          /\ known.age < KnownFor /\ known # Unknown
      BY <1>0, <2>2, OlderIs, LastKnownIs DEF Served
    <3>2. silent' = silent + 1
      BY <1>1, <1>4, <2>a, <3>1
    <3>3. k.age < KnownFor
      BY <1>2, <3>1, LastKnownIs
    <3>4. known.age \in Nat /\ silent <= known.age
      BY <1>4, <2>a, <3>1
    <3>5. y.known.age = known.age + 1
      BY <3>1
    <3>6. known.age + 1 < KnownFor
      BY <3>1, <3>3
    <3>7. silent + 1 <= known.age + 1 /\ silent + 1 < KnownFor
      BY <1>4, <2>a, <3>4, <3>6, Longer
    <3>8. silent' < KnownFor + blanks'
      BY <1>6, <2>a, <3>2, <3>7
    <3> QED
      BY <3>2, <3>5, <3>7, <3>8
  <2>3. CASE Blank(k, y)
    <3>1. silent' = silent + 1 /\ blanks' = blanks + 1
      BY <1>1, <2>3 DEF Blank
    <3>2. CASE Alive(known)
      <4>1. known.age < KnownFor /\ known # Unknown /\ k.age = known.age + 1
        BY <1>0, <3>2, OlderIs, LastKnownIs
      <4>2. Alive(y.known) => y.known = k
        BY <2>3, NowIs DEF Blank
      <4> QED
        BY <1>4, <1>6, <2>a, <3>1, <3>2, <4>1, <4>2
    <3>3. CASE ~Alive(known)
      <4>1. ~Alive(y.known)
        BY <1>0, <2>3, <3>3, OlderIs, NowIs DEF Blank
      <4> QED
        BY <1>4, <1>6, <2>a, <3>1, <3>3, <4>1
    <3> QED
      BY <3>2, <3>3
  <2> QED
    BY <1>2, <2>1, <2>2, <2>3 DEF YieldOf
<1>8. CASE blanks' < MaxBlanks /\ known' = y.known /\ misses' = y.misses
  <2>1. Alive(known)' <=> Alive(y.known)
    BY <1>8 DEF Alive, LastKnown
  <2>2. silent' < KnownFor + MaxBlanks
    BY <1>4, <1>6, <1>7, <1>8, FeedAssumption
  <2> QED
    BY <1>3, <1>5, <1>6, <1>7, <1>8, <2>1, <2>2 DEF SilenceInv, FeedTypes, SilenceEnds
<1>9. CASE blanks' >= MaxBlanks /\ Closes(0)
  <2>1. known' = Unknown /\ misses' = 0 /\ monitor' = "over"
    BY <1>9 DEF Closes
  <2>2. blanks' <= MaxBlanks
    BY <1>1, <1>4, FeedAssumption
  <2>3. silent' < KnownFor + MaxBlanks
    BY <1>4, <1>6, <1>7, <1>9, <2>2, FeedAssumption
  <2> QED
    BY <1>3, <1>6, <2>1, <2>3 DEF SilenceInv, FeedTypes, SilenceEnds, Knowns
<1> QED
  BY <1>1, <1>8, <1>9

-----------------------------------------------------------------------------
(* The stream changes the cache and nothing else the bound is about. *)

Others == <<known, misses, monitor, blanks, silent>>
Cached == {Unknown} \cup [price : Quotes, fresh : BOOLEAN]

LEMMA StreamStep ==
  ASSUME FeedTypes,
         \/ \E to \in Quotes \cup {Complete} : Change(to)
         \/ Connect \/ GrpcConnect \/ Disconnect \/ GrpcDisconnect
         \/ Command \/ GrpcCommand
         \/ \E solPriced \in BOOLEAN : Deliver(solPriced) \/ GrpcDeliver(solPriced)
         \/ UNCHANGED feedVars
  PROVE  UNCHANGED Others /\ cache' \in Cached
<1>0. cache \in Cached
  BY DEF FeedTypes, Cached
<1> USE DEF Others, fetcher, looker
<1>1. ASSUME NEW to \in Quotes \cup {Complete}, Change(to)
      PROVE  UNCHANGED Others /\ cache' \in Cached
  BY <1>0, <1>1 DEF Change
<1>2. CASE Connect \/ GrpcConnect \/ Disconnect \/ GrpcDisconnect
  BY <1>0, <1>2 DEF Connect, GrpcConnect, Disconnect, GrpcDisconnect
<1>3. CASE Command
  BY <1>0, <1>3 DEF Command, Cached
<1>4. CASE GrpcCommand
  BY <1>0, <1>4 DEF GrpcCommand, Cached
<1>5. ASSUME NEW solPriced \in BOOLEAN, Deliver(solPriced)
      PROVE  UNCHANGED Others /\ cache' \in Cached
  <2> DEFINE note == Head(updates)
  <2>1. note \in Quotes => [price |-> note, fresh |-> TRUE] \in Cached
    BY DEF Cached
  <2> HIDE DEF note
  <2>2. cache' \in {cache, Unknown}
          \/ (note \in Quotes /\ cache' = [price |-> note, fresh |-> TRUE])
    BY <1>5 DEF Deliver, note
  <2>3. UNCHANGED Others
    BY <1>5 DEF Deliver
  <2> QED
    BY <1>0, <2>1, <2>2, <2>3 DEF Cached
<1>6. ASSUME NEW solPriced \in BOOLEAN, GrpcDeliver(solPriced)
      PROVE  UNCHANGED Others /\ cache' \in Cached
  <2> DEFINE note == Head(updates)
  <2>1. note \in Quotes => [price |-> note, fresh |-> TRUE] \in Cached
    BY DEF Cached
  <2> HIDE DEF note
  <2>2. cache' \in {cache, Unknown}
          \/ (note \in Quotes /\ cache' = [price |-> note, fresh |-> TRUE])
    BY <1>6 DEF GrpcDeliver, note
  <2>3. UNCHANGED Others
    BY <1>6 DEF GrpcDeliver
  <2> QED
    BY <1>0, <2>1, <2>2, <2>3 DEF Cached
<1>7. CASE UNCHANGED feedVars
  BY <1>0, <1>7 DEF feedVars
<1> QED
  BY <1>1, <1>2, <1>3, <1>4, <1>5, <1>6, <1>7

LEMMA StreamKeeps ==
  ASSUME SilenceInv, UNCHANGED Others, cache' \in Cached
  PROVE  SilenceInv'
<1>1. Alive(known)' <=> Alive(known)
  BY DEF Others, Alive, LastKnown
<1> QED
  BY <1>1 DEF SilenceInv, SilenceEnds, FeedTypes, Knowns, Others, Cached

LEMMA MonitorKeeps ==
  ASSUME SilenceInv, Open \/ Close
  PROVE  SilenceInv'
<1>1. CASE Open
  <2>1. UNCHANGED <<known, misses, blanks, silent, cache>> /\ monitor = "new"
    BY <1>1 DEF Open, fetcher
  <2>2. Alive(known)' <=> Alive(known)
    BY <2>1 DEF Alive, LastKnown
  <2> QED
    BY <2>1, <2>2 DEF SilenceInv, SilenceEnds, FeedTypes, Knowns
<1>2. CASE Close
  <2>1. /\ UNCHANGED <<blanks, silent, cache>>
        /\ known' = Unknown /\ misses' = 0 /\ monitor' = "over"
    BY <1>2 DEF Close, Closes
  <2> QED
    BY <2>1 DEF SilenceInv, SilenceEnds, FeedTypes, Knowns
<1> QED
  BY <1>1, <1>2

LEMMA SilenceStarts == FeedInit => SilenceInv
<1> SUFFICES ASSUME FeedInit PROVE SilenceInv
  OBVIOUS
<1>1. known = Unknown /\ cache = Unknown /\ misses = 0 /\ blanks = 0 /\ silent = 0
  BY DEF FeedInit
<1>2. ~Alive(known)
  BY <1>1 DEF Alive, LastKnown
<1> QED
  BY <1>1, <1>2, FeedAssumption DEF SilenceInv, SilenceEnds, FeedTypes, Knowns

LEMMA SilenceStep == SilenceInv /\ [FeedNext]_feedVars => SilenceInv'
<1> SUFFICES ASSUME SilenceInv, [FeedNext]_feedVars PROVE SilenceInv'
  OBVIOUS
<1>1. CASE Turn
  BY <1>1, TurnKeeps
<1>2. CASE Open \/ Close
  BY <1>2, MonitorKeeps
<1>3. CASE ~Turn /\ ~Open /\ ~Close
  <2>1. \/ \E to \in Quotes \cup {Complete} : Change(to)
        \/ Connect \/ GrpcConnect \/ Disconnect \/ GrpcDisconnect
        \/ Command \/ GrpcCommand
        \/ \E solPriced \in BOOLEAN : Deliver(solPriced) \/ GrpcDeliver(solPriced)
        \/ UNCHANGED feedVars
    BY <1>3 DEF FeedNext
  <2>2. FeedTypes
    BY DEF SilenceInv
  <2> QED
    BY <2>1, <2>2, StreamStep, StreamKeeps
<1> QED
  BY <1>1, <1>2, <1>3

(***************************************************************************)
(* A position whose price no source tells is given up before the silence   *)
(* has lasted as long as a last known price is kept (LAST_KNOWN_MAX_AGE,   *)
(* monitoring/price.rs) and the count of looks without a price             *)
(* (MAX_ZERO_PRICES, monitoring/mod.rs) together.                          *)
(***************************************************************************)
THEOREM SilenceBounded == FeedSpec => []SilenceEnds
<1>1. SilenceInv => SilenceEnds
  BY DEF SilenceInv
<1> QED
  BY <1>1, SilenceStarts, SilenceStep, PTL DEF FeedSpec

-----------------------------------------------------------------------------
(* The type invariant. *)

Statuses == {"none", "open", "partial", "exit_failed", "moonbag", "closed"}
Rows == [status : Statuses, signed : BOOLEAN, closed : BOOLEAN]

TableType ==
  /\ row \in [Positions -> Rows]
  /\ mb \in [Positions -> {"none", "live", "exited"}]
  /\ wallet \in [Mints -> Nat]

OwnersType ==
  /\ inserting \subseteq Positions /\ watched \subseteq Positions
  /\ channel \in Seq(Positions) /\ held \subseteq Positions
  /\ exits \in [Positions -> ExitStates \cup {Nothing}]

StartType ==
  /\ toRecover \subseteq Positions /\ toOrphan \subseteq Positions /\ up \in BOOLEAN
  /\ lost \in [Positions -> Reasons \cup {Nothing}]

LifeType ==
  /\ TableType /\ OwnersType /\ StartType
  /\ claim \in [Positions -> Nat]
  /\ writes \subseteq {"insert", "sync", "exit"} \X Positions

LEMMA Half == \A n \in Nat : n \div 2 \in Nat /\ n \div 2 <= n
  OBVIOUS

\* A row gets a status, or the write fails.
LEMMA StatusType ==
  ASSUME TableType, NEW p \in Positions, NEW s \in Statuses
  PROVE  /\ WithStatus(p, s) \in [Positions -> Rows]
         /\ \A q \in Positions : WithStatus(p, s)[q] =
               IF q = p THEN [row[q] EXCEPT !.status = s] ELSE row[q]
         /\ WithStatus(p, s)[p].status = s
  BY DEF TableType, WithStatus, Rows

LEMMA LostType ==
  ASSUME StartType, NEW p \in Positions, NEW r \in Reasons,
         lost' = [lost EXCEPT ![p] = r]
  PROVE  lost' \in [Positions -> Reasons \cup {Nothing}] /\ lost'[p] # Nothing
  BY LifecycleAssumption DEF StartType

LEMMA ExitType ==
  ASSUME NEW all \in BOOLEAN, NEW awaited \in BOOLEAN
  PROVE  AnExit(all, awaited) \in ExitStates
  BY DEF AnExit, ExitStates

LEMMA Appended ==
  ASSUME NEW s \in Seq(Positions), NEW p \in Positions
  PROVE  /\ Append(s, p) \in Seq(Positions)
         /\ ToSet(Append(s, p)) = ToSet(s) \cup {p}
         /\ IsInjective(s) /\ p \notin ToSet(s) => IsInjective(Append(s, p))
<1> DEFINE a == Append(s, p)
           n == Len(s)
<1>1. /\ n \in Nat /\ DOMAIN s = 1 .. n
      /\ a \in Seq(Positions) /\ DOMAIN a = 1 .. n + 1
  OBVIOUS
<1>2. a[n + 1] = p /\ \A i \in 1 .. n : a[i] = s[i]
  OBVIOUS
<1> HIDE DEF a, n
<1>3. \A i \in 1 .. n + 1 : i \in 1 .. n \/ i = n + 1
  BY <1>1
<1>4. ToSet(a) = ToSet(s) \cup {p}
  <2>1. \A i \in 1 .. n : i \in 1 .. n + 1
    BY <1>1
  <2>2. n + 1 \in 1 .. n + 1
    BY <1>1
  <2> QED
    BY <1>1, <1>2, <1>3, <2>1, <2>2, Zenon DEF ToSet
<1>5. ASSUME IsInjective(s), p \notin ToSet(s)
      PROVE  IsInjective(a)
  <2>1. \A i, j \in 1 .. n : s[i] = s[j] => i = j
    BY <1>1, <1>5 DEF IsInjective
  <2>2. \A i \in 1 .. n : s[i] # p
    BY <1>1, <1>5 DEF ToSet
  <2> SUFFICES ASSUME NEW i \in 1 .. n + 1, NEW j \in 1 .. n + 1, a[i] = a[j]
               PROVE  i = j
    BY <1>1 DEF IsInjective
  <2> QED
    BY <1>2, <1>3, <2>1, <2>2
<1> QED
  BY <1>1, <1>4, <1>5 DEF a

LEMMA Taken ==
  ASSUME NEW s \in Seq(Positions), s # <<>>
  PROVE  /\ Tail(s) \in Seq(Positions) /\ Head(s) \in ToSet(s)
         /\ Head(s) \in Positions
         /\ ToSet(Tail(s)) \subseteq ToSet(s)
         /\ IsInjective(s) => /\ IsInjective(Tail(s))
                              /\ ToSet(Tail(s)) = ToSet(s) \ {Head(s)}
<1>1. Len(s) \in Nat \ {0} /\ DOMAIN s = 1 .. Len(s)
  OBVIOUS
<1>2. Tail(s) \in Seq(Positions) /\ DOMAIN Tail(s) = 1 .. Len(s) - 1
  OBVIOUS
<1>3. Head(s) = s[1] /\ \A i \in 1 .. Len(s) - 1 : Tail(s)[i] = s[i + 1]
  OBVIOUS
<1>4. Head(s) \in ToSet(s) /\ Head(s) \in Positions
  BY <1>1, <1>3 DEF ToSet
<1>5. ToSet(Tail(s)) \subseteq ToSet(s)
  BY <1>1, <1>2, <1>3 DEF ToSet
<1>6. ASSUME IsInjective(s)
      PROVE  IsInjective(Tail(s)) /\ ToSet(Tail(s)) = ToSet(s) \ {Head(s)}
  <2>1. \A i, j \in 1 .. Len(s) : s[i] = s[j] => i = j
    BY <1>1, <1>6 DEF IsInjective
  <2>2. IsInjective(Tail(s))
    <3> SUFFICES ASSUME NEW i \in 1 .. Len(s) - 1, NEW j \in 1 .. Len(s) - 1,
                        Tail(s)[i] = Tail(s)[j]
                 PROVE  i = j
      BY <1>2 DEF IsInjective
    <3>1. i + 1 \in 1 .. Len(s) /\ j + 1 \in 1 .. Len(s)
      BY <1>1
    <3>2. i + 1 = j + 1
      BY <1>3, <2>1, <3>1
    <3> QED
      BY <3>2
  <2>3. Head(s) \notin ToSet(Tail(s))
    <3> SUFFICES ASSUME NEW i \in 1 .. Len(s) - 1, s[1] = s[i + 1] PROVE FALSE
      BY <1>2, <1>3 DEF ToSet
    <3> QED
      BY <1>1, <2>1
  <2>4. ASSUME NEW x \in ToSet(s), x # Head(s)
        PROVE  x \in ToSet(Tail(s))
    <3>1. PICK i \in 1 .. Len(s) : x = s[i]
      BY <1>1 DEF ToSet
    <3>2. i - 1 \in 1 .. Len(s) - 1 /\ Tail(s)[i - 1] = s[i]
      BY <1>1, <1>3, <2>4, <3>1
    <3> QED
      BY <1>2, <3>1, <3>2 DEF ToSet
  <2> QED
    BY <1>5, <2>2, <2>3, <2>4
<1> QED
  BY <1>2, <1>4, <1>5, <1>6

LEMMA TypeInit == LifeInit => LifeType
  BY LifecycleAssumption
  DEF LifeInit, LifeType, TableType, OwnersType, StartType, NoRow, Rows, Statuses

LEMMA TypeNext == LifeType /\ [LifeNext]_lifeVars => LifeType'
<1> SUFFICES ASSUME LifeType, [LifeNext]_lifeVars PROVE LifeType'
  OBVIOUS
<1> USE DEF LifeType
<1>s. Statuses = {"none", "open", "partial", "exit_failed", "moonbag", "closed"}
  BY DEF Statuses
<1>r. Reasons = {"no_row", "not_retried", "given_up", "refused", "partial", "moonbag",
                 "closed", "query", "unread"}
  BY DEF Reasons
<1>1. ASSUME NEW p \in Positions, Land(p) PROVE LifeType'
  <2>1. MintOf[p] \in Mints /\ wallet[MintOf[p]] + Lot \in Nat
    BY LifecycleAssumption DEF TableType
  <2>2. TableType'
    BY <1>1, <2>1 DEF Land, TableType
  <2>3. OwnersType'
    BY <1>1 DEF Land, OwnersType
  <2>4. StartType'
    BY <1>1 DEF Land, StartType, startup
  <2>5. claim' \in [Positions -> Nat]
    BY <1>1, LifecycleAssumption DEF Land
  <2>6. UNCHANGED writes
    BY <1>1 DEF Land
  <2> QED
    BY <2>2, <2>3, <2>4, <2>5, <2>6
<1>2. ASSUME NEW p \in Positions, InsertRow(p) PROVE LifeType'
  <2>1. "no_row" \in Reasons /\ "open" \in Statuses
    BY <1>s, <1>r
  <2> QED
    BY <1>2, <2>1, StatusType, LostType
    DEF InsertRow, startup, TableType, OwnersType, StartType
<1>3. ASSUME NEW p \in Positions, NEW all \in BOOLEAN, Trigger(p, all) PROVE LifeType'
  <2>1. \A awaited \in BOOLEAN : AnExit(all, awaited) \in ExitStates
    BY ExitType
  <2>2. AnExit(TRUE, FALSE) \in ExitStates
    BY ExitType
  <2> QED
    BY <1>3, <2>1, <2>2
    DEF Trigger, table, startup, TableType, OwnersType, StartType
<1>4. ASSUME NEW p \in Positions, Sell(p) PROVE LifeType'
  <2> DEFINE m == MintOf[p]
             part(n) == IF exits[p].all THEN n ELSE n \div 2
             amount == Least(claim[p], wallet[m])
  <2>1. m \in Mints /\ wallet[m] \in Nat /\ claim[p] \in Nat
    BY LifecycleAssumption DEF TableType
  <2>2. amount \in Nat /\ amount <= wallet[m]
    BY <2>1 DEF Least
  <2>3. \A n \in Nat : part(n) \in Nat /\ part(n) <= n
    BY Half
  <2>4. wallet[m] - part(amount) \in Nat /\ claim[p] - part(claim[p]) \in Nat
    BY <2>1, <2>2, <2>3
  <2>5. TableType'
    BY <1>4, <2>1, <2>4 DEF Sell, TableType
  <2>6. exits' = [exits EXCEPT ![p] = [exits[p] EXCEPT !.pc = "settle"]]
    BY <1>4 DEF Sell, OwnersType
  <2>7. exits[p] \in ExitStates
    BY <1>4 DEF Sell, Exiting, OwnersType
  <2>8. [exits[p] EXCEPT !.pc = "settle"] \in ExitStates
    BY <2>7 DEF ExitStates
  <2>9. OwnersType'
    BY <1>4, <2>6, <2>8 DEF Sell, OwnersType, owners
  <2>10. StartType' /\ UNCHANGED writes
    BY <1>4 DEF Sell, StartType, startup
  <2>11. claim' \in [Positions -> Nat]
    BY <1>4, <2>4 DEF Sell
  <2> QED
    BY <2>5, <2>9, <2>10, <2>11
<1>5. ASSUME NEW p \in Positions, Settle(p) PROVE LifeType'
  <2> DEFINE after == [status |-> IF exits[p].all THEN "closed" ELSE "partial",
                       signed |-> TRUE, closed |-> row[p].closed \/ exits[p].all]
  <2>1. exits[p] \in ExitStates
    BY <1>5 DEF Settle, Exiting, OwnersType
  <2>2. after \in Rows
    BY <2>1 DEF ExitStates, TableType, Rows, Statuses
  <2>3. UNCHANGED row \/ row' = [row EXCEPT ![p] = after]
    BY <1>5 DEF Settle, Wrote
  <2>4. TableType'
    BY <1>5, <2>2, <2>3 DEF Settle, TableType
  <2>5. OwnersType'
    BY <1>5 DEF Settle, OwnersType
  <2>6. StartType' /\ UNCHANGED <<claim, writes>>
    BY <1>5 DEF Settle, StartType, startup
  <2> QED
    BY <2>4, <2>5, <2>6
<1>6. ASSUME NEW p \in Positions, FailsForNow(p) PROVE LifeType'
  <2>1. TableType' /\ OwnersType'
    BY <1>6 DEF FailsForNow, table, owners, TableType, OwnersType
  <2>2. StartType' /\ UNCHANGED <<claim, writes>>
    BY <1>6, <1>r, LostType DEF FailsForNow, StartType, startup
  <2> QED
    BY <2>1, <2>2
<1>7. ASSUME NEW p \in Positions, FailsForGood(p) PROVE LifeType'
  <2>1. UNCHANGED row \/ row' = WithStatus(p, "exit_failed")
    BY <1>7 DEF FailsForGood, Wrote
  <2>2. TableType'
    BY <1>7, <1>s, <2>1, StatusType DEF FailsForGood, TableType
  <2>3. OwnersType'
    BY <1>7 DEF FailsForGood, OwnersType
  <2>4. StartType' /\ UNCHANGED <<claim, writes>>
    BY <1>7, <1>r, LostType DEF FailsForGood, StartType, startup
  <2> QED
    BY <2>2, <2>3, <2>4
<1>8. ASSUME NEW p \in Positions, Promote(p) PROVE LifeType'
  <2>1. OwnersType'
    BY <1>8, Appended DEF Promote, OwnersType
  <2>2. TableType' /\ StartType' /\ UNCHANGED <<claim, writes>>
    BY <1>8 DEF Promote, table, startup, TableType, StartType
  <2> QED
    BY <2>1, <2>2
<1>9. ASSUME Receive PROVE LifeType'
  <2> DEFINE p == Head(channel)
  <2>1. p \in Positions /\ Tail(channel) \in Seq(Positions)
    BY <1>9, Taken DEF Receive, OwnersType
  <2>2. OwnersType'
    BY <1>9, <2>1 DEF Receive, OwnersType
  <2>3. TableType' /\ UNCHANGED <<claim, startup>>
    BY <1>9 DEF Receive, table, TableType
  <2>4. StartType'
    BY <1>9, <1>r, <2>1, <2>3, LostType DEF Receive, StartType, startup
  <2>5. writes' \subseteq {"insert", "sync", "exit"} \X Positions
    BY <1>9, <2>1 DEF Receive, Spawned
  <2> QED
    BY <2>2, <2>3, <2>4, <2>5
<1>10. ASSUME NEW p \in Positions, InsertMoonbag(p) PROVE LifeType'
  BY <1>10 DEF InsertMoonbag, owners, startup, TableType, OwnersType, StartType
<1>11. ASSUME NEW p \in Positions, SyncRow(p) PROVE LifeType'
  <2>1. UNCHANGED row \/ row' = WithStatus(p, "moonbag")
    BY <1>11 DEF SyncRow, Wrote
  <2>2. TableType'
    BY <1>11, <1>s, <2>1, StatusType DEF SyncRow, TableType
  <2>3. OwnersType' /\ StartType' /\ UNCHANGED claim /\ writes' \subseteq writes
    BY <1>11 DEF SyncRow, owners, startup, OwnersType, StartType
  <2> QED
    BY <2>2, <2>3
<1>12. ASSUME NEW p \in Positions, TailExit(p) PROVE LifeType'
  <2>1. OwnersType'
    BY <1>12, ExitType DEF TailExit, OwnersType
  <2>2. TableType' /\ StartType' /\ UNCHANGED claim
    BY <1>12 DEF TailExit, table, startup, TableType, StartType
  <2>3. writes' \subseteq {"insert", "sync", "exit"} \X Positions
    BY <1>12 DEF TailExit
  <2> QED
    BY <2>1, <2>2, <2>3
<1>13. ASSUME NEW p \in Positions, ExitMoonbag(p) PROVE LifeType'
  <2>1. TableType'
    BY <1>13 DEF ExitMoonbag, TableType
  <2>2. OwnersType' /\ StartType' /\ UNCHANGED claim /\ writes' \subseteq writes
    BY <1>13 DEF ExitMoonbag, owners, startup, OwnersType, StartType
  <2> QED
    BY <2>1, <2>2
<1>14. ASSUME NEW p \in Positions, Recover(p) PROVE LifeType'
  <2> DEFINE m == MintOf[p]
  <2>1. PICK balance \in Balances(p) :
          /\ toRecover' = toRecover \ {p}
          /\ IF balance = 0
             THEN /\ Wrote(WithStatus(p, "closed"))
                  /\ lost' = [lost EXCEPT ![p] = IF wallet[m] > 0 THEN "unread" ELSE @]
                  /\ UNCHANGED <<watched, claim>>
             ELSE /\ Wrote(WithStatus(p, "open"))
                  /\ watched' = watched \cup {p}
                  /\ claim' = [claim EXCEPT ![p] = balance]
                  /\ UNCHANGED lost
    BY <1>14, Zenon DEF Recover
  <2>2. /\ UNCHANGED <<mb, wallet, inserting, channel, held, openMints, exits, writes>>
        /\ UNCHANGED <<toOrphan, up, crashes>>
    BY <1>14 DEF Recover
  <2>3. balance \in Nat
    <3>1. wallet[m] \in Nat
      BY LifecycleAssumption DEF TableType
    <3> QED
      BY <3>1 DEF Balances
  <2>4. UNCHANGED row \/ row' = WithStatus(p, "closed") \/ row' = WithStatus(p, "open")
    BY <2>1 DEF Wrote
  <2>5. TableType'
    BY <1>s, <2>2, <2>4, StatusType DEF TableType
  <2>6. OwnersType'
    BY <2>1, <2>2 DEF OwnersType
  <2>7. claim' \in [Positions -> Nat]
    BY <2>1, <2>3
  <2>8. StartType'
    BY <1>r, <2>1, <2>2 DEF StartType
  <2> QED
    BY <2>2, <2>5, <2>6, <2>7, <2>8
<1>15. ASSUME NEW p \in Positions, CloseOrphan(p) PROVE LifeType'
  <2>1. UNCHANGED row \/ row' = WithStatus(p, "closed")
    BY <1>15 DEF CloseOrphan, Wrote
  <2>2. TableType'
    BY <1>15, <1>s, <2>1, StatusType DEF CloseOrphan, TableType
  <2>3. OwnersType' /\ StartType' /\ UNCHANGED <<claim, writes>>
    BY <1>15 DEF CloseOrphan, owners, OwnersType, StartType
  <2> QED
    BY <2>2, <2>3
<1>16. ASSUME Crash PROVE LifeType'
  <2>1. \A p \in Positions : LeftBehind(p) \in Reasons \cup {Nothing}
    BY <1>r DEF LeftBehind, StartType
  <2>2. StartType'
    BY <1>16, <2>1 DEF Crash, StartType
  <2>3. TableType' /\ OwnersType'
    BY <1>16 DEF Crash, table, TableType, OwnersType
  <2> QED
    BY <1>16, <2>2, <2>3 DEF Crash
<1>17. ASSUME Restart PROVE LifeType'
  <2>1. Stuck \subseteq Positions
    BY DEF Stuck
  <2>2. StartType'
    BY <1>17, <1>r, <2>1 DEF Restart, StartType
  <2>3. TableType' /\ OwnersType' /\ UNCHANGED <<claim, writes>>
    BY <1>17 DEF Restart, table, owners, TableType, OwnersType
  <2> QED
    BY <2>2, <2>3
<1>18. CASE UNCHANGED lifeVars
  BY <1>18 DEF lifeVars, table, owners, startup, TableType, OwnersType, StartType
<1> QED
  BY <1>1, <1>2, <1>3, <1>4, <1>5, <1>6, <1>7, <1>8, <1>9, <1>10, <1>11, <1>12, <1>13,
     <1>14, <1>15, <1>16, <1>17, <1>18 DEF LifeNext, LifeStep

LEMMA TypeHolds == LifeSpec => []LifeType
<1> QED
  BY TypeInit, TypeNext, PTL DEF LifeSpec

-----------------------------------------------------------------------------
(* One owner. *)

Sent == ToSet(channel)

\* Whoever may come to sell p, but for the task that inserts its row.
Parties == watched \cup Sent \cup held \cup Exiting \cup toRecover

\* Each party is alone; an exit that is waited for belongs to the monitor.
Apart ==
  /\ watched \cap (Sent \cup held \cup toRecover) = {}
  /\ Sent \cap (held \cup toRecover) = {} /\ held \cap toRecover = {}
  /\ Exiting \cap (Sent \cup held \cup toRecover) = {}
  /\ \A p \in Exiting : exits[p].awaited <=> p \in watched

\* A purchase whose row is not written yet has no other party, since a row once
\* written is never unwritten; and nobody owns anything between two processes.
OwnersInv ==
  /\ \A p \in inserting : Status(p) = "none"
  /\ \A p \in Parties : Status(p) # "none"
  /\ Apart /\ IsInjective(channel)
  /\ \A p \in Exiting : exits[p].all \/ exits[p].awaited
  /\ ~up => /\ inserting = {} /\ watched = {} /\ channel = <<>> /\ held = {}
            /\ Exiting = {} /\ toRecover = {} /\ toOrphan = {} /\ writes = {}

\* What is known of a row before it is written again: what the tracker writes,
\* it holds or held, and a moonbag is marked after its own row is there.
WrittenInv ==
  /\ \A w \in writes : row[w[2]].status # "none"
  /\ \A p \in Positions : /\ mb[p] # "none" => row[p].status # "none"
                          /\ row[p].status = "moonbag" => mb[p] # "none"
                          /\ <<"sync", p>> \in writes => mb[p] # "none"
  /\ \A p \in toOrphan : mb[p] # "none"

LEMMA NoneSent == ToSet(<<>>) = {} /\ IsInjective(<<>>)
  BY DEF ToSet, IsInjective

LEMMA OwnersInit == LifeInit => OwnersInv
  BY NoneSent DEF LifeInit, OwnersInv, Parties, Apart, Sent, Exiting, Status

LEMMA SentIn == OwnersType => Sent \subseteq Positions
  BY DEF OwnersType, Sent, ToSet

\* A step of a process in which no party comes or goes.
LEMMA OwnersStay ==
  ASSUME LifeType, OwnersInv, UNCHANGED <<inserting, watched, channel, held, exits>>,
         UNCHANGED <<toRecover, up>>,
         up \/ UNCHANGED <<toOrphan, writes>>,
         \A p \in Positions : row'[p].status # "none" <=> row[p].status # "none"
  PROVE  OwnersInv'
<1>1. UNCHANGED <<Sent, Exiting>>
  BY DEF Sent, Exiting
<1>2. UNCHANGED Parties /\ Parties \subseteq Positions /\ inserting \subseteq Positions
  BY <1>1, SentIn DEF Parties, Exiting, LifeType, OwnersType, StartType
<1>3. Apart'
  BY <1>1 DEF OwnersInv, Apart
<1>4. /\ \A p \in inserting : Status(p)' = "none"
      /\ \A p \in Parties : Status(p)' # "none"
  BY <1>2 DEF OwnersInv, Status
<1>5. (~up => toOrphan = {} /\ writes = {})'
  BY DEF OwnersInv
<1> QED
  BY <1>1, <1>2, <1>3, <1>4, <1>5 DEF OwnersInv

\* Who comes: the exit of one that is watched, or of nobody's.
ExitsOf(p) == exits' = [exits EXCEPT ![p] = exits'[p]]

LEMMA ExitingChanged ==
  ASSUME OwnersType, NEW p \in Positions, ExitsOf(p)
  PROVE  /\ Exiting' \ {p} = Exiting \ {p}
         /\ p \in Exiting' <=> exits'[p] # Nothing
         /\ \A q \in Positions : q # p => exits'[q] = exits[q]
  BY DEF ExitsOf, Exiting, OwnersType

LEMMA AnExitIs ==
  ASSUME NEW all, NEW awaited, all \in BOOLEAN, awaited \in BOOLEAN
  PROVE  /\ AnExit(all, awaited) # Nothing
         /\ AnExit(all, awaited).all = all /\ AnExit(all, awaited).awaited = awaited
  BY ExitType, LifecycleAssumption DEF AnExit

\* A step that moves at most p, which is written, from one party to another.
LEMMA OwnersMoved ==
  ASSUME LifeType, LifeType', OwnersInv, NEW p \in Positions, ExitsOf(p),
         UNCHANGED up, up,
         \A q \in Positions : q # p => (row'[q].status # "none" <=> row[q].status # "none"),
         inserting' \subseteq inserting \cup {p},
         watched' \ {p} = watched \ {p}, Sent' \ {p} = Sent \ {p},
         held' \ {p} = held \ {p}, toRecover' \ {p} = toRecover \ {p},
         IsInjective(channel'),
         p \in inserting' => row'[p].status = "none",
         p \in Parties' => row'[p].status # "none",
         p \in watched' => p \notin Sent' \cup held' \cup toRecover',
         p \in Sent' => p \notin held' \cup toRecover', p \in held' => p \notin toRecover',
         exits'[p] # Nothing => /\ p \notin Sent' \cup held' \cup toRecover'
                                /\ exits'[p].awaited <=> p \in watched'
                                /\ exits'[p].all \/ exits'[p].awaited
  PROVE  OwnersInv'
<1>1. /\ Exiting' \ {p} = Exiting \ {p}
      /\ p \in Exiting' <=> exits'[p] # Nothing
      /\ \A q \in Positions : q # p => exits'[q] = exits[q]
  BY ExitingChanged DEF LifeType
<1>2. Exiting \subseteq Positions /\ Exiting' \subseteq Positions
  BY DEF Exiting
<1>3. Apart'
  <2>1. \A q \in Exiting' : exits'[q].awaited <=> q \in watched'
    <3>1. \A q \in Exiting : exits[q].awaited <=> q \in watched
      BY DEF OwnersInv, Apart
    <3> QED
      BY <1>1, <1>2, <3>1
  <2>2. /\ watched' \cap (Sent' \cup held' \cup toRecover') = {}
        /\ Sent' \cap (held' \cup toRecover') = {} /\ held' \cap toRecover' = {}
    BY DEF OwnersInv, Apart
  <2>3. Exiting' \cap (Sent' \cup held' \cup toRecover') = {}
    <3>1. Exiting \cap (Sent \cup held \cup toRecover) = {}
      BY DEF OwnersInv, Apart
    <3> QED
      BY <1>1, <3>1
  <2> QED
    BY <2>1, <2>2, <2>3 DEF Apart
<1>4. \A q \in inserting' : row'[q].status = "none"
  <2> SUFFICES ASSUME NEW q \in inserting', q # p PROVE row'[q].status = "none"
    OBVIOUS
  <2>1. q \in inserting /\ q \in Positions
    BY DEF LifeType, OwnersType
  <2>2. row[q].status = "none"
    BY <2>1 DEF OwnersInv, Status
  <2> QED
    BY <2>1, <2>2
<1>5. \A q \in Parties' : row'[q].status # "none"
  <2> SUFFICES ASSUME NEW q \in Parties', q # p PROVE row'[q].status # "none"
    OBVIOUS
  <2>1. q \in Parties
    BY <1>1 DEF Parties
  <2>2. q \in Positions
    BY <1>2, <2>1, SentIn DEF Parties, LifeType, OwnersType, StartType
  <2> QED
    BY <2>1, <2>2 DEF OwnersInv, Status
<1>6. \A q \in Exiting' : exits'[q].all \/ exits'[q].awaited
  <2>1. \A q \in Exiting : exits[q].all \/ exits[q].awaited
    BY DEF OwnersInv
  <2> QED
    BY <1>1, <1>2, <2>1
<1> QED
  BY <1>3, <1>4, <1>5, <1>6 DEF OwnersInv, Status

LEMMA SomeoneUp ==
  ASSUME OwnersInv, \/ inserting # {} \/ watched # {} \/ channel # <<>> \/ held # {}
                    \/ Exiting # {} \/ toRecover # {}
  PROVE  up
  BY DEF OwnersInv

\* A row that is written has a status.
LEMMA WrittenStatus ==
  ASSUME LifeType, NEW p \in Positions, NEW s \in Statuses, s # "none",
         row' = WithStatus(p, s)
  PROVE  /\ \A q \in Positions : q # p => row'[q].status = row[q].status
         /\ row'[p].status = s /\ row'[p].status # "none"
<1>1. /\ \A q \in Positions : WithStatus(p, s)[q] =
            IF q = p THEN [row[q] EXCEPT !.status = s] ELSE row[q]
      /\ WithStatus(p, s)[p].status = s
  BY StatusType DEF LifeType
<1> QED
  BY <1>1

LEMMA OwnersNext ==
  LifeType /\ LifeType' /\ OwnersInv /\ WrittenInv /\ [LifeNext]_lifeVars => OwnersInv'
<1> SUFFICES ASSUME LifeType, LifeType', OwnersInv, WrittenInv, [LifeNext]_lifeVars
             PROVE  OwnersInv'
  OBVIOUS
<1>s. Statuses = {"none", "open", "partial", "exit_failed", "moonbag", "closed"}
  BY DEF Statuses
<1>e. \A p \in Positions : UNCHANGED exits => ExitsOf(p)
  BY DEF ExitsOf, LifeType, OwnersType
<1>i. IsInjective(channel)
  BY DEF OwnersInv
<1>1. ASSUME NEW p \in Positions, Land(p) PROVE OwnersInv'
  <2>1. /\ up /\ row[p].status = "none" /\ inserting' = inserting \cup {p}
        /\ UNCHANGED <<row, watched, channel, held, exits, toRecover, up>>
    BY <1>1 DEF Land, startup, Status
  <2>2. p \notin Parties
    BY <2>1 DEF OwnersInv, Status
  <2>3. UNCHANGED <<Sent, Exiting, Parties>>
    BY <2>1 DEF Sent, Exiting, Parties
  <2>4. exits[p] = Nothing /\ ExitsOf(p)
    BY <1>e, <2>1, <2>2 DEF Parties, Exiting
  <2> QED
    BY <1>i, <2>1, <2>2, <2>3, <2>4, OwnersMoved DEF Parties
<1>2. ASSUME NEW p \in Positions, InsertRow(p) PROVE OwnersInv'
  <2>1. /\ p \in inserting /\ inserting' = inserting \ {p}
        /\ UNCHANGED <<channel, held, exits, toRecover, up>>
        /\ \/ row' = WithStatus(p, "open") /\ watched' = watched \cup {p}
           \/ UNCHANGED <<row, watched>>
    BY <1>2 DEF InsertRow, startup
  <2>2. up /\ p \notin Parties
    BY <2>1, SomeoneUp DEF OwnersInv
  <2>3. UNCHANGED <<Sent, Exiting>> /\ exits'[p] = Nothing /\ ExitsOf(p)
    BY <1>e, <2>1, <2>2 DEF Sent, Exiting, Parties
  <2>4. /\ \A q \in Positions : q # p => row'[q].status = row[q].status
        /\ p \in watched' => row'[p].status # "none"
    BY <1>s, <2>1, <2>2, WrittenStatus DEF Parties
  <2>5. p \notin Sent' \cup held' \cup toRecover' /\ p \notin inserting'
    BY <2>1, <2>2, <2>3 DEF Parties
  <2>6. p \in Parties' => p \in watched'
    BY <2>1, <2>2, <2>3 DEF Parties
  <2> QED
    BY <1>i, <2>1, <2>2, <2>3, <2>4, <2>5, <2>6, OwnersMoved
<1>3. ASSUME NEW p \in Positions, NEW all \in BOOLEAN, Trigger(p, all) PROVE OwnersInv'
  <2>1. /\ p \in watched \ Exiting
        /\ UNCHANGED <<row, inserting, channel, held, toRecover, up>>
        /\ \/ exits' = [exits EXCEPT ![p] = AnExit(all, TRUE)] /\ UNCHANGED watched
           \/ /\ exits' = [exits EXCEPT ![p] = AnExit(TRUE, FALSE)]
              /\ watched' = watched \ {p}
    BY <1>3 DEF Trigger, table, startup
  <2>2. up /\ p \in Parties /\ row[p].status # "none" /\ p \notin inserting
    BY <2>1, SomeoneUp DEF OwnersInv, Parties, Status
  <2>3. p \notin Sent \cup held \cup toRecover /\ UNCHANGED Sent
    BY <2>1 DEF OwnersInv, Apart, Sent
  <2>4. ExitsOf(p)
    BY <2>1 DEF ExitsOf, LifeType, OwnersType
  <2>5. \/ exits'[p] = AnExit(all, TRUE) /\ p \in watched'
        \/ exits'[p] = AnExit(TRUE, FALSE) /\ p \notin watched'
    BY <2>1 DEF LifeType, OwnersType
  <2>6. /\ exits'[p].awaited <=> p \in watched'
        /\ exits'[p].all \/ exits'[p].awaited
    BY <2>5, AnExitIs
  <2>7. watched' \ {p} = watched \ {p}
    BY <2>1
  <2> QED
    BY <1>i, <2>1, <2>2, <2>3, <2>4, <2>6, <2>7, OwnersMoved
<1>4. ASSUME NEW p \in Positions, Sell(p) PROVE OwnersInv'
  <2>1. /\ p \in Exiting /\ exits' = [exits EXCEPT ![p].pc = "settle"]
        /\ UNCHANGED <<row, inserting, watched, channel, held, toRecover, up>>
    BY <1>4 DEF Sell, owners, startup
  <2>2. exits[p] \in ExitStates
    BY <2>1 DEF Exiting, LifeType, OwnersType
  <2>3. /\ ExitsOf(p) /\ exits'[p].awaited = exits[p].awaited
        /\ exits'[p].all = exits[p].all
    BY <2>1, <2>2 DEF ExitsOf, LifeType, OwnersType, ExitStates
  <2>4. up /\ row[p].status # "none" /\ p \notin inserting
    BY <2>1, SomeoneUp DEF OwnersInv, Parties, Status
  <2>5. /\ p \notin Sent \cup held \cup toRecover /\ UNCHANGED Sent
        /\ exits[p].awaited <=> p \in watched
    BY <2>1 DEF OwnersInv, Apart, Sent
  <2>6. exits[p].all \/ exits[p].awaited
    BY <2>1 DEF OwnersInv
  <2> QED
    BY <1>i, <2>1, <2>3, <2>4, <2>5, <2>6, OwnersMoved
<1> DEFINE Ended(p) ==
             /\ p \in Exiting /\ exits' = [exits EXCEPT ![p] = Nothing]
             /\ \A q \in Positions : q # p => row'[q].status = row[q].status
             /\ row'[p].status # "none"
             /\ UNCHANGED <<inserting, channel, held, toRecover, up>>
             /\ watched' \in {watched, watched \ {p}}
<1>5. ASSUME NEW p \in Positions, Ended(p) PROVE OwnersInv'
  <2>1. exits'[p] = Nothing /\ ExitsOf(p)
    BY <1>5 DEF ExitsOf, LifeType, OwnersType
  <2>2. up /\ p \notin inserting
    BY <1>5, SomeoneUp DEF OwnersInv, Parties, Status
  <2>3. p \notin Sent \cup held \cup toRecover /\ UNCHANGED Sent
    BY <1>5 DEF OwnersInv, Apart, Sent
  <2> QED
    BY <1>5, <1>i, <2>1, <2>2, <2>3, OwnersMoved
<1>6. ASSUME NEW p \in Positions, Settle(p) PROVE OwnersInv'
  <2> DEFINE after == [status |-> IF exits[p].all THEN "closed" ELSE "partial",
                       signed |-> TRUE, closed |-> row[p].closed \/ exits[p].all]
  <2>1. /\ p \in Exiting /\ exits' = [exits EXCEPT ![p] = Nothing]
        /\ UNCHANGED <<inserting, channel, held, toRecover, up>>
        /\ watched' \in {watched, watched \ {p}}
        /\ UNCHANGED row \/ row' = [row EXCEPT ![p] = after]
    BY <1>6 DEF Settle, Wrote, startup
  <2>2. row[p].status # "none"
    BY <2>1 DEF OwnersInv, Parties, Status
  <2>3. /\ \A q \in Positions : q # p => row'[q].status = row[q].status
        /\ row'[p].status # "none"
    BY <2>1, <2>2 DEF LifeType, TableType
  <2> QED
    BY <1>5, <2>1, <2>3
<1>7. ASSUME NEW p \in Positions, FailsForNow(p) \/ FailsForGood(p) PROVE OwnersInv'
  <2>1. /\ p \in Exiting /\ exits' = [exits EXCEPT ![p] = Nothing]
        /\ UNCHANGED <<inserting, channel, held, toRecover, up>>
        /\ watched' \in {watched, watched \ {p}}
        /\ UNCHANGED row \/ row' = WithStatus(p, "exit_failed")
    BY <1>7 DEF FailsForNow, FailsForGood, Wrote, table, owners, startup
  <2>2. row[p].status # "none"
    BY <2>1 DEF OwnersInv, Parties, Status
  <2>3. /\ \A q \in Positions : q # p => row'[q].status = row[q].status
        /\ row'[p].status # "none"
    BY <1>s, <2>1, <2>2, WrittenStatus
  <2> QED
    BY <1>5, <2>1, <2>3
<1>8. ASSUME NEW p \in Positions, Promote(p) PROVE OwnersInv'
  <2>1. /\ p \in watched \ Exiting /\ channel' = Append(channel, p)
        /\ watched' = watched \ {p}
        /\ UNCHANGED <<row, inserting, held, exits, toRecover, up>>
    BY <1>8 DEF Promote, table, startup
  <2>2. up /\ row[p].status # "none" /\ p \notin inserting
    BY <2>1, SomeoneUp DEF OwnersInv, Parties, Status
  <2>3. p \notin Sent \cup held \cup toRecover
    BY <2>1 DEF OwnersInv, Apart
  <2>4. Sent' = Sent \cup {p} /\ IsInjective(channel')
    BY <1>i, <2>1, <2>3, Appended DEF Sent, LifeType, OwnersType
  <2>5. exits'[p] = Nothing /\ ExitsOf(p)
    BY <1>e, <2>1 DEF Exiting
  <2> QED
    BY <2>1, <2>2, <2>3, <2>4, <2>5, OwnersMoved
<1>9. ASSUME Receive PROVE OwnersInv'
  <2> DEFINE p == Head(channel)
  <2>1. /\ channel # <<>> /\ channel' = Tail(channel)
        /\ held' \in {held, held \cup {p}}
        /\ UNCHANGED <<row, inserting, watched, exits, toRecover, up>>
    BY <1>9 DEF Receive, table, startup
  <2>2. /\ p \in Positions /\ p \in Sent
        /\ Sent' = Sent \ {p} /\ IsInjective(channel')
    BY <1>i, <2>1, Taken DEF Sent, LifeType, OwnersType
  <2> HIDE DEF p
  <2>3. up /\ row[p].status # "none" /\ p \notin inserting
    BY <2>1, <2>2, SomeoneUp DEF OwnersInv, Parties, Status
  <2>4. p \notin watched \cup held \cup toRecover /\ p \notin Exiting
    BY <2>2 DEF OwnersInv, Apart
  <2>5. exits'[p] = Nothing /\ ExitsOf(p)
    BY <1>e, <2>1, <2>2, <2>4 DEF Exiting
  <2> QED
    BY <2>1, <2>2, <2>3, <2>4, <2>5, OwnersMoved
<1>10. ASSUME NEW p \in Positions, InsertMoonbag(p) \/ ExitMoonbag(p)
       PROVE  OwnersInv'
  <2>1. UNCHANGED <<inserting, watched, channel, held, exits, toRecover, up, toOrphan, row>>
    BY <1>10 DEF InsertMoonbag, ExitMoonbag, owners, startup
  <2>2. up
    BY <1>10 DEF InsertMoonbag, ExitMoonbag, OwnersInv
  <2> QED
    BY <2>1, <2>2, OwnersStay
<1>11. ASSUME NEW p \in Positions, SyncRow(p) PROVE OwnersInv'
  <2>1. UNCHANGED <<inserting, watched, channel, held, exits, toRecover, up, toOrphan>>
    BY <1>11 DEF SyncRow, owners, startup
  <2>2. up
    BY <1>11 DEF SyncRow, OwnersInv
  <2>3. row[p].status # "none"
    BY <1>11 DEF SyncRow, WrittenInv
  <2>4. UNCHANGED row \/ row' = WithStatus(p, "moonbag")
    BY <1>11 DEF SyncRow, Wrote
  <2>5. \A q \in Positions : row'[q].status # "none" <=> row[q].status # "none"
    BY <1>s, <2>3, <2>4, WrittenStatus
  <2> QED
    BY <2>1, <2>2, <2>5, OwnersStay
<1>12. ASSUME NEW p \in Positions, CloseOrphan(p) PROVE OwnersInv'
  <2>1. UNCHANGED <<inserting, watched, channel, held, exits, toRecover, up>>
    BY <1>12 DEF CloseOrphan, owners
  <2>2. up
    BY <1>12 DEF CloseOrphan, OwnersInv
  <2>3. row[p].status # "none"
    BY <1>12 DEF CloseOrphan, WrittenInv
  <2>4. UNCHANGED row \/ row' = WithStatus(p, "closed")
    BY <1>12 DEF CloseOrphan, Wrote
  <2>5. \A q \in Positions : row'[q].status # "none" <=> row[q].status # "none"
    BY <1>s, <2>3, <2>4, WrittenStatus
  <2> QED
    BY <2>1, <2>2, <2>5, OwnersStay
<1>13. ASSUME NEW p \in Positions, TailExit(p) PROVE OwnersInv'
  <2>1. /\ p \in held /\ held' = held \ {p}
        /\ exits' = [exits EXCEPT ![p] = AnExit(TRUE, FALSE)]
        /\ UNCHANGED <<row, inserting, watched, channel, toRecover, up>>
    BY <1>13 DEF TailExit, table, startup
  <2>2. up /\ row[p].status # "none" /\ p \notin inserting
    BY <2>1, SomeoneUp DEF OwnersInv, Parties, Status
  <2>3. p \notin watched \cup Sent \cup toRecover /\ UNCHANGED Sent
    BY <2>1 DEF OwnersInv, Apart, Sent
  <2>4. ExitsOf(p) /\ exits'[p] = AnExit(TRUE, FALSE)
    BY <2>1 DEF ExitsOf, LifeType, OwnersType
  <2>5. exits'[p].all /\ ~exits'[p].awaited
    BY <2>4, AnExitIs
  <2>6. held' \ {p} = held \ {p}
    BY <2>1
  <2> QED
    BY <1>i, <2>1, <2>2, <2>3, <2>4, <2>5, <2>6, OwnersMoved
<1>14. ASSUME NEW p \in Positions, Recover(p) PROVE OwnersInv'
  <2>1. /\ p \in toRecover /\ toRecover' = toRecover \ {p}
        /\ UNCHANGED <<inserting, channel, held, exits, up>>
        /\ UNCHANGED watched \/ watched' = watched \cup {p}
        /\ UNCHANGED row \/ row' = WithStatus(p, "closed") \/ row' = WithStatus(p, "open")
    BY <1>14 DEF Recover, Wrote
  <2>2. up /\ row[p].status # "none" /\ p \notin inserting
    BY <2>1, SomeoneUp DEF OwnersInv, Parties, Status
  <2>3. p \notin watched \cup Sent \cup held \cup Exiting /\ UNCHANGED Sent
    BY <2>1 DEF OwnersInv, Apart, Sent
  <2>4. exits'[p] = Nothing /\ ExitsOf(p)
    BY <1>e, <2>1, <2>3 DEF Exiting
  <2>5. /\ \A q \in Positions : q # p => row'[q].status = row[q].status
        /\ row'[p].status # "none"
    BY <1>s, <2>1, <2>2, WrittenStatus
  <2>6. watched' \ {p} = watched \ {p} /\ toRecover' \ {p} = toRecover \ {p}
    BY <2>1
  <2> QED
    BY <1>i, <2>1, <2>2, <2>3, <2>4, <2>5, <2>6, OwnersMoved
<1>15. ASSUME Crash PROVE OwnersInv'
  <2>1. /\ inserting' = {} /\ watched' = {} /\ channel' = <<>> /\ held' = {}
        /\ writes' = {} /\ toRecover' = {} /\ toOrphan' = {}
    BY <1>15 DEF Crash
  <2>2. Exiting' = {} /\ Sent' = {} /\ IsInjective(channel')
    BY <1>15, <2>1, NoneSent DEF Crash, Exiting, Sent
  <2> QED
    BY <2>1, <2>2 DEF OwnersInv, Parties, Apart
<1>16. ASSUME Restart PROVE OwnersInv'
  <2>1. /\ inserting' = {} /\ watched' = {} /\ channel' = <<>> /\ held' = {} /\ up'
        /\ toRecover' \subseteq Stuck /\ UNCHANGED <<row, exits, channel>>
    BY <1>16 DEF Restart, OwnersInv, table, owners
  <2>2. Exiting' = {} /\ Sent' = {}
    BY <1>16, <2>1, NoneSent DEF Restart, OwnersInv, Exiting, Sent
  <2>3. \A p \in toRecover' : row'[p].status # "none"
    BY <2>1 DEF Stuck, Status
  <2> QED
    BY <1>i, <2>1, <2>2, <2>3 DEF OwnersInv, Parties, Apart, Status
<1>17. CASE UNCHANGED lifeVars
  BY <1>17, OwnersStay DEF lifeVars, table, owners, startup
<1> QED
  BY <1>1, <1>2, <1>3, <1>4, <1>6, <1>7, <1>8, <1>9, <1>10, <1>11, <1>12, <1>13,
     <1>14, <1>15, <1>16, <1>17 DEF LifeNext, LifeStep

-----------------------------------------------------------------------------
(* What is written, and in which order. *)

LEMMA WrittenInit == LifeInit => WrittenInv
  BY DEF LifeInit, WrittenInv, NoRow

\* A row is never unwritten, and only the tracker's second write makes a moonbag.
RowsStep ==
  \A q \in Positions :
     /\ row[q].status # "none" => row'[q].status # "none"
     /\ row'[q].status = "moonbag" => row[q].status = "moonbag" \/ <<"sync", q>> \in writes

LEMMA RowsOf ==
  ASSUME LifeType, NEW p \in Positions,
         NEW s \in {"open", "exit_failed", "closed"},
         UNCHANGED row \/ row' = WithStatus(p, s)
  PROVE  RowsStep
<1>1. s \in Statuses /\ s # "none" /\ s # "moonbag"
  BY DEF Statuses
<1> QED
  BY <1>1, WrittenStatus DEF RowsStep

LEMMA RowsNext ==
  ASSUME LifeType, LifeNext
  PROVE  RowsStep
<1>1. ASSUME NEW p \in Positions, LifeStep(p) PROVE RowsStep
  <2>1. CASE \/ Land(p) \/ Sell(p) \/ (\E all \in BOOLEAN : Trigger(p, all))
             \/ FailsForNow(p) \/ Promote(p) \/ InsertMoonbag(p) \/ TailExit(p)
             \/ ExitMoonbag(p)
    BY <2>1 DEF Land, Sell, Trigger, FailsForNow, Promote, InsertMoonbag, TailExit,
                ExitMoonbag, table, RowsStep
  <2>2. CASE InsertRow(p)
    BY <2>2, RowsOf DEF InsertRow
  <2>3. CASE FailsForGood(p) \/ CloseOrphan(p)
    BY <2>3, RowsOf DEF FailsForGood, CloseOrphan, Wrote
  <2>4. CASE Recover(p)
    BY <2>4, RowsOf DEF Recover, Wrote
  <2>5. CASE SyncRow(p)
    <3>1. <<"sync", p>> \in writes /\ (UNCHANGED row \/ row' = WithStatus(p, "moonbag"))
      BY <2>5 DEF SyncRow, Wrote
    <3>2. "moonbag" \in Statuses
      BY DEF Statuses
    <3> QED
      BY <3>1, <3>2, WrittenStatus DEF RowsStep
  <2>6. CASE Settle(p)
    <3> DEFINE after == [status |-> IF exits[p].all THEN "closed" ELSE "partial",
                         signed |-> TRUE, closed |-> row[p].closed \/ exits[p].all]
    <3>1. UNCHANGED row \/ row' = [row EXCEPT ![p] = after]
      BY <2>6 DEF Settle, Wrote
    <3>2. after.status # "none" /\ after.status # "moonbag"
      OBVIOUS
    <3> QED
      BY <3>1, <3>2 DEF RowsStep, LifeType, TableType
  <2> QED
    BY <1>1, <2>1, <2>2, <2>3, <2>4, <2>5, <2>6 DEF LifeStep
<1>2. ASSUME Receive \/ Crash \/ Restart PROVE RowsStep
  BY <1>2 DEF Receive, Crash, Restart, table, RowsStep
<1> QED
  BY <1>1, <1>2 DEF LifeNext

\* A step that leaves the rows of the moonbags and starts writes of rows only.
LEMMA WrittenKept ==
  ASSUME LifeType, WrittenInv, RowsStep, UNCHANGED mb,
         \A w \in writes' \ writes : w \in {"insert", "exit"} \X Positions
                                     /\ row'[w[2]].status # "none",
         \A p \in toOrphan' \ toOrphan : mb[p] # "none"
  PROVE  WrittenInv'
<1>1. \A w \in writes' : row'[w[2]].status # "none"
  <2> SUFFICES ASSUME NEW w \in writes, w \in writes' PROVE row'[w[2]].status # "none"
    OBVIOUS
  <2>1. w[2] \in Positions /\ row[w[2]].status # "none"
    BY DEF WrittenInv, LifeType
  <2> QED
    BY <2>1 DEF RowsStep
<1>2. \A p \in Positions : <<"sync", p>> \in writes' => <<"sync", p>> \in writes
  OBVIOUS
<1>3. \A p \in Positions : /\ mb'[p] # "none" => row'[p].status # "none"
                           /\ row'[p].status = "moonbag" => mb'[p] # "none"
                           /\ <<"sync", p>> \in writes' => mb'[p] # "none"
  BY <1>2 DEF WrittenInv, RowsStep
<1>4. \A p \in toOrphan' : mb'[p] # "none"
  BY DEF WrittenInv
<1> QED
  BY <1>1, <1>3, <1>4 DEF WrittenInv

LEMMA WrittenNext ==
  LifeType /\ OwnersInv /\ WrittenInv /\ [LifeNext]_lifeVars => WrittenInv'
<1> SUFFICES ASSUME LifeType, OwnersInv, WrittenInv, [LifeNext]_lifeVars
             PROVE  WrittenInv'
  OBVIOUS
<1>1. CASE UNCHANGED lifeVars
  BY <1>1 DEF lifeVars, table, startup, WrittenInv
<1> SUFFICES ASSUME LifeNext PROVE WrittenInv'
  BY <1>1
<1>2. RowsStep
  BY RowsNext
<1>3. ASSUME NEW p \in Positions,
             \/ Land(p) \/ InsertRow(p) \/ Sell(p) \/ Settle(p)
             \/ (\E all \in BOOLEAN : Trigger(p, all)) \/ FailsForNow(p)
             \/ FailsForGood(p) \/ Promote(p) \/ SyncRow(p) \/ Recover(p)
      PROVE  WrittenInv'
  <2>1. UNCHANGED <<mb, toOrphan>> /\ writes' \subseteq writes
    BY <1>3 DEF Land, InsertRow, Sell, Settle, Trigger, FailsForNow, FailsForGood,
                Promote, SyncRow, Recover, table, startup
  <2> QED
    BY <1>2, <2>1, WrittenKept
<1>4. ASSUME Receive PROVE WrittenInv'
  <2> DEFINE p == Head(channel)
  <2>1. /\ UNCHANGED <<row, mb, toOrphan>>
        /\ writes' \subseteq writes \cup {<<"insert", p>>} /\ channel # <<>>
    BY <1>4 DEF Receive, table, startup, Spawned
  <2>2. p \in Positions /\ p \in Sent
    BY <2>1, Taken DEF Sent, LifeType, OwnersType
  <2> HIDE DEF p
  <2>3. row[p].status # "none"
    BY <2>2 DEF OwnersInv, Parties, Status
  <2> QED
    BY <1>2, <2>1, <2>2, <2>3, WrittenKept
<1>5. ASSUME NEW p \in Positions, TailExit(p) PROVE WrittenInv'
  <2>1. /\ UNCHANGED <<row, mb, toOrphan>> /\ writes' = writes \cup {<<"exit", p>>}
        /\ p \in held
    BY <1>5 DEF TailExit, table, startup
  <2>2. row[p].status # "none"
    BY <2>1 DEF OwnersInv, Parties, Status
  <2> QED
    BY <1>2, <2>1, <2>2, WrittenKept
<1>6. ASSUME NEW p \in Positions, InsertMoonbag(p) PROVE WrittenInv'
  <2>1. /\ <<"insert", p>> \in writes /\ UNCHANGED <<row, toOrphan>>
        /\ \/ /\ mb' = [mb EXCEPT ![p] = "live"]
              /\ writes' = (writes \ {<<"insert", p>>}) \cup {<<"sync", p>>}
           \/ writes' = writes \ {<<"insert", p>>} /\ UNCHANGED mb
    BY <1>6 DEF InsertMoonbag, startup
  <2>2. row[p].status # "none"
    BY <2>1 DEF WrittenInv
  <2>3. mb \in [Positions -> {"none", "live", "exited"}]
    BY DEF LifeType, TableType
  <2>4. CASE writes' = writes \ {<<"insert", p>>} /\ UNCHANGED mb
    BY <1>2, <2>1, <2>4, WrittenKept
  <2>5. CASE /\ mb' = [mb EXCEPT ![p] = "live"]
             /\ writes' = (writes \ {<<"insert", p>>}) \cup {<<"sync", p>>}
    <3>1. \A q \in Positions : mb'[q] = IF q = p THEN "live" ELSE mb[q]
      BY <2>3, <2>5
    <3>2. \A w \in writes' : row'[w[2]].status # "none"
      BY <2>1, <2>2, <2>5 DEF WrittenInv
    <3>3. \A q \in Positions : <<"sync", q>> \in writes' => q = p \/ <<"sync", q>> \in writes
      BY <2>5
    <3>4. \A q \in toOrphan' : mb'[q] # "none"
      BY <2>1, <3>1 DEF WrittenInv, LifeType, StartType
    <3> QED
      BY <2>1, <2>2, <3>1, <3>2, <3>3, <3>4 DEF WrittenInv
  <2> QED
    BY <2>1, <2>4, <2>5
<1>7. ASSUME NEW p \in Positions, ExitMoonbag(p) \/ CloseOrphan(p) PROVE WrittenInv'
  <2>1. mb \in [Positions -> {"none", "live", "exited"}]
    BY DEF LifeType, TableType
  <2>2. /\ writes' \subseteq writes /\ toOrphan' \subseteq toOrphan
        /\ \A q \in Positions : mb'[q] # "none" <=> mb[q] # "none"
    BY <1>7, <2>1 DEF ExitMoonbag, CloseOrphan, startup, WrittenInv
  <2>3. \A w \in writes : w[2] \in Positions /\ row[w[2]].status # "none"
    BY DEF LifeType, WrittenInv
  <2>4. \A w \in writes' : row'[w[2]].status # "none"
    BY <1>2, <2>2, <2>3 DEF RowsStep
  <2>5. \A q \in toOrphan' : mb'[q] # "none"
    BY <2>2 DEF WrittenInv, LifeType, StartType
  <2>6. \A q \in Positions : /\ mb'[q] # "none" => row'[q].status # "none"
                             /\ row'[q].status = "moonbag" => mb'[q] # "none"
                             /\ <<"sync", q>> \in writes' => mb'[q] # "none"
    BY <1>2, <2>2 DEF WrittenInv, RowsStep
  <2> QED
    BY <2>4, <2>5, <2>6 DEF WrittenInv
<1>8. ASSUME Crash PROVE WrittenInv'
  <2>1. UNCHANGED mb /\ writes' = {} /\ toOrphan' = {}
    BY <1>8 DEF Crash, table
  <2> QED
    BY <1>2, <2>1, WrittenKept
<1>9. ASSUME Restart PROVE WrittenInv'
  <2>1. UNCHANGED <<mb, writes>> /\ \A p \in toOrphan' : mb[p] # "none"
    BY <1>9 DEF Restart, table
  <2> QED
    BY <1>2, <2>1, WrittenKept
<1> QED
  BY <1>3, <1>4, <1>5, <1>6, <1>7, <1>8, <1>9 DEF LifeNext, LifeStep

LifeInv == LifeType /\ OwnersInv /\ WrittenInv

LEMMA LifeInvHolds == LifeSpec => []LifeInv
<1>1. LifeInit => LifeInv
  BY TypeInit, OwnersInit, WrittenInit DEF LifeInv
<1>2. LifeInv /\ [LifeNext]_lifeVars => LifeInv'
  BY TypeNext, OwnersNext, WrittenNext DEF LifeInv
<1> QED
  BY <1>1, <1>2, PTL DEF LifeSpec

\* A position has one owner at a time: of the task that inserts its row, the
\* monitor, the channel, the tracker and an exit that nobody waits for, whatever
\* crashes, fails and restarts (monitoring/mod.rs, moonbag.rs, main.rs).
THEOREM OwnedOnce == LifeSpec => []OneOwner
<1>1. LifeInv => OneOwner
  <2> SUFFICES ASSUME LifeInv, NEW p \in Positions
               PROVE  /\ Cardinality({S \in {<<1, inserting>>, <<2, watched>>,
                                             <<3, ToSet(channel)>>, <<4, held>>,
                                             <<5, {q \in Exiting : ~exits[q].awaited}>>} :
                                        p \in S[2]}) <= 1
                      /\ IsInjective(channel)
    BY DEF OneOwner
  <2> DEFINE fired == {q \in Exiting : ~exits[q].awaited}
             all == {<<1, inserting>>, <<2, watched>>, <<3, Sent>>, <<4, held>>, <<5, fired>>}
             his == {S \in all : p \in S[2]}
  <2>1. p \in inserting => p \notin watched \cup Sent \cup held \cup Exiting
    BY DEF LifeInv, OwnersInv, Parties, Status
  <2>2. /\ p \in watched => p \notin Sent \cup held \cup fired
        /\ p \in Sent => p \notin held \cup fired
        /\ p \in held => p \notin fired
    BY DEF LifeInv, OwnersInv, Apart
  <2>3. fired \subseteq Exiting
    OBVIOUS
  <2> HIDE DEF fired
  <2>4. \A S, T \in his : S = T
    BY <2>1, <2>2, <2>3
  <2>5. his = {} \/ \E S : his = {S}
    <3> HIDE DEF his
    <3> QED
      BY <2>4
  <2> HIDE DEF his
  <2>6. Cardinality(his) <= 1
    BY <2>5, FS_EmptySet, FS_Singleton
  <2> QED
    BY <2>6 DEF his, fired, Sent, LifeInv, OwnersInv
<1> QED
  BY <1>1, LifeInvHolds, PTL

\* A row says moonbag only when the row of the moonbag is there, also when the
\* process ends between the two writes or one of them fails (moonbag.rs:519).
THEOREM MoonbagBacked == LifeSpec => []MoonbagRowBacked
<1>1. LifeInv => MoonbagRowBacked
  BY DEF LifeInv, WrittenInv, MoonbagRowBacked, Status
<1> QED
  BY <1>1, LifeInvHolds, PTL

-----------------------------------------------------------------------------
(* The tokens in the wallet. *)

\* Who is known to answer for tokens; between two processes also the rows that
\* the next one will look at.
Known ==
  Owned \cup toRecover \cup {p \in Positions : lost[p] # Nothing}
        \cup IF up THEN {} ELSE Stuck

\* What is claimed of a mint by those of S.
Claimed(S, m) == SumOver(claim, OfMint(S, m))

\* All of it has been sold before an exit of all is settled.
SoldOut ==
  \A p \in Exiting : exits[p].pc = "settle" /\ exits[p].all => claim[p] = 0

CoverInv == /\ SoldOut
            /\ \A m \in Mints : wallet[m] <= Claimed(Known, m)

LEMMA KnownIn == LifeType => Known \subseteq Positions
  BY SentIn DEF LifeType, OwnersType, StartType, Known, Owned, Exiting, Stuck, Sent

LEMMA FiniteOf ==
  ASSUME NEW S \in SUBSET Positions, NEW m
  PROVE  IsFiniteSet(OfMint(S, m)) /\ OfMint(S, m) \subseteq Positions
  BY LifecycleAssumption, FS_Subset DEF OfMint

LEMMA CoverInit == LifeInit => CoverInv
<1> SUFFICES ASSUME LifeInit PROVE CoverInv
  OBVIOUS
<1>1. Exiting = {}
  BY DEF LifeInit, Exiting
<1>2. LifeType /\ \A m \in Mints : wallet[m] = 0
  BY TypeInit DEF LifeInit
<1>3. \A m \in Mints : Claimed(Known, m) \in Nat
  <2> SUFFICES ASSUME NEW m \in Mints PROVE Claimed(Known, m) \in Nat
    OBVIOUS
  <2>1. IsFiniteSet(OfMint(Known, m)) /\ OfMint(Known, m) \subseteq Positions
    BY <1>2, KnownIn, FiniteOf
  <2> QED
    BY <1>2, <2>1, SumType DEF Claimed, LifeType
<1> QED
  BY <1>1, <1>2, <1>3 DEF CoverInv, SoldOut

\* Nothing leaves who still claims something, and nobody claims less.
LEMMA ClaimedGrows ==
  ASSUME NEW c \in [Positions -> Nat], NEW d \in [Positions -> Nat],
         NEW S \in SUBSET Positions, NEW T \in SUBSET Positions, NEW m,
         \A p \in OfMint(S, m) : c[p] = 0 \/ (p \in T /\ d[p] = c[p])
  PROVE  /\ SumOver(c, OfMint(S, m)) \in Nat /\ SumOver(d, OfMint(T, m)) \in Nat
         /\ SumOver(c, OfMint(S, m)) <= SumOver(d, OfMint(T, m))
<1> DEFINE A == OfMint(S, m)
           B == OfMint(T, m)
           I == {p \in A : c[p] # 0}
<1>1. /\ IsFiniteSet(A) /\ A \subseteq Positions /\ IsFiniteSet(B) /\ B \subseteq Positions
  BY FiniteOf
<1>2. IsFiniteSet(I) /\ I \in SUBSET A /\ I \in SUBSET B
  BY <1>1, FS_Subset DEF OfMint
<1>3. \A p \in I : c[p] = d[p]
  OBVIOUS
<1>4. \A p \in A \ I : c[p] = 0
  OBVIOUS
<1>5. (\A p \in A : c[p] \in Nat) /\ (\A p \in B : d[p] \in Nat)
  BY <1>1
<1> HIDE DEF A, B, I
<1>6. SumOver(c, I) = SumOver(c, A)
  BY <1>1, <1>2, <1>4, <1>5, SumWeighing
<1>7. SumOver(c, I) = SumOver(d, I)
  BY <1>2, <1>3, SumSame
<1>8. SumOver(d, I) <= SumOver(d, B)
  BY <1>1, <1>2, <1>5, SumSubset
<1>9. SumOver(c, A) \in Nat /\ SumOver(d, B) \in Nat
  BY <1>1, <1>5, SumType
<1> QED
  BY <1>6, <1>7, <1>8, <1>9 DEF A, B

LEMMA CoverKept ==
  ASSUME LifeType, LifeType', CoverInv, SoldOut', UNCHANGED wallet,
         \A p \in Known : claim[p] = 0 \/ (p \in Known' /\ claim'[p] = claim[p])
  PROVE  CoverInv'
<1>1. Known \in SUBSET Positions /\ Known' \in SUBSET Positions
  <2>1. (LifeType => Known \subseteq Positions)'
    BY KnownIn, PTL
  <2> QED
    BY <2>1, KnownIn
<1> SUFFICES ASSUME NEW m \in Mints
             PROVE  wallet[m] <= SumOver(claim', OfMint(Known', m))
  BY DEF CoverInv, Claimed
<1>2. /\ SumOver(claim, OfMint(Known, m)) \in Nat
      /\ SumOver(claim', OfMint(Known', m)) \in Nat
      /\ SumOver(claim, OfMint(Known, m)) <= SumOver(claim', OfMint(Known', m))
  <2>1. \A p \in OfMint(Known, m) :
           claim[p] = 0 \/ (p \in Known' /\ claim'[p] = claim[p])
    BY DEF OfMint
  <2> QED
    BY <1>1, <2>1, ClaimedGrows DEF LifeType
<1>3. wallet[m] \in Nat /\ wallet[m] <= SumOver(claim, OfMint(Known, m))
  BY DEF LifeType, TableType, CoverInv, Claimed
<1> QED
  BY <1>2, <1>3

\* Steps that leave the wallet and the claims, and settle nothing.
LEMMA CoverMoved ==
  ASSUME LifeType, LifeType', CoverInv, UNCHANGED <<wallet, claim>>,
         \A p \in Exiting' : \/ exits'[p].pc = "sell"
                             \/ p \in Exiting /\ exits'[p] = exits[p],
         \A p \in Known : claim[p] = 0 \/ p \in Known'
  PROVE  CoverInv'
<1>1. SoldOut'
  BY DEF CoverInv, SoldOut
<1> QED
  BY <1>1, CoverKept

\* An exit is over, and what p still claims is known of.
LEMMA CoverEnded ==
  ASSUME LifeType, LifeType', CoverInv, UNCHANGED <<wallet, claim>>, NEW p \in Exiting,
         exits' = [exits EXCEPT ![p] = Nothing], up, UNCHANGED up,
         UNCHANGED <<inserting, channel, held, toRecover>>,
         watched' \in {watched, watched \ {p}},
         \A q \in Positions : lost[q] # Nothing => lost'[q] # Nothing,
         claim[p] = 0 \/ lost'[p] # Nothing \/ p \in watched'
  PROVE  CoverInv'
<1>1. /\ p \in Positions /\ p \notin Exiting'
      /\ \A q \in Positions : q # p => exits'[q] = exits[q]
      /\ Exiting' = Exiting \ {p}
  BY DEF Exiting, LifeType, OwnersType
<1>2. UNCHANGED Sent /\ Sent = ToSet(channel)
  BY DEF Sent
<1>3. \A q \in Known : q # p => q \in Known'
  BY <1>1, <1>2 DEF Known, Owned
<1>4. claim[p] = 0 \/ p \in Known'
  BY <1>1 DEF Known, Owned
<1> QED
  BY <1>1, <1>3, <1>4, CoverMoved DEF Exiting

LEMMA LandCovers ==
  ASSUME LifeType, LifeType', OwnersInv, CoverInv, NEW p \in Positions, Land(p)
  PROVE  CoverInv'
<1> DEFINE n == MintOf[p]
<1>1. /\ up /\ row[p].status = "none" /\ lost[p] = Nothing /\ p \notin inserting
      /\ wallet' = [wallet EXCEPT ![n] = @ + Lot]
      /\ claim' = [claim EXCEPT ![p] = Lot] /\ inserting' = inserting \cup {p}
      /\ UNCHANGED <<row, watched, channel, held, exits, toRecover, up, lost>>
  BY DEF Land, Status, startup
<1>2. p \notin Parties
  BY <1>1 DEF OwnersInv, Status
<1>3. p \notin Known
  BY <1>1, <1>2 DEF Known, Owned, Parties, Sent
<1>4. UNCHANGED Exiting /\ Known' = Known \cup {p}
  BY <1>1 DEF Known, Owned, Exiting
<1>5. /\ claim'[p] = Lot /\ \A q \in Positions : q # p => claim'[q] = claim[q]
      /\ claim' \in [Positions -> Nat] /\ claim \in [Positions -> Nat]
  BY <1>1 DEF LifeType
<1>6. SoldOut'
  BY <1>1, <1>2, <1>4, <1>5 DEF CoverInv, SoldOut, Exiting, Parties
<1>7. Known \in SUBSET Positions
  BY KnownIn
<1> SUFFICES ASSUME NEW m \in Mints
             PROVE  wallet'[m] <= SumOver(claim', OfMint(Known', m))
  BY <1>6 DEF CoverInv, Claimed
<1> DEFINE A == OfMint(Known, m)
<1>8. /\ IsFiniteSet(A) /\ A \subseteq Positions /\ p \notin A
      /\ wallet[m] <= SumOver(claim, A) /\ wallet[m] \in Nat
  BY <1>3, <1>7, FiniteOf DEF OfMint, CoverInv, Claimed, LifeType, TableType
<1>9. SumOver(claim, A) = SumOver(claim', A) /\ SumOver(claim, A) \in Nat
  <2> HIDE DEF A
  <2> QED
    BY <1>5, <1>8, SumSame, SumType
<1>10. CASE m = n
  <2>1. OfMint(Known', m) = A \cup {p}
    BY <1>4, <1>10 DEF OfMint
  <2>2. SumOver(claim', A \cup {p}) = Lot + SumOver(claim', A)
    <3> HIDE DEF A
    <3> QED
      BY <1>5, <1>8, SumAdd
  <2>3. wallet'[m] = wallet[m] + Lot /\ Lot \in Nat
    BY <1>1, <1>10, LifecycleAssumption DEF LifeType, TableType
  <2> QED
    BY <1>8, <1>9, <2>1, <2>2, <2>3
<1>11. CASE m # n
  <2>1. OfMint(Known', m) = A
    BY <1>4, <1>11 DEF OfMint
  <2>2. wallet'[m] = wallet[m]
    BY <1>1, <1>11 DEF LifeType, TableType
  <2> QED
    BY <1>8, <1>9, <2>1, <2>2
<1> QED
  BY <1>10, <1>11

\* No more is sold of the wallet than of the claim, and what stays of the wallet
\* is covered by what stays of the claim or by what the others claim.
LEMMA SoldFits ==
  ASSUME NEW w \in Nat, NEW c \in Nat, NEW r \in Nat, w <= c + r, NEW all \in BOOLEAN
  PROVE  LET part(n) == IF all THEN n ELSE n \div 2
         IN  w - part(Least(c, w)) <= (c - part(c)) + r
<1>1. CASE c <= w
  <2>1. Least(c, w) = c
    BY <1>1 DEF Least
  <2>2. c \div 2 \in Nat
    OBVIOUS
  <2> QED
    BY <2>1, <2>2
<1>2. CASE ~(c <= w)
  <2>1. Least(c, w) = w
    BY <1>2 DEF Least
  <2>2. w - w \div 2 <= c - c \div 2 /\ w \div 2 \in Nat /\ c \div 2 \in Nat
    BY <1>2
  <2> QED
    BY <2>1, <2>2
<1> QED
  BY <1>1, <1>2

LEMMA SellCovers ==
  ASSUME LifeType, LifeType', CoverInv, NEW p \in Positions, Sell(p)
  PROVE  CoverInv'
<1> DEFINE n == MintOf[p]
           all == exits[p].all
           part(x) == IF all THEN x ELSE x \div 2
           amount == Least(claim[p], wallet[n])
           c == claim[p]
<1>1. /\ p \in Exiting /\ exits' = [exits EXCEPT ![p].pc = "settle"]
      /\ wallet' = [wallet EXCEPT ![n] = @ - part(amount)]
      /\ claim' = [claim EXCEPT ![p] = @ - part(@)]
      /\ UNCHANGED <<row, inserting, watched, channel, held, toRecover, up, lost>>
  BY DEF Sell, owners, startup
<1>2. exits[p] \in ExitStates /\ n \in Mints
  BY <1>1, LifecycleAssumption DEF Exiting, LifeType, OwnersType
<1>3. /\ exits'[p].all = all /\ exits'[p] # Nothing
      /\ \A q \in Positions : q # p => exits'[q] = exits[q]
  <2>1. exits'[p] \in ExitStates /\ exits'[p].all = all
    BY <1>1, <1>2 DEF LifeType, OwnersType, ExitStates
  <2> QED
    BY <1>1, <2>1, LifecycleAssumption DEF LifeType, OwnersType
<1>4. Exiting' = Exiting
  BY <1>1, <1>3 DEF Exiting
<1>5. Known' = Known
  BY <1>1, <1>4 DEF Known, Owned, Stuck, Status
<1>6. /\ claim'[p] = c - part(c) /\ \A q \in Positions : q # p => claim'[q] = claim[q]
      /\ claim' \in [Positions -> Nat] /\ claim \in [Positions -> Nat]
  BY <1>1 DEF LifeType
<1>7. SoldOut'
  BY <1>3, <1>4, <1>6 DEF CoverInv, SoldOut, Exiting
<1>8. Known \in SUBSET Positions /\ p \in Known
  BY <1>1, KnownIn DEF Known, Owned
<1> SUFFICES ASSUME NEW m \in Mints
             PROVE  wallet'[m] <= SumOver(claim', OfMint(Known, m))
  BY <1>5, <1>7 DEF CoverInv, Claimed
<1> DEFINE A == OfMint(Known, m)
<1>9. /\ IsFiniteSet(A) /\ A \subseteq Positions /\ (p \in A <=> m = n)
      /\ wallet[m] <= SumOver(claim, A) /\ wallet[m] \in Nat
  BY <1>8, FiniteOf DEF OfMint, CoverInv, Claimed, LifeType, TableType
<1> HIDE DEF A
<1>10. CASE m = n
  <2> DEFINE r == SumOver(claim, A \ {p})
  <2>1. SumOver(claim, A) = c + r /\ r \in Nat
    <3>1. IsFiniteSet(A \ {p}) /\ p \in A
      BY <1>9, <1>10, FS_Subset
    <3> QED
      BY <1>6, <1>9, <3>1, SumTakeOut, SumType
  <2>2. SumOver(claim', A) = (c - part(c)) + r
    <3>1. IsFiniteSet(A \ {p}) /\ p \in A
      BY <1>9, <1>10, FS_Subset
    <3>2. SumOver(claim', A) = claim'[p] + SumOver(claim', A \ {p})
      BY <1>6, <1>9, <3>1, SumTakeOut
    <3>3. SumOver(claim', A \ {p}) = r
      BY <1>6, <1>9, <3>1, SumSame
    <3> QED
      BY <1>6, <3>2, <3>3
  <2>3. wallet'[m] = wallet[m] - part(amount)
    BY <1>1, <1>10 DEF LifeType, TableType
  <2>4. c \in Nat /\ all \in BOOLEAN
    BY <1>2, <1>6 DEF ExitStates
  <2> HIDE DEF r, c, all
  <2>5. wallet[m] - part(Least(c, wallet[m])) <= (c - part(c)) + r
    BY <1>9, <2>1, <2>4, SoldFits
  <2>6. amount = Least(c, wallet[m])
    BY <1>10 DEF c
  <2> QED
    BY <2>2, <2>3, <2>5, <2>6 DEF A
<1>11. CASE m # n
  <2>1. wallet'[m] = wallet[m]
    BY <1>1, <1>11 DEF LifeType, TableType
  <2>2. SumOver(claim', A) = SumOver(claim, A)
    BY <1>6, <1>9, <1>11, SumSame
  <2> QED
    BY <1>9, <2>1, <2>2 DEF A
<1> QED
  BY <1>10, <1>11

LEMMA RecoverCovers ==
  ASSUME LifeType, LifeType', OwnersInv, CoverInv, NEW p \in Positions, Recover(p)
  PROVE  CoverInv'
<1> DEFINE n == MintOf[p]
<1>1. PICK balance \in Balances(p) :
        /\ toRecover' = toRecover \ {p}
        /\ IF balance = 0
           THEN /\ Wrote(WithStatus(p, "closed"))
                /\ lost' = [lost EXCEPT ![p] = IF wallet[n] > 0 THEN "unread" ELSE @]
                /\ UNCHANGED <<watched, claim>>
           ELSE /\ Wrote(WithStatus(p, "open"))
                /\ watched' = watched \cup {p}
                /\ claim' = [claim EXCEPT ![p] = balance]
                /\ UNCHANGED lost
  BY Zenon DEF Recover
<1>2. p \in toRecover /\ UNCHANGED <<wallet, inserting, channel, held, exits, up>>
  BY DEF Recover
<1>3. up /\ p \notin Exiting
  BY <1>2, SomeoneUp DEF OwnersInv, Apart
<1>4. UNCHANGED Exiting
  BY <1>2 DEF Exiting
<1>5. balance = wallet[n] \/ balance = 0
  BY DEF Balances
<1>6. (\A q \in Positions : q # p => claim'[q] = claim[q]) /\ claim' \in [Positions -> Nat]
  BY <1>1 DEF LifeType
<1>7. SoldOut'
  BY <1>2, <1>3, <1>4, <1>6 DEF CoverInv, SoldOut, Exiting
<1>8. \A q \in Known : q # p => q \in Known'
  <2>1. \A q \in Positions : q # p => (lost[q] # Nothing => lost'[q] # Nothing)
    BY <1>1 DEF LifeType, StartType
  <2> QED
    BY <1>1, <1>2, <1>3, <1>4, <2>1 DEF Known, Owned
<1>9. n \in Mints /\ wallet \in [Mints -> Nat]
  BY LifecycleAssumption DEF LifeType, TableType
<1>10. CASE balance = 0 /\ wallet[n] > 0
  <2>1. lost'[p] = "unread" /\ UNCHANGED claim
    BY <1>1, <1>10 DEF LifeType, StartType
  <2>2. p \in Known'
    BY <2>1, LifecycleAssumption DEF Known, Reasons
  <2> QED
    BY <1>2, <1>7, <1>8, <2>1, <2>2, CoverKept
<1>11. CASE ~(balance = 0 /\ wallet[n] > 0)
  <2>1. Known \in SUBSET Positions /\ Known' \in SUBSET Positions
    <3>1. (LifeType => Known \subseteq Positions)'
      BY KnownIn, PTL
    <3> QED
      BY <3>1, KnownIn
  <2> SUFFICES ASSUME NEW m \in Mints
               PROVE  wallet[m] <= SumOver(claim', OfMint(Known', m))
    BY <1>2, <1>7 DEF CoverInv, Claimed
  <2> DEFINE A == OfMint(Known', m)
  <2>2. IsFiniteSet(A) /\ A \subseteq Positions
    BY <2>1, FiniteOf
  <2>3. CASE m # n
    <3>1. \A q \in OfMint(Known, m) : q \in Known' /\ claim'[q] = claim[q]
      BY <1>6, <1>8, <2>1, <2>3 DEF OfMint
    <3>2. SumOver(claim, OfMint(Known, m)) <= SumOver(claim', A)
      BY <1>6, <2>1, <3>1, ClaimedGrows DEF LifeType
    <3>3. wallet[m] <= SumOver(claim, OfMint(Known, m))
      BY DEF CoverInv, Claimed
    <3>4. SumOver(claim, OfMint(Known, m)) \in Nat /\ SumOver(claim', A) \in Nat
      BY <1>6, <2>1, <3>1, ClaimedGrows DEF LifeType
    <3> QED
      BY <1>9, <3>2, <3>3, <3>4
  <2>4. CASE m = n /\ wallet[n] = 0
    <3> HIDE DEF A
    <3>1. SumOver(claim', A) \in Nat
      BY <1>6, <2>2, SumType
    <3> QED
      BY <2>4, <3>1 DEF A
  <2>5. CASE m = n /\ wallet[n] # 0
    <3>1. balance = wallet[n] /\ balance # 0
      BY <1>5, <1>9, <1>11, <2>5
    <3>2. p \in watched' /\ claim'[p] = wallet[n]
      BY <1>1, <3>1 DEF LifeType
    <3>3. p \in A
      BY <2>5, <3>2 DEF OfMint, Known, Owned
    <3> HIDE DEF A
    <3>4. SumOver(claim', A) = claim'[p] + SumOver(claim', A \ {p})
      BY <1>6, <2>2, <3>3, SumTakeOut
    <3>5. SumOver(claim', A \ {p}) \in Nat
      <4>1. IsFiniteSet(A \ {p})
        BY <2>2, FS_Subset
      <4> QED
        BY <1>6, <2>2, <4>1, SumType
    <3> QED
      BY <1>9, <2>5, <3>2, <3>4, <3>5 DEF A
  <2> QED
    BY <1>9, <2>3, <2>4, <2>5
<1> QED
  BY <1>10, <1>11

LEMMA CrashCovers ==
  ASSUME LifeType, LifeType', OwnersInv, CoverInv, Crash
  PROVE  CoverInv'
<1>1. /\ up /\ ~up' /\ lost' = [p \in Positions |-> LeftBehind(p)]
      /\ exits' = [p \in Positions |-> Nothing] /\ UNCHANGED <<row, wallet, claim>>
  BY DEF Crash, table
<1>2. Exiting' = {}
  BY <1>1 DEF Exiting
<1>3. ASSUME NEW p \in Known, claim[p] # 0 PROVE p \in Known'
  <2>1. p \in Positions
    BY KnownIn
  <2>2. CASE p \notin Owned \cup toRecover
    <3>1. lost[p] # Nothing /\ lost'[p] = lost[p]
      BY <1>1, <2>1, <2>2 DEF Known, LeftBehind
    <3> QED
      BY <2>1, <3>1 DEF Known
  <2>3. CASE p \in Owned \cup toRecover
    <3>1. lost'[p] = CASE Status(p) = "none" -> "no_row"
                       [] Status(p) \in {"partial", "moonbag", "closed"} -> Status(p)
                       [] OTHER -> Nothing
      BY <1>1, <1>3, <2>1, <2>3 DEF LeftBehind
    <3>2. Status(p) \in Statuses
      BY <2>1 DEF LifeType, TableType, Rows, Status
    <3>3. \/ Status(p) \in {"open", "exit_failed"}
          \/ lost'[p] \in {"no_row", "partial", "moonbag", "closed"}
      BY <3>1, <3>2 DEF Statuses
    <3>4. CASE Status(p) \in {"open", "exit_failed"}
      BY <1>1, <2>1, <3>4 DEF Known, Stuck, Status
    <3>5. CASE lost'[p] \in {"no_row", "partial", "moonbag", "closed"}
      <4>1. lost'[p] # Nothing
        BY <3>5, LifecycleAssumption DEF Reasons
      <4> QED
        BY <2>1, <4>1 DEF Known
    <3> QED
      BY <3>3, <3>4, <3>5
  <2> QED
    BY <2>2, <2>3
<1> QED
  BY <1>1, <1>2, <1>3, CoverMoved

LEMMA RestartCovers ==
  ASSUME LifeType, LifeType', OwnersInv, CoverInv, Restart
  PROVE  CoverInv'
<1>1. /\ ~up /\ up' /\ UNCHANGED <<row, wallet, claim, exits>>
      /\ \/ /\ toRecover' = Stuck
            /\ lost' = [p \in Positions |->
                         IF Status(p) \in {"open", "exit_failed"} THEN Nothing ELSE lost[p]]
         \/ lost' = [p \in Positions |->
                      IF Status(p) \in {"open", "exit_failed"} THEN "query" ELSE lost[p]]
  BY DEF Restart, table
<1>2. Known = {p \in Positions : lost[p] # Nothing} \cup Stuck
  BY <1>1, NoneSent DEF OwnersInv, Known, Owned
<1>3. "query" # Nothing
  BY LifecycleAssumption DEF Reasons
<1>4. \A p \in Known : p \in Known'
  BY <1>1, <1>2, <1>3 DEF Known, Stuck
<1> QED
  BY <1>1, <1>4, CoverMoved DEF Exiting

LEMMA CoverNext ==
  LifeInv /\ LifeType' /\ CoverInv /\ [LifeNext]_lifeVars => CoverInv'
<1> SUFFICES ASSUME LifeType, OwnersInv, LifeType', CoverInv, [LifeNext]_lifeVars
             PROVE  CoverInv'
  BY DEF LifeInv
<1>n. \A r \in Reasons : r # Nothing
  BY LifecycleAssumption
<1> DEFINE Quiet == UNCHANGED <<wallet, claim, inserting, exits, watched, toRecover, up>>
<1>q. ASSUME Quiet,
             \A p \in Positions : lost[p] # Nothing => lost'[p] # Nothing,
             ToSet(channel) \cup held \subseteq
               ToSet(channel') \cup held' \cup {p \in Positions : lost'[p] # Nothing},
             up \/ UNCHANGED row
      PROVE  CoverInv'
  <2>1. UNCHANGED Exiting
    BY <1>q DEF Exiting
  <2>2. Known \subseteq Known'
    BY <1>q, <2>1 DEF Known, Owned, Stuck, Status
  <2> QED
    BY <1>q, <2>1, <2>2, CoverMoved
<1>1. ASSUME NEW p \in Positions, InsertRow(p) PROVE CoverInv'
  <2>1. /\ p \in inserting /\ inserting' = inserting \ {p} /\ up
        /\ UNCHANGED <<wallet, claim, channel, held, exits, toRecover, up>>
        /\ \/ watched' = watched \cup {p} /\ UNCHANGED lost
           \/ UNCHANGED watched /\ lost' = [lost EXCEPT ![p] = "no_row"]
    BY <1>1, SomeoneUp DEF InsertRow, startup
  <2>2. UNCHANGED Exiting
    BY <2>1 DEF Exiting
  <2>3. "no_row" # Nothing
    BY <1>n DEF Reasons
  <2>4. \A q \in Known : q \in Known'
    BY <2>1, <2>2, <2>3 DEF Known, Owned, LifeType, StartType
  <2> QED
    BY <2>1, <2>2, <2>4, CoverMoved
<1>2. ASSUME NEW p \in Positions, NEW all \in BOOLEAN, Trigger(p, all) PROVE CoverInv'
  <2>1. /\ p \in watched \ Exiting /\ up
        /\ UNCHANGED <<wallet, claim, inserting, channel, held, toRecover, up, lost>>
        /\ \E a, b \in BOOLEAN : exits' = [exits EXCEPT ![p] = AnExit(a, b)]
        /\ watched' \in {watched, watched \ {p}}
    BY <1>2, SomeoneUp DEF Trigger, table, startup
  <2>2. /\ exits'[p] # Nothing /\ exits'[p].pc = "sell"
        /\ \A q \in Positions : q # p => exits'[q] = exits[q]
    BY <2>1, AnExitIs DEF AnExit, LifeType, OwnersType
  <2>3. Exiting' = Exiting \cup {p}
    BY <2>2 DEF Exiting
  <2>4. \A q \in Known : q \in Known'
    BY <2>1, <2>3 DEF Known, Owned
  <2> QED
    BY <2>1, <2>2, <2>3, <2>4, CoverMoved DEF Exiting
<1>3. ASSUME NEW p \in Positions, Settle(p) PROVE CoverInv'
  <2>1. /\ p \in Exiting /\ exits[p].pc = "settle" /\ exits' = [exits EXCEPT ![p] = Nothing]
        /\ UNCHANGED <<wallet, claim, inserting, channel, held, toRecover, up, lost>>
        /\ watched' = IF exits[p].all THEN watched \ {p} ELSE watched
    BY <1>3 DEF Settle, startup
  <2>2. up
    BY <2>1, SomeoneUp
  <2>3. claim[p] = 0 \/ p \in watched'
    BY <2>1 DEF CoverInv, SoldOut, OwnersInv, Apart
  <2> QED
    BY <2>1, <2>2, <2>3, CoverEnded
<1>4. ASSUME NEW p \in Positions, FailsForNow(p) PROVE CoverInv'
  <2>1. /\ p \in Exiting /\ exits' = [exits EXCEPT ![p] = Nothing]
        /\ UNCHANGED <<wallet, claim, inserting, watched, channel, held, toRecover, up>>
        /\ lost' = IF exits[p].awaited THEN lost ELSE [lost EXCEPT ![p] = "not_retried"]
    BY <1>4 DEF FailsForNow, table, owners, startup
  <2>2. up /\ "not_retried" # Nothing
    BY <1>n, <2>1, SomeoneUp DEF Reasons
  <2>3. lost'[p] # Nothing \/ p \in watched'
    BY <2>1, <2>2 DEF OwnersInv, Apart, LifeType, StartType
  <2>4. \A q \in Positions : lost[q] # Nothing => lost'[q] # Nothing
    BY <2>1, <2>2 DEF LifeType, StartType
  <2> QED
    BY <2>1, <2>2, <2>3, <2>4, CoverEnded
<1>5. ASSUME NEW p \in Positions, FailsForGood(p) PROVE CoverInv'
  <2>1. /\ p \in Exiting /\ exits' = [exits EXCEPT ![p] = Nothing]
        /\ UNCHANGED <<wallet, claim, inserting, channel, held, toRecover, up>>
        /\ watched' \in {watched, watched \ {p}}
        /\ lost' = [lost EXCEPT ![p] = "given_up"]
    BY <1>5 DEF FailsForGood, startup
  <2>2. up /\ "given_up" # Nothing
    BY <1>n, <2>1, SomeoneUp DEF Reasons
  <2>3. \A q \in Positions : (lost[q] # Nothing => lost'[q] # Nothing) /\ lost'[p] # Nothing
    BY <2>1, <2>2 DEF LifeType, StartType
  <2> QED
    BY <2>1, <2>2, <2>3, CoverEnded
<1>6. ASSUME NEW p \in Positions, Promote(p) PROVE CoverInv'
  <2>1. /\ p \in watched /\ channel' = Append(channel, p) /\ watched' = watched \ {p}
        /\ UNCHANGED <<wallet, claim, inserting, held, exits, toRecover, up, lost>>
    BY <1>6 DEF Promote, table, startup
  <2>2. up /\ ToSet(channel') = ToSet(channel) \cup {p} /\ UNCHANGED Exiting
    BY <2>1, SomeoneUp, Appended DEF Exiting, LifeType, OwnersType
  <2>3. \A q \in Known : q \in Known'
    BY <2>1, <2>2 DEF Known, Owned
  <2> QED
    BY <2>1, <2>2, <2>3, CoverMoved
<1>7. ASSUME Receive PROVE CoverInv'
  <2> DEFINE p == Head(channel)
  <2>1. /\ channel # <<>> /\ channel' = Tail(channel) /\ Quiet
        /\ \/ lost' = [lost EXCEPT ![p] = "refused"] /\ UNCHANGED held
           \/ held' = held \cup {p} /\ UNCHANGED lost
    BY <1>7 DEF Receive, table, startup
  <2>2. /\ p \in Positions /\ "refused" # Nothing /\ up
        /\ ToSet(channel') = ToSet(channel) \ {p}
    BY <1>n, <2>1, Taken, SomeoneUp DEF LifeType, OwnersType, OwnersInv, Reasons
  <2> HIDE DEF p
  <2>3. \A q \in Positions : lost[q] # Nothing => lost'[q] # Nothing
    BY <2>1, <2>2 DEF LifeType, StartType
  <2>4. p \in held' \/ lost'[p] # Nothing
    BY <2>1, <2>2 DEF LifeType, StartType
  <2>5. ToSet(channel) \cup held \subseteq
          ToSet(channel') \cup held' \cup {q \in Positions : lost'[q] # Nothing}
    BY <2>1, <2>2, <2>4
  <2> QED
    BY <1>q, <2>1, <2>2, <2>3, <2>5
<1>8. ASSUME NEW p \in Positions,
             InsertMoonbag(p) \/ SyncRow(p) \/ ExitMoonbag(p) \/ CloseOrphan(p)
      PROVE  CoverInv'
  <2>1. Quiet /\ UNCHANGED <<channel, held, lost>>
    BY <1>8 DEF InsertMoonbag, SyncRow, ExitMoonbag, CloseOrphan, owners, startup
  <2>2. up
    BY <1>8 DEF InsertMoonbag, SyncRow, ExitMoonbag, CloseOrphan, OwnersInv
  <2> QED
    BY <1>q, <2>1, <2>2
<1>9. ASSUME NEW p \in Positions, TailExit(p) PROVE CoverInv'
  <2>1. /\ p \in held /\ held' = held \ {p}
        /\ exits' = [exits EXCEPT ![p] = AnExit(TRUE, FALSE)]
        /\ UNCHANGED <<wallet, claim, inserting, watched, channel, toRecover, up, lost>>
    BY <1>9 DEF TailExit, table, startup
  <2>2. /\ exits'[p] # Nothing /\ exits'[p].pc = "sell" /\ up
        /\ \A q \in Positions : q # p => exits'[q] = exits[q]
    BY <2>1, AnExitIs, SomeoneUp DEF AnExit, LifeType, OwnersType
  <2>3. Exiting' = Exiting \cup {p}
    BY <2>2 DEF Exiting
  <2>4. \A q \in Known : q \in Known'
    BY <2>1, <2>2, <2>3 DEF Known, Owned
  <2> QED
    BY <2>1, <2>2, <2>3, <2>4, CoverMoved DEF Exiting
<1>10. CASE UNCHANGED lifeVars
  BY <1>10, <1>q DEF lifeVars, table, owners, startup
<1> QED
  BY <1>1, <1>2, <1>3, <1>4, <1>5, <1>6, <1>7, <1>8, <1>9, <1>10, LandCovers, SellCovers,
     RecoverCovers, CrashCovers, RestartCovers DEF LifeNext, LifeStep

\* No token is left that nobody accounts for, whatever crashes, fails and
\* restarts: owners, rows to recover and what is known to be lost claim at least
\* what the wallet holds of each mint (main.rs:336, execution/state.rs:76).
THEOREM TokensCovered == LifeSpec => []WalletCovered
<1>1. LifeInit => LifeInv /\ CoverInv
  BY TypeInit, OwnersInit, WrittenInit, CoverInit DEF LifeInv
<1>2. LifeInv /\ CoverInv /\ [LifeNext]_lifeVars => (LifeInv /\ CoverInv)'
  BY TypeNext, OwnersNext, WrittenNext, CoverNext DEF LifeInv
<1>3. CoverInv => WalletCovered
  <2> SUFFICES ASSUME CoverInv, NEW m \in Mints, up
               PROVE  wallet[m] <= SumOver(claim, OfMint(Owned \cup toRecover
                                       \cup {p \in Positions : lost[p] # Nothing}, m))
    BY DEF WalletCovered, SumOver
  <2>1. Known = Owned \cup toRecover \cup {p \in Positions : lost[p] # Nothing}
    BY DEF Known
  <2> QED
    BY <2>1 DEF CoverInv, Claimed
<1> QED
  BY <1>1, <1>2, <1>3, PTL DEF LifeSpec
=============================================================================
