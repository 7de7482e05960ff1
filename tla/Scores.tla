------------------------------- MODULE Scores -------------------------------
(***************************************************************************)
(* The scores that decide what a token, a wallet or a flow is worth: pure  *)
(* functions of detection/types.rs, detection/pumpfun_ws.rs and            *)
(* monitoring/wallet_graph.rs.  The code computes them as f64; here they   *)
(* are integers, in points (BcScore and the flow scores, which only add    *)
(* whole points) or in thousandths of a point (the weighted sums).         *)
(* SOL amounts are in hundredths, ages in seconds.                         *)
(***************************************************************************)
EXTENDS Integers, Sequences, FiniteSets

Clamped(x, low, high) == IF x < low THEN low ELSE IF x > high THEN high ELSE x

\* The points of the first band that x reaches; bands are <<from, points>>,
\* the highest first, and the last one has no lower end.
Band(x, bands, otherwise) ==
  LET reached == {i \in 1..Len(bands) : x >= bands[i][1]}
  IN  IF reached = {} THEN otherwise
      ELSE bands[CHOOSE i \in reached : \A j \in reached : i <= j][2]

-----------------------------------------------------------------------------
\* compute_bc_score.  The ratio of buys to sells is compared crosswise; with
\* no sells it is the number of buys.
BcScore(buyers, buys, sells, rebuy, whale) ==
  LET per == IF sells > 0 THEN sells ELSE 1
      ratio == IF buys >= 4 * per THEN 15
               ELSE IF 2 * buys >= 5 * per THEN 8
               ELSE IF 2 * buys >= 3 * per THEN 3
               ELSE IF buys < per THEN -15 ELSE 0
      crowd == Band(-buyers, <<<<-25, 8>>, <<-40, 0>>, <<-60, -5>>>>, -12)
      busy == IF buys <= 30 THEN 5 ELSE IF buys >= 60 THEN -8 ELSE 0
  IN  Clamped(50 - (IF rebuy THEN 30 ELSE 0) + ratio + crowd
                 + (IF whale THEN 15 ELSE 0) + busy, 0, 100)

\* score_first_minute_flow.
FirstMinuteScore(age, buys, sells, buyers, volume, largest, pressure) ==
  LET points == Band(-age, <<<<-10, 25>>, <<-20, 20>>, <<-45, 12>>>>, 5)
                + Band(buys, <<<<40, 20>>, <<25, 15>>, <<15, 10>>>>, 5)
                + Band(buyers, <<<<25, 20>>, <<15, 15>>, <<10, 10>>>>, 5)
                + Band(volume, <<<<2500, 20>>, <<1500, 15>>, <<1000, 10>>>>, 5)
                + Band(largest, <<<<300, 10>>, <<150, 7>>>>, 4)
                + Band(pressure, <<<<90, 8>>, <<80, 5>>>>, 2)
                + (IF sells = 0 THEN 5 ELSE IF 4 * sells <= buys THEN 2 ELSE 0)
  IN  IF points > 100 THEN 100 ELSE points

\* score_flow_snapshot; -1 when nothing was traded.
FlowScore(age, buys, sells, buyers, volume, largest, pressure) ==
  IF buys = 0 /\ sells = 0 THEN -1
  ELSE Clamped(Band(-age, <<<<-30, 20>>, <<-90, 14>>, <<-300, 8>>>>, 3)
               + Band(buys, <<<<30, 18>>, <<15, 12>>, <<5, 6>>>>, 2)
               + Band(buyers, <<<<20, 18>>, <<10, 12>>, <<4, 6>>>>, 2)
               + Band(volume, <<<<2000, 18>>, <<800, 12>>, <<200, 6>>>>, 2)
               + Band(largest, <<<<300, 9>>, <<100, 6>>>>, 2)
               + Band(pressure, <<<<85, 9>>, <<70, 5>>>>, 0)
               + (IF sells = 0 THEN 8 ELSE 0), 0, 100)

-----------------------------------------------------------------------------
\* score_funding_edge, in thousandths.
FundingScore(parentScore, childPast, amount) ==
  Clamped(Clamped(450 * parentScore, 0, 45000)
          + Band(-childPast, <<<<0, 28000>>, <<-1, 23000>>, <<-3, 16000>>>>, 0)
          + Band(amount, <<<<500, 18000>>, <<100, 13000>>, <<25, 8000>>>>, 4000),
          0, 100000)

\* score_wallet_graph; -1 stands for a score that is not there.
GraphScore(parentScore, edgeScore, flowScore, bonus) ==
  Clamped(350 * parentScore
          + 350 * (IF edgeScore = -1 THEN 45 ELSE edgeScore)
          + 200 * (IF flowScore = -1 THEN 35 ELSE flowScore)
          + 1000 * bonus, 0, 100000)

\* score_convergence_signal.
ConvergenceScore(parents, children, bought, parentScore, edgeScore, progress, reason) ==
  Clamped(450 * (IF parentScore = -1 THEN 60 ELSE parentScore)
          + Band(parents, <<<<4, 42000>>, <<3, 34000>>, <<2, 24000>>, <<1, 8000>>>>, 0)
          + Band(children, <<<<3, 40000>>, <<2, 30000>>, <<1, 16000>>>>, 0)
          + Clamped(80 * bought, 0, 14000)
          + 120 * (IF edgeScore = -1 THEN 0 ELSE edgeScore)
          + 50 * (IF progress = -1 THEN 0 ELSE progress)
          + (CASE reason = "PARENT_CHILD_SAME_MINT" -> 10000
               [] reason = "MULTI_CHILD_SAME_MINT" -> 14000
               [] reason = "TWO_PARENTS_SAME_MINT" -> 8000
               [] OTHER -> 0), 0, 100000)

\* sell_through_pct, at most 200, rounded down to a whole percentage.
SellThrough(bought, sold) ==
  IF bought <= 0 THEN 0
  ELSE Clamped((100 * (IF sold > 0 THEN sold ELSE 0)) \div bought, 0, 200)

\* classify_retention_snapshot.
RetentionLabel(checkpoint, through, added) ==
  IF through >= 75 THEN "DUMPED_FAST"
  ELSE IF added >= 2 THEN "ADDED_AFTER_SIGNAL"
  ELSE IF through > 25 THEN "PARTIAL_EXIT"
  ELSE IF checkpoint <= 300 THEN "HELD_5M" ELSE "HELD_10M"

\* score_retention_snapshot, in thousandths; retained is of total wallets.
RetentionScore(parents, children, total, retained, through, added, progress, checkpoint) ==
  Clamped(28000
          + (IF total = 0 THEN 0 ELSE (30000 * retained) \div total)
          + 220 * (100 - (IF through > 100 THEN 100 ELSE through))
          + Clamped(120 * added, 0, 12000)
          + Band(parents, <<<<3, 15000>>, <<2, 11000>>, <<1, 5000>>>>, 0)
          + Band(children, <<<<2, 12000>>, <<1, 7000>>>>, 0)
          + 50 * (IF progress = -1 THEN 0 ELSE progress)
          + (IF checkpoint >= 600 THEN 5000 ELSE 0)
          - (IF through >= 75 THEN 35000 ELSE 0), 0, 100000)

-----------------------------------------------------------------------------
\* compute_buy_velocity: two fingers over the times of the buys, oldest
\* first.  start[i] is where the window that ends at i begins.
WindowStart(times, window) ==
  LET start[i \in 1..Len(times)] ==
        LET from == IF i = 1 THEN 1 ELSE start[i - 1]
            inside == {j \in from..i : times[i] - times[j] <= window}
        IN  CHOOSE j \in inside : \A k \in inside : j <= k
  IN  start

BuyVelocity(times, window) ==
  LET counts == {i - WindowStart(times, window)[i] + 1 : i \in 1..Len(times)}
  IN  IF times = <<>> THEN 0 ELSE CHOOSE c \in counts : \A d \in counts : d <= c

\* detect_sell_buy_flip over a log of TRUE (buy) and FALSE (sell).
SellBuyFlip(log, shortest) ==
  LET mid == Len(log) \div 2
      buys(from, to) == Cardinality({i \in from..to : log[i]})
      sells(from, to) == Cardinality({i \in from..to : ~log[i]})
  IN  /\ Len(log) >= shortest
      /\ sells(1, mid) > buys(1, mid)
      /\ buys(mid + 1, Len(log)) > 2 * sells(mid + 1, Len(log))
=============================================================================
