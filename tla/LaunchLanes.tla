---------------------------- MODULE LaunchLanes ----------------------------
(***************************************************************************)
(* What the detection socket derives from one watched token                *)
(* (detection/pumpfun_ws.rs): the repeat signal of its label, and the      *)
(* paper-trade lanes it fires, each at most once, as its bonding curve     *)
(* fills.  Pure operators over an entry of the watchlist.                  *)
(*                                                                         *)
(* Every trade is of one unit, so the volume is the number of trades and   *)
(* no buy is a whale's.                                                    *)
(***************************************************************************)
EXTENDS Scores

CONSTANTS
  None,
  LabelWindow,    \* RECENT_LABEL_WINDOW_MS
  MaxLabels,      \* MAX_LABEL_CACHE_SIZE
  MaxLog,         \* MAX_TRADE_LOG_SIZE
  FlowAge,        \* FLOW_SHADOW_MAX_AGE_MS
  FlowBuys,       \* FLOW_SHADOW_MIN_BUY_COUNT, and the other least counts
  LaunchAge,      \* launch_label_shadow_max_age_seconds
  LaunchProgress, \* launch_label_shadow_max_progress_pct
  MaxGap,         \* launch_label_ and label_flow_shadow_max_gap_seconds
  FlowProgress,   \* label_flow_shadow_min_progress_pct
  ProbeAt, AddAt, \* probe_add_probe_ and _add_progress_pct
  MoreBuyers,     \* probe_add_min_unique_buyer_delta
  MinPressure,    \* min_buy_pressure_pct
  MinScore,       \* bc_fast_track_min_score
  SignalVolume    \* bc_signal_volume_threshold

ASSUME LanesAssumption ==
  /\ {LabelWindow, MaxLog, FlowAge, FlowBuys, LaunchAge, LaunchProgress, MaxGap,
      FlowProgress, ProbeAt, AddAt, MoreBuyers, MinPressure, MinScore,
      SignalVolume} \subseteq Nat
  /\ MaxLabels \in Nat \ {0}

Ladder == {"progress_60pct", "progress_75pct", "progress_90pct"}
Lanes == Ladder \cup {"first_minute_flow", "volume_50sol", "launch_label_shadow",
          "control_no_fire", "label_flow_shadow", "probe_add_probe",
          "probe_add_add", "graduation_raw"}

-----------------------------------------------------------------------------
(* Labels: label |-> the mints seen with it, <<mint, creator, time>>.      *)

\* Mutant of LabelPrunings: old observations stay.
LabelPruningsNone(labels, now) == {labels}

\* prune_recent_label_cache: old observations go, then, when there are too
\* many labels, the longest unseen ones until half the room is left.
LabelPrunings(labels, now) ==
  LET recent(l) == {o \in labels[l] : now - o[3] <= LabelWindow}
      kept == {l \in DOMAIN labels : recent(l) # {}}
      latest(l) == CHOOSE t \in {o[3] : o \in recent(l)} :
                      \A o \in recent(l) : o[3] <= t
      half(S) == /\ Cardinality(S) = MaxLabels \div 2
                 /\ \A l \in S, k \in kept \ S : latest(k) <= latest(l)
  IN  IF Cardinality(kept) <= MaxLabels
      THEN {[l \in kept |-> recent(l)]}
      ELSE {[l \in S |-> recent(l)] : S \in {T \in SUBSET kept : half(T)}}

\* compute_recent_label_signal, once the cache is pruned: other mints, other
\* creators (None is no creator), and the time since the latest other mint.
LabelSignal(labels, label, mint, now) ==
  LET others == IF label \in DOMAIN labels
                THEN {o \in labels[label] : o[1] # mint} ELSE {}
      gaps == {now - o[3] : o \in others}
  IN  [mints |-> Cardinality({o[1] : o \in others}),
       creators |-> Cardinality({o[2] : o \in others} \ {None}),
       gap |-> IF gaps = {} THEN None ELSE CHOOSE g \in gaps : \A h \in gaps : g <= h]

\* A mint is observed once: a second creation does not move its time.
Noted(labels, label, mint, creator, now) ==
  LET bucket == IF label \in DOMAIN labels THEN labels[label] ELSE {}
      known == \E o \in bucket : o[1] = mint
  IN  [l \in DOMAIN labels \cup {label} |->
         IF l # label THEN labels[l]
         ELSE IF known THEN bucket ELSE bucket \cup {<<mint, creator, now>>}]

-----------------------------------------------------------------------------
(* An entry: when and by whom it was created, its label signal, what was   *)
(* traded, the last progress of its curve in percent (None: not seen), the *)
(* lanes fired, and buyers and volume when the probe fired.                *)

NewEntry(creator, signal, now) ==
  [at |-> now, creator |-> creator, signal |-> signal, buys |-> 0, sells |-> 0,
   buyers |-> {}, log |-> <<>>, level |-> None, fired |-> {}, probed |-> <<0, 0>>]

Volume(e) == e.buys + e.sells

\* buy_pressure_pct: 0 when nothing was traded.
Pressed(e) == Volume(e) > 0 /\ 100 * e.buys >= MinPressure * Volume(e)

\* compute_current_creator_rebuy.
CreatorRebuy(e) ==
  Len(e.log) > 1 /\ \E i \in DOMAIN e.log : e.log[i].buy /\ e.log[i].by = e.creator

\* compute_current_bc_score.
EntryScore(e) ==
  BcScore(Cardinality(e.buyers), e.buys, e.sells, CreatorRebuy(e), FALSE)

\* What a trade changes in the entry before any lane is looked at.
Traded(e, by, buy, level) ==
  [e EXCEPT !.buys = IF buy THEN @ + 1 ELSE @, !.sells = IF buy THEN @ ELSE @ + 1,
            !.buyers = IF buy THEN @ \cup {by} ELSE @,
            !.log = IF Len(@) < MaxLog THEN Append(@, [by |-> by, buy |-> buy]) ELSE @,
            !.level = IF level = None THEN @ ELSE level]

RepeatedLabel(e) ==
  e.signal.mints >= 1 /\ e.signal.gap # None /\ e.signal.gap <= MaxGap

\* maybe_fire_first_minute_flow_shadow.
FirstMinuteLane(e, now) ==
  {l \in {"first_minute_flow"} :
     /\ now - e.at <= FlowAge
     /\ e.buys >= FlowBuys /\ Cardinality(e.buyers) >= FlowBuys /\ Pressed(e)}

\* maybe_fire_launch_label_shadow.
LaunchLane(e, buy, now) ==
  {l \in {"launch_label_shadow"} :
     /\ buy /\ now - e.at <= LaunchAge /\ e.level <= LaunchProgress
     /\ RepeatedLabel(e) /\ e.signal.creators >= 1}

\* maybe_fire_label_flow_shadow.
FlowLane(e, progress) ==
  {l \in {"label_flow_shadow"} :
     progress >= FlowProgress /\ RepeatedLabel(e) /\ Pressed(e)}

\* maybe_fire_probe_add_shadow: a probe first, and in a later call an add.
ProbeLane(e, progress) ==
  LET sound == ~CreatorRebuy(e) /\ Pressed(e) /\ EntryScore(e) >= MinScore
      grown == /\ Cardinality(e.buyers) - e.probed[1] >= MoreBuyers
               /\ 2 * Volume(e) >= 3 * e.probed[2]
  IN  IF "probe_add_probe" \notin e.fired
      THEN {l \in {"probe_add_probe"} : progress >= ProbeAt /\ sound}
      ELSE {l \in {"probe_add_add"} : progress >= AddAt /\ sound /\ grown}

LadderUpTo(progress) ==
  {l \in Ladder : \/ l = "progress_60pct" /\ progress >= 60
                  \/ l = "progress_75pct" /\ progress >= 75
                  \/ l = "progress_90pct" /\ progress >= 90}

\* handle_token_trade after its skeleton return: the lanes a trade reaches.
TradeLanes(e, buy, now) ==
  (IF Volume(e) >= SignalVolume THEN {"volume_50sol"} ELSE {})
  \cup IF e.level = None THEN {}
       ELSE LaunchLane(e, buy, now)
            \cup {l \in {"control_no_fire"} : e.level >= 30}
            \cup LadderUpTo(e.level) \cup FlowLane(e, e.level) \cup ProbeLane(e, e.level)

\* Mutant of GraduationLanes: skipped rungs only as far as the curve went.
GraduationLanesReached(e) ==
  (IF e.level = None THEN {} ELSE LadderUpTo(e.level)) \cup {"graduation_raw"}

\* handle_token_complete: the rungs that were skipped, if the curve was ever
\* seen, and the lane of the graduation itself.
GraduationLanes(e) ==
  LET progress == IF e.level = None THEN 100 ELSE e.level
  IN  (IF e.level = None THEN {} ELSE Ladder)
      \cup FlowLane(e, progress) \cup ProbeLane(e, progress) \cup {"graduation_raw"}

\* A lane fires once per entry.
Firing(e, lanes) == lanes \ e.fired

\* Mutant of Fired: the flags of the ladder are not set.
FiredLadderAgain(e, lanes) ==
  [e EXCEPT !.fired = @ \cup (lanes \ Ladder)]

\* The flags; the probe keeps its buyers and volume.
Fired(e, lanes) ==
  [e EXCEPT !.fired = @ \cup lanes,
            !.probed = IF "probe_add_probe" \in Firing(e, lanes)
                       THEN <<Cardinality(e.buyers), Volume(e)>> ELSE @]

=============================================================================
