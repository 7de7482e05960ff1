--------------------------- MODULE MCMonitorTick ---------------------------
(* Small instances for TLC of what surrounds one position: the turns of its *)
(* monitor (MonitorTick), the source of its price (PriceFeed) and the       *)
(* watcher of an account (Watchers).  The three are separate tasks whose    *)
(* inputs the others over-approximate, so a behaviour follows one of them   *)
(* and leaves the others where they start.                                  *)
EXTENDS MonitorTick, PriceFeed, Watchers

VARIABLE part

MCStages == <<1, 2, 3>>
vars == <<part, tickVars, feedVars, watchVars>>

Init ==
  /\ part \in {"turns", "feed", "watcher"}
  /\ TickInit /\ FeedInit /\ WatchInit
  /\ part # "turns" => pos.entry = 0
  /\ part # "feed" => grpc /\ curve = Complete
  /\ part # "watcher" => kind = "liquidity" /\ account = [tokens |-> 10, sol |-> 10]

Next ==
  /\ UNCHANGED part
  /\ \/ part = "turns" /\ TickNext /\ UNCHANGED <<feedVars, watchVars>>
     \/ part = "feed" /\ FeedNext /\ UNCHANGED <<tickVars, watchVars>>
     \/ part = "watcher" /\ WatchNext /\ UNCHANGED <<tickVars, feedVars>>

Spec == Init /\ [][Next]_vars /\ WatchFair
=============================================================================
