------------------------------ MODULE Lifecycle ------------------------------
(***************************************************************************)
(* A position from the purchase to the end, across restarts: its row in    *)
(* `positions`, its row in `moonbag_positions`, the tokens in the wallet,  *)
(* and who answers for them: the monitor, the moonbag tracker, an exit on  *)
(* its way, or nobody.  What the parts do inside is in BuyPath,            *)
(* PositionMonitor, ExitEngine and Moonbag; here each does what the others *)
(* and the next process can see.                                           *)
(*                                                                         *)
(* A restart loads the state (execution/state.rs), gives the rows of the   *)
(* last process back to monitors (main.rs, recover_stuck_positions) and    *)
(* closes what was in the tracker (monitoring/moonbag.rs).  Faults:        *)
(*   "write"    the write of a row fails                                   *)
(*   "balance"  recovery cannot read a balance                             *)
(*   "query"    a query of the startup fails                               *)
(***************************************************************************)
EXTENDS Naturals, FiniteSetsExt, SequencesExt

CONSTANTS
  Positions, Mints,
  MintOf,         \* the mint of each position
  Nothing,
  Lot,            \* tokens bought with each position
  MaxHeld,        \* moonbag_max_concurrent
  MaxCrashes,     \* bound of the model
  Faults

\* An exit under way, and why a position has no owner.
ExitStates == [pc : {"sell", "settle"}, all : BOOLEAN, awaited : BOOLEAN]
Reasons == {"no_row", "not_retried", "given_up", "refused", "partial", "moonbag",
            "closed", "query", "unread"}

ASSUME LifecycleAssumption ==
  /\ IsFiniteSet(Positions) /\ MintOf \in [Positions -> Mints]
  /\ Nothing \notin ExitStates \cup Reasons
  /\ Lot \in Nat \ {0} /\ MaxHeld \in Nat \ {0} /\ MaxCrashes \in Nat
  /\ Faults \subseteq {"write", "balance", "query"}

VARIABLES
  row,        \* the table: status, and whether exit_tx_sig and closed_at are set
  mb,         \* moonbag_positions: none, live or exited
  wallet,     \* tokens of each mint
  up,         \* a process runs
  openMints,  \* TradingState
  inserting,  \* bought, the row not written yet
  watched,    \* positions with a monitor
  claim,      \* tokens that whoever owns a position means to sell
  channel,    \* promotions on their way to the tracker
  held,       \* positions of the tracker
  exits,      \* the exit of each position that is under way
  writes,     \* tasks the tracker spawned: <<what they write, position>>
  toRecover,  \* rows the recovery has still to look at
  toOrphan,   \* rows the tracker has still to close before it starts
  lost,       \* history: why nobody owns the position
  crashes     \* history

table == <<row, mb, wallet>>
owners == <<inserting, watched, channel, held>>
startup == <<toRecover, toOrphan, up, crashes>>
lifeVars == <<table, owners, startup, openMints, claim, exits, writes, lost>>

NoRow == [status |-> "none", signed |-> FALSE, closed |-> FALSE]

LifeInit ==
  /\ row = [p \in Positions |-> NoRow] /\ mb = [p \in Positions |-> "none"]
  /\ wallet = [m \in Mints |-> 0] /\ up = TRUE /\ openMints = {}
  /\ inserting = {} /\ watched = {} /\ claim = [p \in Positions |-> 0]
  /\ channel = <<>> /\ held = {} /\ exits = [p \in Positions |-> Nothing]
  /\ writes = {} /\ toRecover = {} /\ toOrphan = {}
  /\ lost = [p \in Positions |-> Nothing] /\ crashes = 0

Exiting == {p \in Positions : exits[p] # Nothing}
Owned == inserting \cup watched \cup ToSet(channel) \cup held \cup Exiting

Fault(f) == f \in Faults
Status(p) == row[p].status
WithStatus(p, s) == [row EXCEPT ![p].status = s]

\* A write of a row that may fail.
Wrote(written) == row' = written \/ (Fault("write") /\ UNCHANGED row)

-----------------------------------------------------------------------------
(* From the purchase to the exit. *)

\* The swap lands and the buy is recorded; then the row and the monitor.
Land(p) ==
  /\ up /\ MintOf[p] \notin openMints
  /\ Status(p) = "none" /\ lost[p] = Nothing /\ p \notin inserting
  /\ wallet' = [wallet EXCEPT ![MintOf[p]] = @ + Lot]
  /\ claim' = [claim EXCEPT ![p] = Lot]
  /\ openMints' = openMints \cup {MintOf[p]} /\ inserting' = inserting \cup {p}
  /\ UNCHANGED <<row, mb, watched, channel, held, exits, writes, startup, lost>>

InsertRow(p) ==
  /\ p \in inserting /\ inserting' = inserting \ {p}
  /\ \/ row' = WithStatus(p, "open") /\ watched' = watched \cup {p} /\ UNCHANGED lost
     \/ Fault("write") /\ lost' = [lost EXCEPT ![p] = "no_row"] /\ UNCHANGED <<row, watched>>
  /\ UNCHANGED <<mb, wallet, openMints, claim, channel, held, exits, writes, startup>>

AnExit(all, awaited) == [pc |-> "sell", all |-> all, awaited |-> awaited]

\* The monitor sends an exit and waits, or sends one of all and stops.  Bound:
\* only a whole purchase is sold in part.
Trigger(p, all) ==
  /\ p \in watched \ Exiting /\ (all \/ claim[p] = Lot)
  /\ \/ exits' = [exits EXCEPT ![p] = AnExit(all, TRUE)] /\ UNCHANGED watched
     \/ /\ all /\ exits' = [exits EXCEPT ![p] = AnExit(TRUE, FALSE)]
        /\ watched' = watched \ {p}
  /\ UNCHANGED <<table, inserting, openMints, claim, channel, held, writes, startup, lost>>

Least(a, b) == IF a < b THEN a ELSE b

\* On chain.  No more is sold than the wallet has of the mint.
Sell(p) ==
  LET m == MintOf[p]
      amount == Least(claim[p], wallet[m])
      part(n) == IF exits[p].all THEN n ELSE n \div 2
  IN  /\ p \in Exiting /\ exits[p].pc = "sell" /\ part(amount) > 0
      /\ wallet' = [wallet EXCEPT ![m] = @ - part(amount)]
      /\ claim' = [claim EXCEPT ![p] = @ - part(@)]
      /\ exits' = [exits EXCEPT ![p].pc = "settle"]
      /\ UNCHANGED <<row, mb, owners, openMints, writes, startup, lost>>

\* The row, the state and the answer; a row that is closed already is let be.
Settle(p) ==
  /\ p \in Exiting /\ exits[p].pc = "settle"
  /\ LET all == exits[p].all
         after == [status |-> IF all THEN "closed" ELSE "partial", signed |-> TRUE,
                   closed |-> row[p].closed \/ all]
     IN  /\ IF Status(p) = "closed" THEN UNCHANGED <<row, openMints>>
            ELSE /\ Wrote([row EXCEPT ![p] = after])
                 /\ openMints' = IF all THEN openMints \ {MintOf[p]} ELSE openMints
         /\ watched' = IF all THEN watched \ {p} ELSE watched
  /\ exits' = [exits EXCEPT ![p] = Nothing]
  /\ UNCHANGED <<mb, wallet, inserting, claim, channel, held, writes, startup, lost>>

\* An exit nobody waits for is not fired again.
FailsForNow(p) ==
  /\ p \in Exiting /\ exits[p].pc = "sell"
  /\ exits' = [exits EXCEPT ![p] = Nothing]
  /\ lost' = IF exits[p].awaited THEN lost ELSE [lost EXCEPT ![p] = "not_retried"]
  /\ UNCHANGED <<table, owners, openMints, claim, writes, startup>>

\* A failure that is not retried, or the fifth: the row says so in the first
\* case, and the monitor of a full exit stops.
FailsForGood(p) ==
  /\ p \in Exiting /\ exits[p].pc = "sell"
  /\ exits' = [exits EXCEPT ![p] = Nothing]
  /\ Wrote(WithStatus(p, "exit_failed")) \/ (exits[p].awaited /\ UNCHANGED row)
  /\ watched' = IF exits[p].all THEN watched \ {p} ELSE watched
  /\ lost' = [lost EXCEPT ![p] = "given_up"]
  /\ UNCHANGED <<mb, wallet, inserting, channel, held, openMints, claim, writes, startup>>

-----------------------------------------------------------------------------
(* The tracker. *)

\* Mutant of Promote: the monitor goes on.
PromoteGoesOn(p) ==
  /\ p \in watched \ Exiting /\ claim[p] > 0 /\ p \notin ToSet(channel) \cup held
  /\ channel' = Append(channel, p)
  /\ openMints' = openMints \ {MintOf[p]}
  /\ UNCHANGED <<table, inserting, watched, claim, held, exits, writes, startup, lost>>

\* The monitor frees the slot and stops.
Promote(p) ==
  /\ p \in watched \ Exiting /\ claim[p] > 0
  /\ channel' = Append(channel, p) /\ watched' = watched \ {p}
  /\ openMints' = openMints \ {MintOf[p]}
  /\ UNCHANGED <<table, inserting, claim, held, exits, writes, startup, lost>>

\* Mutant of Spawned: the row is synced whatever the insert does.
SpawnedBoth(p) == {<<"insert", p>>, <<"sync", p>>}

\* The parent is marked only after the insert.
Spawned(p) == {<<"insert", p>>}

Receive ==
  /\ channel # <<>> /\ toOrphan = {} /\ channel' = Tail(channel)
  /\ LET p == Head(channel)
     IN  IF Cardinality(held) >= MaxHeld
         THEN lost' = [lost EXCEPT ![p] = "refused"] /\ UNCHANGED <<held, writes>>
         ELSE held' = held \cup {p} /\ writes' = writes \cup Spawned(p) /\ UNCHANGED lost
  /\ UNCHANGED <<table, inserting, watched, openMints, claim, exits, startup>>

InsertMoonbag(p) ==
  /\ <<"insert", p>> \in writes
  /\ \/ /\ mb' = [mb EXCEPT ![p] = "live"]
        /\ writes' = (writes \ {<<"insert", p>>}) \cup {<<"sync", p>>}
     \/ Fault("write") /\ writes' = writes \ {<<"insert", p>>} /\ UNCHANGED mb
  /\ UNCHANGED <<row, wallet, owners, openMints, claim, exits, startup, lost>>

SyncRow(p) ==
  /\ <<"sync", p>> \in writes /\ writes' = writes \ {<<"sync", p>>}
  /\ Wrote(WithStatus(p, "moonbag"))
  /\ UNCHANGED <<mb, wallet, owners, openMints, claim, exits, startup, lost>>

\* A stop or the hold cap (Moonbag): the exit is sent and forgotten.
TailExit(p) ==
  /\ p \in held /\ held' = held \ {p}
  /\ exits' = [exits EXCEPT ![p] = AnExit(TRUE, FALSE)]
  /\ writes' = writes \cup {<<"exit", p>>}
  /\ UNCHANGED <<table, inserting, watched, channel, openMints, claim, startup, lost>>

\* A PATCH of a row that is not there yet changes nothing.
ExitMoonbag(p) ==
  /\ <<"exit", p>> \in writes /\ writes' = writes \ {<<"exit", p>>}
  /\ \/ mb' = [mb EXCEPT ![p] = IF @ = "none" THEN @ ELSE "exited"]
     \/ Fault("write") /\ UNCHANGED mb
  /\ UNCHANGED <<row, wallet, owners, openMints, claim, exits, startup, lost>>

-----------------------------------------------------------------------------
(* Restarts. *)

\* Why nobody owns p when the process has gone; what the recovery had still to
\* look at may have been closed meanwhile by the tracker.
LeftBehind(p) ==
  IF p \notin Owned \cup toRecover \/ claim[p] = 0 THEN lost[p]
  ELSE CASE Status(p) = "none" -> "no_row"
         [] Status(p) \in {"partial", "moonbag", "closed"} -> Status(p)
         [] OTHER -> Nothing

Crash ==
  /\ up /\ crashes < MaxCrashes /\ crashes' = crashes + 1 /\ up' = FALSE
  /\ lost' = [p \in Positions |-> LeftBehind(p)]
  /\ inserting' = {} /\ watched' = {} /\ channel' = <<>> /\ held' = {}
  /\ exits' = [p \in Positions |-> Nothing] /\ writes' = {}
  /\ toRecover' = {} /\ toOrphan' = {} /\ openMints' = {}
  /\ UNCHANGED <<table, claim>>

\* hydrate_from_supabase: a row with an exit_tx_sig is not loaded.
Hydrated ==
  {MintOf[p] : p \in {q \in Positions :
                        Status(q) \in {"open", "partial"} /\ ~row[q].signed}}

\* Mutant of Stuck: what has failed to exit is left.
StuckOpen == {p \in Positions : Status(p) = "open"}

Stuck == {p \in Positions : Status(p) \in {"open", "exit_failed"}}

\* The three queries of a startup, each of which may fail alone; recovery
\* that gets no list leaves everything as it is.
Restart ==
  /\ ~up /\ up' = TRUE
  /\ openMints' \in {Hydrated} \cup IF Fault("query") THEN {{}} ELSE {}
  /\ \/ /\ toRecover' = Stuck
        /\ lost' = [p \in Positions |->
                     IF Status(p) \in {"open", "exit_failed"} THEN Nothing ELSE lost[p]]
     \/ /\ Fault("query") /\ toRecover' = {}
        /\ lost' = [p \in Positions |->
                     IF Status(p) \in {"open", "exit_failed"} THEN "query" ELSE lost[p]]
  /\ toOrphan' \in {{p \in Positions : mb[p] = "live"}}
                   \cup IF Fault("query") THEN {{}} ELSE {}
  /\ UNCHANGED <<table, owners, claim, exits, writes, crashes>>

Balances(p) == {wallet[MintOf[p]]} \cup IF Fault("balance") THEN {0} ELSE {}

\* The balance is of the mint, and a balance that cannot be read is none.
Recover(p) ==
  /\ p \in toRecover
  /\ \E balance \in Balances(p) :
       /\ toRecover' = toRecover \ {p}
       /\ IF balance = 0
          THEN /\ Wrote(WithStatus(p, "closed"))
               /\ lost' = [lost EXCEPT ![p] = IF wallet[MintOf[p]] > 0 THEN "unread" ELSE @]
               /\ UNCHANGED <<watched, claim>>
          ELSE /\ Wrote(WithStatus(p, "open"))
               /\ watched' = watched \cup {p} /\ claim' = [claim EXCEPT ![p] = balance]
               /\ UNCHANGED lost
  /\ UNCHANGED <<mb, wallet, inserting, channel, held, openMints, exits, writes,
                 toOrphan, up, crashes>>

\* The tracker closes what its predecessor held, sold or not.
CloseOrphan(p) ==
  /\ p \in toOrphan /\ toOrphan' = toOrphan \ {p}
  /\ mb' = [mb EXCEPT ![p] = "exited"] \/ (Fault("write") /\ UNCHANGED mb)
  /\ Wrote(WithStatus(p, "closed"))
  /\ UNCHANGED <<wallet, owners, openMints, claim, exits, writes, toRecover, up,
                 crashes, lost>>

-----------------------------------------------------------------------------
LifeStep(p) ==
  \/ Land(p) \/ InsertRow(p) \/ Sell(p) \/ Settle(p)
  \/ \E all \in BOOLEAN : Trigger(p, all)
  \/ FailsForNow(p) \/ FailsForGood(p)
  \/ Promote(p) \/ InsertMoonbag(p) \/ SyncRow(p) \/ TailExit(p) \/ ExitMoonbag(p)
  \/ Recover(p) \/ CloseOrphan(p)

LifeNext == (\E p \in Positions : LifeStep(p)) \/ Receive \/ Crash \/ Restart

LifeSpec == LifeInit /\ [][LifeNext]_lifeVars

-----------------------------------------------------------------------------
(* Properties. *)

OfMint(S, m) == {p \in S : MintOf[p] = m}

\* Whatever crashes, fails and restarts, the tokens in the wallet are accounted
\* for: by positions with an owner, rows that recovery has yet to look at, and
\* positions of which it is known why nobody has them: refused by the tracker,
\* not retried, given up, without a row, partly sold or in the tracker at a
\* crash, unread at a startup.  In particular what was open or exit_failed has
\* an owner again after a restart (main.rs:336-340).
WalletCovered ==
  \A m \in Mints :
     LET known == Owned \cup toRecover \cup {p \in Positions : lost[p] # Nothing}
     IN  up => wallet[m] <= MapThenSumSet(LAMBDA p : claim[p], OfMint(known, m))

\* A row is marked as a moonbag only when the row of the moonbag is there, "so
\* positions/moonbag_positions cannot diverge on failed inserts"
\* (moonbag.rs:519-520), also when the process ends between the two writes.
MoonbagRowBacked == \A p \in Positions : Status(p) = "moonbag" => mb[p] # "none"

\* A position has one owner at a time: monitor, tracker or channel, or an
\* exit nobody waits for; two would sell twice.
OneOwner ==
  \A p \in Positions :
     LET fired == {q \in Exiting : ~exits[q].awaited}
     IN  /\ Cardinality({S \in {<<1, inserting>>, <<2, watched>>, <<3, ToSet(channel)>>,
                                <<4, held>>, <<5, fired>>} : p \in S[2]}) <= 1
         /\ IsInjective(channel)
=============================================================================
