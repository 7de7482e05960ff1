-------------------------- MODULE DetectionSocket --------------------------
(***************************************************************************)
(* The connection to the pump.fun stream (detection/pumpfun_ws.rs, run and *)
(* connect_and_listen): it is opened, lost and opened again after a delay  *)
(* (whose length no property depends on); what it sends goes through a     *)
(* queue to a writer task; a reconciler keeps the subscriptions to         *)
(* accounts in step with the roster of proven parents.                     *)
(*                                                                         *)
(* After a loss the code leaves the old writer and reconciler running on   *)
(* the dead socket until the roster next changes; they touch nothing of    *)
(* the new connection and are not modelled.                                *)
(***************************************************************************)
EXTENDS LaunchLanes

CONSTANTS
  Accounts,       \* wallets that may be proven parents
  MaxConnections, \* bound of the model: the last connection is not lost
  MaxRosters      \* bound of the model: changes of the roster

ASSUME SocketAssumption ==
  /\ MaxConnections \in Nat /\ MaxRosters \in Nat

VARIABLES
  conn,           \* "down" or "up"
  generation,     \* connections so far
  writer,         \* the writer task is alive
  outbox,         \* messages on their way to the server
  roster,         \* active_parent_wallets (WalletGraph)
  rosterChanges,  \* bounds the changes of the roster
  accounts,       \* the reconciler's view of what is subscribed
  serverAccounts, \* accounts the server has subscribed (external)
  serverMints     \* mints the server has subscribed (external)

socketVars == <<conn, generation, writer, outbox, roster, rosterChanges,
                accounts, serverAccounts, serverMints>>

SocketInit ==
  /\ conn = "down" /\ generation = 0 /\ writer = FALSE
  /\ outbox = <<>> /\ roster \in SUBSET Accounts /\ rosterChanges = 0
  /\ accounts = {} /\ serverAccounts = {} /\ serverMints = {}

\* connect_async succeeds: the queue, the writer and the reconciler are new.
Opened ==
  /\ conn = "down"
  /\ conn' = "up" /\ generation' = generation + 1 /\ writer' = TRUE
  /\ outbox' = <<>> /\ accounts' = {} /\ serverAccounts' = {} /\ serverMints' = {}
  /\ UNCHANGED <<roster, rosterChanges>>

\* The read loop ends, with a Close frame or an error.
Lost ==
  /\ conn = "up" /\ generation < MaxConnections /\ conn' = "down"
  /\ writer' = FALSE /\ outbox' = <<>> /\ accounts' = {}
  /\ serverAccounts' = {} /\ serverMints' = {}
  /\ UNCHANGED <<generation, roster, rosterChanges>>

\* A write fails: the writer ends, what is queued is gone, and the read loop
\* learns of it with its next pong (Lost).
WriterFails ==
  /\ conn = "up" /\ writer /\ writer' = FALSE /\ outbox' = <<>>
  /\ UNCHANGED <<conn, generation, roster, rosterChanges, accounts,
                 serverAccounts, serverMints>>

\* The server takes the next message (external).
Served ==
  /\ conn = "up" /\ outbox # <<>> /\ outbox' = Tail(outbox)
  /\ LET msg == Head(outbox)
     IN  /\ serverMints' = IF msg.op = "token" THEN serverMints \cup msg.keys
                           ELSE serverMints
         /\ serverAccounts' = IF msg.op = "add" THEN serverAccounts \cup msg.keys
                              ELSE IF msg.op = "remove" THEN serverAccounts \ msg.keys
                              ELSE serverAccounts
  /\ UNCHANGED <<conn, generation, writer, roster, rosterChanges, accounts>>

Requests(op, keys) == IF keys = {} THEN <<>> ELSE <<[op |-> op, keys |-> keys]>>

\* Mutant of Difference: parents that left the roster stay subscribed.
DifferenceAdded == Requests("add", roster \ accounts)

Difference ==
  Requests("add", roster \ accounts) \o Requests("remove", accounts \ roster)

\* A turn of the reconciler, first after 5 s and then every 60 s.  Without a
\* writer the first send that is needed ends it.
Reconcile ==
  /\ conn = "up" /\ writer /\ roster # accounts
  /\ outbox' = outbox \o Difference /\ accounts' = roster
  /\ UNCHANGED <<conn, generation, writer, roster, rosterChanges,
                 serverAccounts, serverMints>>

\* The wallet graph reloads the roster (WalletGraph!ReloadRoster).
RosterChanges(new) ==
  /\ rosterChanges < MaxRosters /\ rosterChanges' = rosterChanges + 1
  /\ new # roster /\ roster' = new
  /\ UNCHANGED <<conn, generation, writer, outbox, accounts,
                 serverAccounts, serverMints>>

SocketStep ==
  \/ WriterFails \/ Served \/ Reconcile
  \/ \E new \in SUBSET Accounts : RosterChanges(new)
=============================================================================
