----------------------------- MODULE ExitProofs -----------------------------
(***************************************************************************)
(* What holds of ExitEngine for every set of positions, tasks, signals and *)
(* prices: types and claims whatever fails outside and however often exits *)
(* are retried, and the accounts of a position while the engine sees what  *)
(* happens.  Then of PositionMonitor: the monitors keep their types, under *)
(* them the exit engine keeps what it keeps for any sender of signals, and *)
(* the tally of each monitor covers, or is, what the wallet holds.         *)
(***************************************************************************)
EXTENDS PositionMonitor, TradingStateProofs, FiniteSetTheorems

-----------------------------------------------------------------------------
(* The exit tasks: their type, and the steps that leave every task at work *)
(* on the signal it was spawned for.                                       *)

Statuses == {"open", "partial", "closed", "exit_failed", "unknown"}

TaskType == [pc : Steps, sig : Signal \cup {None}, eff : 0 .. Lot,
             sell : 0 .. Lot, attempt : 0 .. ExitRetries, kill : BOOLEAN,
             tx : {"none", "flying", "landed"}, price : Nat, fill : 0 .. Lot,
             status : Statuses \cup {None}, received : Nat, pnl : Int,
             inc : Int, ok : BOOLEAN, permanent : BOOLEAN]

TaskOK(k) ==
  /\ k \in TaskType
  /\ k.pc # "free" <=> k.sig # None
  /\ k.sell <= k.eff /\ k.fill <= k.sell
  /\ k.pc = "balance" => k.fill = 0
  /\ k.pc \in {"write", "book"} => k.status \in Statuses

TasksOK == /\ task \in [Tasks -> TaskType]
           /\ \A t \in Tasks : TaskOK(task[t])

SameSignals == \A t \in Tasks : task'[t].sig = task[t].sig

LEMMA FreeOK == TaskOK(Free)
  BY ExitAssumption DEF TaskOK, Free, TaskType, Steps

LEMMA SpawnedOK ==
  ASSUME NEW sig \in Signal
  PROVE  TaskOK(Spawned(sig)) /\ Spawned(sig).sig = sig
<1>1. Free \in TaskType /\ Free.sell = 0 /\ Free.eff = 0 /\ Free.fill = 0
  BY FreeOK DEF TaskOK, Free
<1>2. sig # None /\ 1 \in 0 .. ExitRetries
  BY ExitAssumption
<1> DEFINE k == Spawned(sig)
<1>3. k \in TaskType
  BY <1>1, <1>2 DEF Spawned, TaskType, Steps
<1>4. /\ k.pc = "balance" /\ k.sig = sig
      /\ k.sell = 0 /\ k.eff = 0 /\ k.fill = 0
  BY <1>1 DEF Spawned, TaskType
<1> HIDE DEF k
<1>5. TaskOK(k) /\ k.sig = sig
  BY <1>2, <1>3, <1>4 DEF TaskOK
<1> QED
  BY <1>5 DEF k

LEMMA OneTask ==
  ASSUME TasksOK, NEW t \in Tasks, NEW k, TaskOK(k),
         task' = [task EXCEPT ![t] = k]
  PROVE  TasksOK'
  BY DEF TasksOK, TaskOK

LEMMA OneTaskSame ==
  ASSUME TasksOK, NEW t \in Tasks, NEW k, TaskOK(k), k.sig = task[t].sig,
         task' = [task EXCEPT ![t] = k]
  PROVE  TasksOK' /\ SameSignals
  BY OneTask DEF TasksOK, SameSignals

\* The records that a task at work moves on to.
LEMMA FailedOK ==
  ASSUME NEW k, TaskOK(k), k.pc # "free", NEW pc \in {"reply", "mark"},
         NEW permanent \in BOOLEAN
  PROVE  LET n == [k EXCEPT !.pc = pc, !.ok = FALSE, !.permanent = permanent]
         IN  TaskOK(n) /\ n.sig = k.sig
  BY DEF TaskOK, TaskType, Steps

LEMMA RetriedOK ==
  ASSUME NEW k, TaskOK(k), k.pc # "free", k.attempt # ExitRetries,
         NEW kill \in BOOLEAN
  PROVE  LET n == [k EXCEPT !.pc = "attempt", !.attempt = @ + 1,
                            !.kill = kill, !.tx = "none"]
         IN  TaskOK(n) /\ n.sig = k.sig
<1> DEFINE next == k.attempt + 1
<1>1. next \in 0 .. ExitRetries
  BY ExitAssumption DEF TaskOK, TaskType
<1>2. k.attempt \in 0 .. ExitRetries
  BY DEF TaskOK, TaskType
<1> HIDE DEF next
<1>3. LET n == [k EXCEPT !.pc = "attempt", !.attempt = next, !.kill = kill,
                         !.tx = "none"]
      IN  TaskOK(n) /\ n.sig = k.sig
  BY <1>1 DEF TaskOK, TaskType, Steps
<1> QED
  BY <1>3 DEF next

LEMMA StepOK ==
  ASSUME NEW k, TaskOK(k), k.pc # "free",
         NEW pc \in Steps \ {"free", "balance", "write", "book"}
  PROVE  LET n == [k EXCEPT !.pc = pc] IN TaskOK(n) /\ n.sig = k.sig
  BY DEF TaskOK, TaskType

LEMMA SizedOK ==
  ASSUME NEW k, TaskOK(k), k.pc = "balance", NEW eff \in 0 .. Lot,
         NEW sell \in 0 .. Lot, sell <= eff
  PROVE  LET n == [k EXCEPT !.pc = "attempt", !.eff = eff, !.sell = sell]
         IN  TaskOK(n) /\ n.sig = k.sig
<1> DEFINE n == [k EXCEPT !.pc = "attempt", !.eff = eff, !.sell = sell]
<1>1. n \in TaskType
  BY DEF TaskOK, TaskType, Steps
<1>2. /\ n.pc = "attempt" /\ n.eff = eff /\ n.sell = sell /\ n.fill = 0
      /\ n.sig = k.sig /\ k.sig # None
  BY ExitAssumption DEF TaskOK, TaskType
<1> HIDE DEF n
<1>3. TaskOK(n) /\ n.sig = k.sig
  BY <1>1, <1>2, ExitAssumption DEF TaskOK
<1> QED
  BY <1>3 DEF n

LEMMA LandedOK ==
  ASSUME NEW k, TaskOK(k), k.pc = "confirm", NEW fill \in 0 .. Lot,
         fill <= k.sell
  PROVE  LET n == [k EXCEPT !.tx = "landed", !.fill = fill]
         IN  TaskOK(n) /\ n.sig = k.sig
  BY DEF TaskOK, TaskType

Settled(k, pc, status, received, pnl, inc) ==
  [k EXCEPT !.pc = pc, !.ok = TRUE, !.permanent = FALSE, !.status = status,
            !.received = received, !.pnl = pnl, !.inc = inc]

LEMMA SettledOK ==
  ASSUME NEW k, TaskOK(k), k.pc = "settle", NEW pc \in {"reply", "write"},
         NEW status \in Statuses, NEW received \in Nat, NEW pnl \in Int,
         NEW inc \in Int
  PROVE  LET n == Settled(k, pc, status, received, pnl, inc)
         IN  TaskOK(n) /\ n.sig = k.sig
<1> DEFINE n == Settled(k, pc, status, received, pnl, inc)
<1>1. n \in TaskType
  BY DEF TaskOK, TaskType, Steps, Settled
<1>2. /\ n.pc \in {"reply", "write"} /\ n.status \in Statuses
      /\ n.eff = k.eff /\ n.sell = k.sell /\ n.fill = k.fill
      /\ n.sig = k.sig /\ k.sig # None
  BY DEF TaskOK, TaskType, Settled
<1> HIDE DEF n
<1>3. TaskOK(n) /\ n.sig = k.sig
  BY <1>1, <1>2 DEF TaskOK
<1> QED
  BY <1>3 DEF n

LEMMA WriteOK ==
  ASSUME NEW k, TaskOK(k), k.pc = "write"
  PROVE  LET n == [k EXCEPT !.pc = "book"] IN TaskOK(n) /\ n.sig = k.sig
  BY DEF TaskOK, TaskType, Steps

LEMMA FailKept ==
  ASSUME TasksOK, NEW t \in Tasks, Working(t), NEW err, Fail(t, err)
  PROVE  TasksOK' /\ SameSignals
<1> DEFINE pc == IF err \in Retryable THEN "reply" ELSE "mark"
           k == [task[t] EXCEPT !.pc = pc, !.ok = FALSE,
                                !.permanent = err \notin Retryable]
<1>1. task' = [task EXCEPT ![t] = k]
  BY DEF TasksOK, Fail
<1>2. TaskOK(task[t]) /\ task[t].pc # "free"
  BY DEF TasksOK, Working
<1>3. pc \in {"reply", "mark"} /\ (err \notin Retryable) \in BOOLEAN
  OBVIOUS
<1>4. TaskOK(k) /\ k.sig = task[t].sig
  BY <1>2, <1>3, FailedOK
<1> QED
  BY <1>1, <1>4, OneTaskSame

LEMMA RetryKept ==
  ASSUME TasksOK, NEW t \in Tasks, Working(t), NEW err, NEW kill \in BOOLEAN,
         Retry(t, err, kill)
  PROVE  TasksOK' /\ SameSignals
<1>1. CASE task[t].attempt = ExitRetries \/ kill
  BY <1>1, FailKept DEF Retry
<1>2. CASE ~(task[t].attempt = ExitRetries \/ kill)
  <2> DEFINE k == [task[t] EXCEPT !.pc = "attempt", !.attempt = @ + 1,
                                  !.kill = kill, !.tx = "none"]
  <2>1. task' = [task EXCEPT ![t] = k]
    BY <1>2 DEF TasksOK, Retry
  <2>2. TaskOK(task[t]) /\ task[t].pc # "free"
    BY DEF TasksOK, Working
  <2>3. TaskOK(k) /\ k.sig = task[t].sig
    BY <1>2, <2>2, RetriedOK
  <2> QED
    BY <2>1, <2>3, OneTaskSame
<1> QED
  BY <1>1, <1>2

LEMMA PcKept ==
  ASSUME TasksOK, NEW t \in Tasks, Working(t),
         NEW pc \in Steps \ {"free", "balance", "write", "book"},
         task' = [task EXCEPT ![t].pc = pc]
  PROVE  TasksOK' /\ SameSignals
<1> DEFINE k == [task[t] EXCEPT !.pc = pc]
<1>1. task' = [task EXCEPT ![t] = k]
  BY DEF TasksOK
<1>2. TaskOK(k) /\ k.sig = task[t].sig
  BY StepOK DEF TasksOK, Working
<1> QED
  BY <1>1, <1>2, OneTaskSame
-----------------------------------------------------------------------------
(* The whole state, and the steps of the exit tasks. *)

RowType == [status : Statuses, received : Nat, pnl : Int]

LateType == [id : 1 .. MaxLate, mint : Mints, tokens : 0 .. Lot, price : Nat]

\* TypeOK without the tasks.
StateIs ==
  /\ TSTypeOK
  /\ exitQ \in Seq(Signal)
  /\ polling \in Signal \cup {None}
  /\ claims \in SUBSET Mints
  /\ wallet \in [Mints -> 0 .. Lot]
  /\ late \in SUBSET LateType
  /\ row \in [Mints -> RowType]
  /\ sent \in [Mints -> 0 .. MaxSignals]
  /\ proceeds \in [Mints -> Nat]

TypeIs == TasksOK /\ StateIs

LEMMA TypeImplies == TypeIs => TypeOK
  BY DEF TypeIs, StateIs, TypeOK, TasksOK, TaskOK, TaskType, RowType, Working

LEMMA ProductType ==
  ASSUME NEW a \in Nat, NEW b \in Nat
  PROVE  a * b \in Nat
  OBVIOUS

\* What the later steps of a task find in the signal and the records.
LEMMA SignalOf ==
  ASSUME TasksOK, NEW t \in Tasks, Working(t)
  PROVE  /\ task[t].sig \in Signal
         /\ task[t].sig.mint \in Mints
         /\ task[t].sig.amount \in 0 .. Lot
         /\ task[t].sig.cost \in Nat \cup {NaN}
         /\ TaskOK(task[t])
<1>1. task[t].sig \in Signal /\ TaskOK(task[t])
  BY DEF TasksOK, TaskOK, TaskType, Working
<1> QED
  BY <1>1 DEF Signal

LEMMA ReadsType ==
  ASSUME NEW balance \in Nat
  PROVE  Reads(balance) \subseteq Nat /\ \A seen \in Reads(balance) : seen <= balance
  BY DEF Reads

LEMMA ReadBalanceKept ==
  ASSUME TypeIs, NEW t \in Tasks, ReadBalance(t)
  PROVE  TasksOK' /\ SameSignals
<1>1. /\ TasksOK
      /\ Working(t)
      /\ task[t].pc = "balance"
  BY DEF TypeIs, StateIs, ReadBalance, At, Working
<1> DEFINE sig == task[t].sig
<1>2. wallet[sig.mint] \in Nat
  BY <1>1, SignalOf, ExitAssumption DEF TypeIs, StateIs
<1>3. PICK seen \in Reads(wallet[sig.mint]) :
        LET eff  == IF seen > 0 /\ seen < sig.amount THEN seen ELSE sig.amount
            sell == IF sig.all THEN eff ELSE eff \div 2
        IN IF sell = 0
           THEN Fail(t, "Permanent")
           ELSE task' = [task EXCEPT ![t].pc = "attempt", ![t].eff = eff,
                                     ![t].sell = sell]
  BY DEF ReadBalance
<1> DEFINE eff == IF seen > 0 /\ seen < sig.amount THEN seen ELSE sig.amount
           sell == IF sig.all THEN eff ELSE eff \div 2
<1>4. CASE sell = 0
  BY <1>1, <1>3, <1>4, FailKept
<1>5. CASE sell # 0
  <2> DEFINE k == [task[t] EXCEPT !.pc = "attempt", !.eff = eff, !.sell = sell]
  <2>1. task' = [task EXCEPT ![t] = k]
    BY <1>1, <1>3, <1>5 DEF TasksOK
  <2>2. eff \in 0 .. Lot
    BY <1>1, <1>2, SignalOf, ReadsType, ExitAssumption
  <2>3. sell \in 0 .. Lot /\ sell <= eff
    BY <2>2, ExitAssumption
  <2>4. TaskOK(task[t]) /\ task[t].pc = "balance"
    BY <1>1, SignalOf
  <2> HIDE DEF eff, sell
  <2>5. TaskOK(k) /\ k.sig = task[t].sig
    BY <2>2, <2>3, <2>4, SizedOK
  <2> QED
    BY <1>1, <2>1, <2>5, OneTaskSame
<1> QED
  BY <1>4, <1>5

LEMMA SubmitKept ==
  ASSUME TypeIs, NEW t \in Tasks, NEW price \in Prices, Submit(t, price)
  PROVE  TasksOK' /\ SameSignals
<1>1. TasksOK /\ Working(t) /\ TaskOK(task[t])
  BY SignalOf DEF TypeIs, StateIs, Submit, Sellable, At, Working, TasksOK
<1> DEFINE kill == task[t].kill \/ Kill(t, price)
           k == [task[t] EXCEPT !.pc = "confirm", !.tx = "flying",
                                !.price = price, !.kill = kill]
<1>2. task' = [task EXCEPT ![t] = k]
  BY <1>1 DEF Submit, TasksOK
<1>3. kill \in BOOLEAN /\ price \in Nat
  BY ExitAssumption
<1> HIDE DEF kill
<1>4. TaskOK(k) /\ k.sig = task[t].sig
  BY <1>1, <1>3 DEF TaskOK, TaskType, Steps, Working
<1> QED
  BY <1>1, <1>2, <1>4, OneTaskSame

\* What a sale leaves.
LEMMA Difference ==
  ASSUME NEW held \in 0 .. Lot, NEW sold \in Nat, NEW most \in Nat,
         sold <= most, most <= held
  PROVE  held - sold \in 0 .. Lot
  BY ExitAssumption

LEMMA LandsKept ==
  ASSUME TypeIs, NEW t \in Tasks, Lands(t)
  PROVE  /\ TasksOK' /\ SameSignals
         /\ wallet' \in [Mints -> 0 .. Lot]
         /\ proceeds' \in [Mints -> Nat]
<1>1. /\ TasksOK
      /\ Working(t)
      /\ TaskOK(task[t])
      /\ task[t].pc = "confirm"
      /\ task[t].sell <= wallet[task[t].sig.mint]
  BY DEF TypeIs, StateIs, Lands, At, Working, TasksOK
<1>2. task[t].sell \in 0 .. Lot /\ task[t].price \in Nat
  BY <1>1 DEF TaskOK, TaskType
<1> DEFINE fills == IF "no_fill" \in Faults THEN 0 .. task[t].sell
                                            ELSE {task[t].sell}
<1>a. PICK fill \in fills :
        /\ task' = [task EXCEPT ![t].tx = "landed", ![t].fill = fill]
        /\ Moved(task[t].sig.mint, fill, task[t].price)
  BY DEF Lands
<1>3. fill \in 0 .. task[t].sell
  BY <1>2, ExitAssumption
<1> DEFINE m == task[t].sig.mint
           k == [task[t] EXCEPT !.tx = "landed", !.fill = fill]
<1>4. task' = [task EXCEPT ![t] = k]
  BY <1>1, <1>a DEF TasksOK
<1>5. fill \in 0 .. Lot /\ fill <= task[t].sell
  BY <1>2, <1>3, ExitAssumption
<1>6. TaskOK(k) /\ k.sig = task[t].sig
  BY <1>1, <1>5, LandedOK
<1>7. m \in Mints /\ wallet[m] - fill \in 0 .. Lot
  <2>1. m \in Mints
    BY <1>1, SignalOf
  <2>2. wallet[m] \in 0 .. Lot /\ task[t].sell <= wallet[m]
    BY <1>1, <2>1 DEF TypeIs, StateIs
  <2>3. fill \in Nat /\ task[t].sell \in Nat /\ fill <= task[t].sell
    BY <1>2, <1>3, ExitAssumption
  <2> DEFINE held == wallet[m]
             most == task[t].sell
  <2>4. held \in 0 .. Lot /\ most \in Nat /\ fill \in Nat /\ fill <= most /\ most <= held
    BY <2>2, <2>3
  <2> HIDE DEF held, most
  <2>5. held - fill \in 0 .. Lot
    BY <2>4, Difference
  <2> QED
    BY <2>1, <2>5 DEF held
<1>8. fill * task[t].price \in Nat
  BY <1>2, <1>5, ExitAssumption, ProductType
<1>9. proceeds[m] + fill * task[t].price \in Nat
  <2> DEFINE got == fill * task[t].price
  <2>1. got \in Nat /\ proceeds[m] \in Nat
    BY <1>7, <1>8 DEF TypeIs, StateIs
  <2> HIDE DEF got
  <2>2. proceeds[m] + got \in Nat
    BY <2>1
  <2> QED
    BY <2>2 DEF got
<1> QED
  BY <1>1, <1>a, <1>4, <1>6, <1>7, <1>9, OneTaskSame DEF Moved, TypeIs, StateIs

LEMMA RemainingType ==
  ASSUME TypeIs, NEW t \in Tasks, Working(t)
  PROVE  Remaining(t) \subseteq Nat
<1> DEFINE m == task[t].sig.mint
           first == UNION {Reads(b) : b \in {wallet[m], wallet[m] + task[t].fill}}
           after == {IF seen > 0 THEN seen ELSE task[t].eff - task[t].sell :
                       seen \in first}
<1>1. /\ wallet[m] \in Nat
      /\ task[t].fill \in Nat /\ task[t].eff - task[t].sell \in Nat
      /\ task[t].eff - task[t].fill \in Nat
  <2>1. TaskOK(task[t]) /\ m \in Mints /\ wallet[m] \in 0 .. Lot
    BY SignalOf DEF TypeIs, StateIs
  <2> QED
    BY <2>1, ExitAssumption DEF TaskOK, TaskType
<1>2. first \subseteq Nat
  <2>1. Reads(wallet[m]) \subseteq Nat
    BY <1>1, ReadsType
  <2>2. wallet[m] + task[t].fill \in Nat
    BY <1>1
  <2>3. Reads(wallet[m] + task[t].fill) \subseteq Nat
    BY <2>2, ReadsType
  <2> QED
    BY <2>1, <2>3
<1>3. after \subseteq Nat
  <2> HIDE DEF first
  <2> QED
    BY <1>1, <1>2
<1> HIDE DEF first, after
<1>4. {left \in after : ~task[t].sig.all \/ left < task[t].eff} \subseteq Nat
  BY <1>3
<1>5. {IF seen < left THEN seen ELSE left :
         seen \in first,
         left \in {l \in after : task[t].sig.all /\ l >= task[t].eff}}
        \subseteq Nat
  BY <1>2, <1>3
<1>6. Remaining(t) \subseteq
        {task[t].eff - task[t].fill} \cup
        ({left \in after : ~task[t].sig.all \/ left < task[t].eff} \cup
         {IF seen < left THEN seen ELSE left :
            seen \in first,
            left \in {l \in after : task[t].sig.all /\ l >= task[t].eff}})
  BY DEF Remaining, first, after
<1> QED
  BY <1>1, <1>4, <1>5, <1>6

LEMMA RowReadsType ==
  ASSUME TypeIs, NEW m \in Mints, NEW old \in RowReads(m)
  PROVE  old.status \in Statuses /\ old.received \in Nat /\ old.pnl \in Int
<1>1. row[m] \in RowType
  BY DEF TypeIs, StateIs
<1>2. old = row[m] \/ old = [status |-> "unknown", received |-> 0, pnl |-> 0]
  BY DEF RowReads
<1> QED
  BY <1>1, <1>2 DEF RowType, Statuses

LEMMA SettleKept ==
  ASSUME TypeIs, NEW t \in Tasks, Settle(t)
  PROVE  TasksOK' /\ SameSignals
<1>1. TasksOK /\ Working(t) /\ TaskOK(task[t]) /\ task[t].pc = "settle"
  BY DEF TypeIs, StateIs, Settle, At, Working, TasksOK
<1> DEFINE m == task[t].sig.mint
<1>2. PICK left \in Remaining(t), old \in RowReads(m) :
       LET sold     == IF left < task[t].eff THEN task[t].eff - left ELSE 0
           received == Accumulated(old, Shorter(sold, task[t].sell) * task[t].price)
           paid     == IF old.status = "unknown" THEN task[t].sig.cost ELSE Cost
           total    == IF paid = NaN THEN 0 ELSE received - paid
           status   == IF left = 0 THEN "closed"
                       ELSE IF task[t].sig.all /\ sold = 0 THEN "exit_failed"
                       ELSE "partial"
       IN task' = [task EXCEPT
                     ![t].pc = IF old.status = "closed" THEN "reply" ELSE "write",
                     ![t].ok = TRUE,
                     ![t].permanent = FALSE,
                     ![t].status = status,
                     ![t].received = received,
                     ![t].pnl = total,
                     ![t].inc = Increment(total, old)]
  BY DEF Settle
<1> DEFINE sold == IF left < task[t].eff THEN task[t].eff - left ELSE 0
           got == Shorter(sold, task[t].sell)
           sum == got * task[t].price
           received == Accumulated(old, sum)
           paid == IF old.status = "unknown" THEN task[t].sig.cost ELSE Cost
           pnl == IF paid = NaN THEN 0 ELSE received - paid
           inc == Increment(pnl, old)
           status == IF left = 0 THEN "closed"
                     ELSE IF task[t].sig.all /\ sold = 0 THEN "exit_failed"
                     ELSE "partial"
           pc == IF old.status = "closed" THEN "reply" ELSE "write"
           k == Settled(task[t], pc, status, received, pnl, inc)
<1>3. task' = [task EXCEPT ![t].pc = pc, ![t].ok = TRUE,
                           ![t].permanent = FALSE, ![t].status = status,
                           ![t].received = received, ![t].pnl = pnl,
                           ![t].inc = inc]
  BY <1>2
<1>4. left \in Nat /\ old.received \in Nat /\ old.pnl \in Int
  BY <1>1, RemainingType, RowReadsType, SignalOf
<1>5. /\ task[t].eff \in Nat /\ task[t].sell \in Nat /\ task[t].price \in Nat
      /\ paid \in Nat \cup {NaN}
  BY <1>1, SignalOf, ExitAssumption DEF TaskOK, TaskType
<1>6. got \in Nat
  BY <1>4, <1>5 DEF Shorter
<1> HIDE DEF got
<1>7. sum \in Nat
  BY <1>5, <1>6, ProductType
<1> HIDE DEF sum
<1>8. received \in Nat
  BY <1>4, <1>7 DEF Accumulated
<1> HIDE DEF received, paid
<1>9. pnl \in Int
  BY <1>5, <1>8
<1> HIDE DEF pnl
<1>10. inc \in Int
  BY <1>4, <1>9 DEF Increment
<1>11. status \in Statuses /\ pc \in {"reply", "write"}
  BY DEF Statuses
<1> HIDE DEF inc, status, pc
<1>12. task' = [task EXCEPT ![t] = k]
  BY <1>1, <1>3 DEF TasksOK, Settled
<1>13. TaskOK(k) /\ k.sig = task[t].sig
  BY <1>1, <1>8, <1>9, <1>10, <1>11, SettledOK
<1> HIDE DEF k
<1> QED
  BY <1>1, <1>12, <1>13, OneTaskSame

\* The steps of a task that end its work are not among these.
Local(t) ==
  \/ ReadBalance(t)
  \/ QuoteFails(t)
  \/ \E price \in Prices :
       QuoteTooLow(t, price) \/ SubmitFails(t, price) \/ Submit(t, price)
  \/ Lands(t) \/ Confirmed(t) \/ Refused(t) \/ TimesOut(t)
  \/ Settle(t) \/ Write(t) \/ Book(t)
  \/ MarkFailed(t) \/ Reply(t)

LEMMA LocalKept ==
  ASSUME TypeIs, NEW t \in Tasks, Local(t)
  PROVE  TasksOK' /\ SameSignals
<1>1. TasksOK
  BY DEF TypeIs, StateIs
<1>2. task[t].kill \in BOOLEAN
  BY <1>1 DEF TasksOK, TaskType
<1>3. CASE QuoteFails(t)
  <2>1. Working(t)
    BY <1>3 DEF QuoteFails, At, Working
  <2> QED
    BY <1>1, <1>2, <1>3, <2>1, FailKept, RetryKept DEF QuoteFails
<1>4. ASSUME NEW price \in Prices, QuoteTooLow(t, price)
      PROVE  TasksOK' /\ SameSignals
  <2>1. Working(t)
    BY <1>4 DEF QuoteTooLow, At, Working
  <2> QED
    BY <1>1, <1>4, <2>1, FailKept DEF QuoteTooLow
<1>5. ASSUME NEW price \in Prices, SubmitFails(t, price)
      PROVE  TasksOK' /\ SameSignals
  <2>1. Working(t)
    BY <1>5 DEF SubmitFails, Sellable, At, Working
  <2>2. PICK err \in Refusals :
          Retry(t, err, task[t].kill \/ Kill(t, price))
    BY <1>5 DEF SubmitFails
  <2> DEFINE kill == task[t].kill \/ Kill(t, price)
  <2>3. kill \in BOOLEAN
    OBVIOUS
  <2> QED
    BY <1>1, <2>1, <2>2, <2>3, RetryKept
<1>6. CASE Confirmed(t)
  <2>1. Working(t) /\ "settle" \in Steps \ {"free", "balance", "write", "book"}
    BY <1>6 DEF Confirmed, At, Working, Steps
  <2> QED
    BY <1>1, <1>6, <2>1, PcKept DEF Confirmed
<1>7. CASE Refused(t)
  <2>1. Working(t)
    BY <1>7 DEF Refused, At, Working
  <2> QED
    BY <1>1, <1>2, <1>7, <2>1, FailKept, RetryKept DEF Refused
<1>8. CASE TimesOut(t)
  <2>1. Working(t)
    BY <1>8 DEF TimesOut, At, Working
  <2> QED
    BY <1>1, <1>2, <1>8, <2>1, RetryKept DEF TimesOut
<1>9. CASE Write(t)
  <2> DEFINE k == [task[t] EXCEPT !.pc = "book"]
  <2>1. task' = [task EXCEPT ![t] = k]
    BY <1>1, <1>9 DEF Write, TasksOK
  <2>2. TaskOK(k) /\ k.sig = task[t].sig
    BY <1>1, <1>9, WriteOK DEF Write, At, TasksOK
  <2> QED
    BY <1>1, <2>1, <2>2, OneTaskSame
<1>10. CASE Book(t) \/ MarkFailed(t)
  <2>1. Working(t) /\ "reply" \in Steps \ {"free", "balance", "write", "book"}
    BY <1>10 DEF Book, MarkFailed, At, Working, Steps
  <2> QED
    BY <1>1, <1>10, <2>1, PcKept DEF Book, MarkFailed
<1>11. CASE Reply(t)
  <2>1. Working(t) /\ "release" \in Steps \ {"free", "balance", "write", "book"}
    BY <1>11 DEF Reply, At, Working, Steps
  <2> QED
    BY <1>1, <1>11, <2>1, PcKept DEF Reply
<1> QED
  BY <1>3, <1>4, <1>5, <1>6, <1>7, <1>8, <1>9, <1>10, <1>11, ReadBalanceKept,
     SubmitKept, LandsKept, SettleKept DEF Local

-----------------------------------------------------------------------------
(* The type invariant. *)

LEMMA Untouched ==
  ASSUME StateIs,
         UNCHANGED <<tsVars, exitQ, polling, claims, wallet, late, row, sent,
                     proceeds>>
  PROVE  StateIs'
  BY DEF StateIs, TSTypeOK, tsVars

LEMMA LocalState ==
  ASSUME TypeIs, NEW t \in Tasks, Local(t)
  PROVE  StateIs'
<1>1. StateIs /\ TasksOK
  BY DEF TypeIs
<1>2. CASE \/ ReadBalance(t) \/ QuoteFails(t) \/ Confirmed(t) \/ Refused(t)
           \/ Settle(t) \/ Reply(t)
           \/ \E price \in Prices :
                QuoteTooLow(t, price) \/ Submit(t, price)
  BY <1>1, <1>2, Untouched
     DEF ReadBalance, QuoteFails, Confirmed, Refused, Settle, Reply,
         QuoteTooLow, Submit
<1>3. ASSUME UNCHANGED tsVars PROVE TSTypeOK'
  BY <1>1, <1>3 DEF StateIs, TSTypeOK, tsVars
<1>4. CASE Lands(t)
  BY <1>1, <1>3, <1>4, LandsKept DEF Lands, StateIs
<1>5. ASSUME Working(t), NEW price \in Nat, MayLandLate(t, price)
      PROVE  late' \in SUBSET LateType
  <2>1. task[t].sig.mint \in Mints /\ task[t].sell \in 0 .. Lot
    BY <1>1, <1>5, SignalOf DEF TaskOK, TaskType
  <2> QED
    BY <1>1, <1>5, <2>1 DEF MayLandLate, StateIs, LateType
<1>9. ASSUME NEW price \in Prices, SubmitFails(t, price) PROVE StateIs'
  <2>1. Working(t) /\ price \in Nat
    BY <1>9, ExitAssumption DEF SubmitFails, Sellable, At, Working
  <2>2. late' \in SUBSET LateType
    BY <1>5, <1>9, <2>1 DEF SubmitFails
  <2> QED
    BY <1>1, <1>3, <1>9, <2>2 DEF SubmitFails, StateIs
<1>10. CASE TimesOut(t)
  <2>1. Working(t)
    BY <1>10 DEF TimesOut, At, Working
  <2>2. task[t].price \in Nat
    BY <1>1, <2>1, SignalOf DEF TaskOK, TaskType
  <2>3. late' \in SUBSET LateType
    <3>1. CASE task[t].tx = "landed"
      BY <1>1, <1>10, <3>1 DEF TimesOut, StateIs
    <3>2. CASE task[t].tx # "landed"
      BY <1>5, <1>10, <2>1, <2>2, <3>2 DEF TimesOut
    <3> QED
      BY <3>1, <3>2
  <2> QED
    BY <1>1, <1>3, <1>10, <2>3 DEF TimesOut, StateIs
<1>6. CASE Write(t)
  <2>1. Working(t) /\ task[t].pc = "write"
    BY <1>6 DEF Write, At, Working
  <2>2. /\ task[t].status \in Statuses /\ task[t].received \in Nat
        /\ task[t].pnl \in Int
    BY <1>1, <2>1, SignalOf DEF TaskOK, TaskType
  <2> DEFINE new == [status |-> task[t].status, received |-> task[t].received,
                     pnl |-> task[t].pnl]
  <2>3. new \in RowType
    BY <2>2 DEF RowType
  <2>4. row' = [row EXCEPT ![task[t].sig.mint] = new] \/ UNCHANGED row
    BY <1>6 DEF Write
  <2> HIDE DEF new
  <2>5. row' \in [Mints -> RowType]
    BY <1>1, <2>3, <2>4 DEF StateIs
  <2> QED
    BY <1>1, <1>3, <1>6, <2>5 DEF Write, StateIs
<1>7. CASE Book(t)
  <2>1. Working(t)
    BY <1>7 DEF Book, At, Working
  <2>2. /\ task[t].sig.mint \in Mints /\ task[t].sig.cost \in Nat \cup {NaN}
        /\ task[t].inc \in Int
    BY <1>1, <2>1, SignalOf DEF TaskOK, TaskType
  <2>3. (task[t].status = "closed") \in BOOLEAN
    OBVIOUS
  <2>4. TSTypeOK'
    BY <1>1, <1>7, <2>2, <2>3, RecordExitType DEF Book, StateIs
  <2> QED
    BY <1>1, <1>7, <2>4 DEF Book, StateIs
<1>8. CASE MarkFailed(t)
  <2> DEFINE m == task[t].sig.mint
             new == [row[m] EXCEPT !.status = "exit_failed"]
  <2>1. m \in Mints /\ row \in [Mints -> RowType]
    BY <1>1, <1>8, SignalOf DEF MarkFailed, At, Working, StateIs
  <2>2. new \in RowType
    BY <2>1 DEF RowType, Statuses
  <2>3. row' = [row EXCEPT ![m] = new] \/ UNCHANGED row
    BY <1>8, <2>1 DEF MarkFailed
  <2> HIDE DEF m, new
  <2>4. row' \in [Mints -> RowType]
    BY <2>1, <2>2, <2>3
  <2> QED
    BY <1>1, <1>3, <1>8, <2>4 DEF MarkFailed, StateIs
<1> QED
  BY <1>2, <1>4, <1>6, <1>7, <1>8, <1>9, <1>10 DEF Local

LEMMA TypeInit == Init => TypeIs
<1> SUFFICES ASSUME Init PROVE TypeIs
  OBVIOUS
<1>1. Cost * Cardinality(Mints) \in Nat
  <2>1. Cardinality(Mints) \in Nat
    BY FS_CardinalityType, ExitAssumption
  <2> QED
    BY <2>1, ProductType, ExitAssumption
<1>2. TSTypeOK
  <2>1. /\ [m \in Mints |-> 0] \in [Mints -> Ages \cup {None}]
        /\ [m \in Mints |-> None] \in [Mints -> Ages \cup {None}]
    BY ZeroAge
  <2>2. \A m \in Mints : m \in openMints
    BY DEF Init
  <2>3. /\ openMints \in SUBSET Mints /\ pendingMints \in SUBSET Mints
        /\ blacklistedDevs \in SUBSET Devs
    BY DEF Init
  <2>4. exposure \in Nat \cup {NaN} /\ todayPnl \in Int
    BY <1>1 DEF Init
  <2>5. rolledOver \in BOOLEAN
    BY DEF Init
  <2>6. /\ openSince \in [Mints -> Ages \cup {None}]
        /\ recentlyExited \in [Mints -> Ages \cup {None}]
    BY <2>1 DEF Init
  <2> QED
    BY <2>2, <2>3, <2>4, <2>5, <2>6 DEF TSTypeOK
<1>3. TasksOK
  <2>1. task = [t \in Tasks |-> Free]
    BY DEF Init
  <2> QED
    BY <2>1, FreeOK DEF TasksOK, TaskOK
<1>4. /\ exitQ \in Seq(Signal) /\ polling \in Signal \cup {None}
      /\ claims \in SUBSET Mints /\ late \in SUBSET LateType
  BY DEF Init
<1>5. /\ wallet \in [Mints -> 0 .. Lot]
      /\ sent \in [Mints -> 0 .. MaxSignals]
      /\ proceeds \in [Mints -> Nat]
  BY ExitAssumption DEF Init
<1>6. row \in [Mints -> RowType]
  <2>1. [status |-> "open", received |-> 0, pnl |-> 0] \in RowType
    BY DEF RowType, Statuses
  <2> QED
    BY <2>1 DEF Init
<1> QED
  BY <1>2, <1>3, <1>4, <1>5, <1>6 DEF TypeIs, StateIs

\* What the loop finds at the head of the channel.
LEMMA HeadType ==
  ASSUME StateIs, Receives
  PROVE  Head(exitQ) \in Signal /\ Head(exitQ).mint \in Mints /\ Tail(exitQ) \in Seq(Signal)
<1>1. Head(exitQ) \in Signal /\ Tail(exitQ) \in Seq(Signal)
  BY DEF StateIs, Receives
<1> QED
  BY <1>1 DEF Signal

\* Whoever sends it, for whatever reason.
LEMMA SendKept ==
  ASSUME TypeIs, NEW sig \in Signal, SendSignal(sig)
  PROVE  TypeIs'
<1>1. sig.mint \in Mints
  BY DEF Signal
<1>2. exitQ' \in Seq(Signal) /\ sent' \in [Mints -> 0 .. MaxSignals]
  BY <1>1, ExitAssumption DEF SendSignal, TypeIs, StateIs
<1>3. TasksOK'
  BY DEF TypeIs, TasksOK, TaskOK, SendSignal
<1>4. TSTypeOK'
  BY DEF TypeIs, StateIs, TSTypeOK, tsVars, SendSignal
<1> QED
  BY <1>2, <1>3, <1>4 DEF SendSignal, TypeIs, StateIs

LEMMA TypeNext == TypeIs /\ [Next]_vars => TypeIs'
<1> SUFFICES ASSUME TypeIs, [Next]_vars PROVE TasksOK' /\ StateIs'
  BY DEF TypeIs
<1>t. TasksOK /\ StateIs
  BY DEF TypeIs
<1>u. ASSUME UNCHANGED tsVars PROVE TSTypeOK'
  BY <1>t, <1>u DEF StateIs, TSTypeOK, tsVars
<1>v. ASSUME UNCHANGED task PROVE TasksOK'
  BY <1>t, <1>v DEF TasksOK, TaskOK
<1>1. ASSUME NEW sig \in Inputs, SendSignal(sig) PROVE TasksOK' /\ StateIs'
  BY <1>1, SendKept, ExitAssumption DEF TypeIs
<1>2. DropDuplicate => TasksOK' /\ StateIs'
  BY <1>t, <1>u, <1>v, HeadType DEF DropDuplicate, StateIs
<1>3. ASSUME NEW t \in Tasks, Accept(t) PROVE TasksOK' /\ StateIs'
  <2>1. /\ Head(exitQ) \in Signal /\ Head(exitQ).mint \in Mints
        /\ Tail(exitQ) \in Seq(Signal)
    BY <1>t, <1>3, HeadType DEF Accept
  <2>2. TasksOK'
    BY <1>t, <1>3, <2>1, SpawnedOK, OneTask DEF Accept
  <2> QED
    BY <1>t, <1>u, <1>3, <2>1, <2>2 DEF Accept, StateIs
<1>4. AcceptUnsized => TasksOK' /\ StateIs'
  BY <1>t, <1>u, <1>v, HeadType DEF AcceptUnsized, StateIs
<1>5. ASSUME NEW t \in Tasks, PollResolves(t) PROVE TasksOK' /\ StateIs'
  <2> DEFINE sig == [polling EXCEPT !.amount = wallet[polling.mint]]
  <2>1. polling \in Signal
    BY <1>t, <1>5 DEF PollResolves, StateIs
  <2>2. polling.mint \in Mints
    BY <2>1 DEF Signal
  <2>3. wallet[polling.mint] \in 0 .. Lot
    BY <1>t, <2>2 DEF StateIs
  <2>4. sig \in Signal
    BY <2>1, <2>3 DEF Signal
  <2>5. task' = [task EXCEPT ![t] = Spawned(sig)]
    BY <1>5 DEF PollResolves
  <2> HIDE DEF sig
  <2>6. TasksOK'
    BY <1>t, <2>4, <2>5, SpawnedOK, OneTask
  <2> QED
    BY <1>t, <1>u, <1>5, <2>6 DEF PollResolves, StateIs
<1>6. PollGivesUp => TasksOK' /\ StateIs'
  BY <1>t, <1>u, <1>v DEF PollGivesUp, StateIs
<1>7. ASSUME NEW t \in Tasks, Local(t) PROVE TasksOK' /\ StateIs'
  BY <1>7, LocalKept, LocalState
<1>8. ASSUME NEW t \in Tasks, Release(t) PROVE TasksOK' /\ StateIs'
  <2>1. TasksOK'
    BY <1>t, <1>8, FreeOK, OneTask DEF Release
  <2> QED
    BY <1>t, <1>u, <1>8, <2>1 DEF Release, StateIs
<1>9. ASSUME NEW x \in late, LandsLate(x) PROVE TasksOK' /\ StateIs'
  <2>1. /\ x.mint \in Mints /\ x.tokens \in 0 .. Lot /\ x.price \in Nat
        /\ late' \in SUBSET LateType
    BY <1>t, <1>9 DEF LandsLate, StateIs, LateType
  <2>2. CASE x.tokens <= wallet[x.mint]
    <3> DEFINE got == x.tokens * x.price
    <3>1. got \in Nat
      BY <2>1, ExitAssumption, ProductType
    <3>2. /\ wallet' = [wallet EXCEPT ![x.mint] = @ - x.tokens]
          /\ proceeds' = [proceeds EXCEPT ![x.mint] = @ + got]
      BY <1>9, <2>2 DEF LandsLate, Moved
    <3> HIDE DEF got
    <3>3. wallet \in [Mints -> 0 .. Lot] /\ proceeds \in [Mints -> Nat]
      BY <1>t DEF StateIs
    <3>4. wallet[x.mint] - x.tokens \in 0 .. Lot
      BY <2>1, <2>2, <3>3, Difference
    <3>5. wallet' \in [Mints -> 0 .. Lot]
      BY <2>1, <3>2, <3>3, <3>4
    <3>6. proceeds[x.mint] + got \in Nat
      BY <2>1, <3>1, <3>3
    <3>7. proceeds' \in [Mints -> Nat]
      BY <2>1, <3>2, <3>3, <3>6
    <3> QED
      BY <1>t, <1>u, <1>v, <1>9, <2>1, <3>5, <3>7 DEF LandsLate, StateIs
  <2>3. CASE ~(x.tokens <= wallet[x.mint])
    BY <1>t, <1>u, <1>v, <1>9, <2>1, <2>3 DEF LandsLate, StateIs
  <2> QED
    BY <2>2, <2>3
<1>10. UNCHANGED vars => TasksOK' /\ StateIs'
  BY <1>t, <1>v, Untouched DEF vars, exitVars
<1> QED
  BY <1>1, <1>2, <1>3, <1>4, <1>5, <1>6, <1>7, <1>8, <1>9, <1>10
     DEF Next, Engine, Loop, TaskStep, Chain, Local

(***************************************************************************)
(* The types of the exit engine, of its tasks and of the chain: no retry   *)
(* goes past the last tier, no task sells more than it set out to, and the *)
(* wallet never goes below nothing (exit/mod.rs:645-690).                  *)
(***************************************************************************)
THEOREM TypeCorrect == Spec => []TypeOK
<1>1. Spec => []TypeIs
  BY TypeInit, TypeNext, PTL DEF Spec
<1> QED
  BY <1>1, TypeImplies, PTL

-----------------------------------------------------------------------------
(* One task for each position. *)

(***************************************************************************)
(* Why OneTaskPerPosition holds: a task and the loop's poll keep their     *)
(* position claimed, and what is claimed is neither accepted nor polled    *)
(* for.                                                                    *)
(***************************************************************************)
ClaimInv ==
  /\ \A t \in Tasks : task[t].sig # None => task[t].sig.mint \in claims
  /\ \A t, u \in Tasks :
       /\ task[t].sig # None
       /\ task[u].sig # None
       /\ task[t].sig.mint = task[u].sig.mint
       => t = u
  /\ polling # None =>
       /\ polling.mint \in claims
       /\ \A t \in Tasks : task[t].sig # None => task[t].sig.mint # polling.mint

LEMMA ClaimInit == Init => ClaimInv
  BY DEF Init, ClaimInv, Free

LEMMA ClaimNext ==
  ASSUME TypeIs, ClaimInv, [Next]_vars
  PROVE  ClaimInv'
<1> USE DEF ClaimInv
<1>t. /\ TasksOK /\ StateIs
      /\ task \in [Tasks -> TaskType]
      /\ None \notin Signal
  BY ExitAssumption DEF TypeIs, TasksOK
<1>u. ASSUME SameSignals, UNCHANGED <<claims, polling>> PROVE ClaimInv'
  BY <1>u DEF SameSignals
<1>v. ASSUME UNCHANGED <<task, claims, polling>> PROVE ClaimInv'
  BY <1>v
<1>1. ASSUME NEW sig \in Inputs, SendSignal(sig) PROVE ClaimInv'
  BY <1>v, <1>1 DEF SendSignal
<1>2. DropDuplicate => ClaimInv'
  BY <1>v DEF DropDuplicate
<1>3. ASSUME NEW t \in Tasks, Accept(t) PROVE ClaimInv'
  <2> DEFINE sig == Head(exitQ)
  <2>1. sig \in Signal /\ sig.mint \notin claims /\ polling = None
    BY <1>t, <1>3, HeadType DEF Accept, Receives
  <2>2. /\ task' = [task EXCEPT ![t] = Spawned(sig)]
        /\ claims' = claims \cup {sig.mint}
        /\ polling' = polling
    BY <1>3 DEF Accept
  <2>3. Spawned(sig).sig = sig
    BY <2>1, SpawnedOK
  <2> HIDE DEF sig
  <2> QED
    BY <1>t, <2>1, <2>2, <2>3
<1>4. AcceptUnsized => ClaimInv'
  BY <1>t, HeadType DEF AcceptUnsized, Receives
<1>5. ASSUME NEW t \in Tasks, PollResolves(t) PROVE ClaimInv'
  <2> DEFINE sig == [polling EXCEPT !.amount = wallet[polling.mint]]
  <2>1. polling \in Signal /\ polling # None
    BY <1>t, <1>5 DEF PollResolves, StateIs
  <2>2. polling.mint \in Mints
    BY <2>1 DEF Signal
  <2>3. wallet[polling.mint] \in 0 .. Lot
    BY <1>t, <2>2 DEF StateIs
  <2>4. sig \in Signal /\ sig.mint = polling.mint
    BY <2>1, <2>3 DEF Signal
  <2>5. /\ task' = [task EXCEPT ![t] = Spawned(sig)]
        /\ claims' = claims
        /\ polling' = None
    BY <1>5 DEF PollResolves
  <2> HIDE DEF sig
  <2>6. Spawned(sig).sig = sig
    BY <2>4, SpawnedOK
  <2> QED
    BY <1>t, <2>1, <2>4, <2>5, <2>6
<1>6. PollGivesUp => ClaimInv'
  BY <1>t DEF PollGivesUp
<1>7. ASSUME NEW t \in Tasks, Local(t) PROVE ClaimInv'
  <2>1. UNCHANGED <<claims, polling>>
    BY <1>7 DEF Local, ReadBalance, QuoteFails, QuoteTooLow, SubmitFails,
                Submit, Lands, Confirmed, Refused, TimesOut, Settle, Write,
                Book, MarkFailed, Reply
  <2> QED
    BY <1>7, <1>u, <2>1, LocalKept
<1>8. ASSUME NEW t \in Tasks, Release(t) PROVE ClaimInv'
  <2>1. task[t].sig # None
    BY <1>t, <1>8 DEF Release, At, TasksOK, TaskOK
  <2>2. /\ task' = [task EXCEPT ![t] = Free]
        /\ claims' = claims \ {task[t].sig.mint}
        /\ polling' = polling
    BY <1>8 DEF Release
  <2>3. Free.sig = None
    BY DEF Free
  <2> QED
    BY <1>t, <2>1, <2>2, <2>3
<1>9. ASSUME NEW x \in late, LandsLate(x) PROVE ClaimInv'
  BY <1>v, <1>9 DEF LandsLate
<1>10. UNCHANGED vars => ClaimInv'
  BY <1>v DEF vars, exitVars
<1> QED
  BY <1>1, <1>2, <1>3, <1>4, <1>5, <1>6, <1>7, <1>8, <1>9, <1>10
     DEF Next, Engine, Loop, TaskStep, Chain, Local

(***************************************************************************)
(* Never two exit tasks on one position, nor one on the position that the  *)
(* loop is polling for (exit/dedup.rs:14), whatever signals are sent.      *)
(***************************************************************************)
THEOREM OnlyOneTask == Spec => []OneTaskPerPosition
<1>1. TypeIs /\ ClaimInv => OneTaskPerPosition
  BY DEF TypeIs, StateIs, TasksOK, TaskOK, ClaimInv, OneTaskPerPosition, On, Working
<1>2. TypeIs /\ ClaimInv /\ [Next]_vars => ClaimInv'
  BY ClaimNext
<1> QED
  BY <1>1, <1>2, ClaimInit, TypeInit, TypeNext, PTL DEF Spec

-----------------------------------------------------------------------------
(***************************************************************************)
(* The accounts of a position, for any number of tasks, positions, signals *)
(* and prices, while the engine sees what happens: sells may be refused    *)
(* for good, fall short, or find a balance unreadable, but what is sent is *)
(* seen, and the row is read and written.                                  *)
(***************************************************************************)

Seen == Faults \cap {"timeout", "no_metadata", "row_read", "row_write"} = {}

\* Monitors and watchers ask for the whole position, or do not know it.
Sized == \A sig \in Inputs : sig.amount \in {0, Lot}

-----------------------------------------------------------------------------
(* Why the accounts agree: between two exits of a position they are even,  *)
(* and at each step of an exit the task carries just what is missing.      *)

\* The row r and what was booked, b, agree with the proceeds p.
Even(r, p, b) == b = r.pnl /\ r.received = p

\* A sell of k has landed: w tokens are left, the row is as it was before.
Sold(k, w, r, p, b) ==
  /\ b = r.pnl
  /\ p = r.received + k.fill * k.price
  /\ w <= k.eff - k.fill
  /\ r.status # "closed"

Asking(k) == k.pc = "attempt" \/ (k.pc = "confirm" /\ k.tx = "flying")

Accounts(k, w, r, p, b) ==
  /\ k.pc \in {"balance", "mark", "reply", "release"} => Even(r, p, b)
  /\ k.pc = "balance" => w <= k.sig.amount
  /\ Asking(k) => Even(r, p, b) /\ k.sell > 0 /\ w <= k.eff
  /\ k.pc = "confirm" => k.tx \in {"flying", "landed"}
  /\ k.pc = "settle" \/ (k.pc = "confirm" /\ k.tx = "landed")
       => Sold(k, w, r, p, b)
  /\ k.pc = "write" =>
       /\ b = r.pnl
       /\ b + k.inc = k.pnl
       /\ k.received = p
       /\ k.status = "closed" => w = 0
  /\ k.pc = "book" => r.received = p /\ r.pnl = b + k.inc

Idle(m) == \A t \in Tasks : task[t].sig # None => task[t].sig.mint # m

AccountsOf(k, m) == Accounts(k, wallet[m], row[m], proceeds[m], booked[m])

AccountInv ==
  /\ booked \in [Mints -> Int]
  /\ late = {}
  /\ ClosedMeansSold
  /\ \A i \in DOMAIN exitQ : exitQ[i].amount \in {0, Lot}
  /\ \A m \in Mints : Idle(m) => Even(row[m], proceeds[m], booked[m])
  /\ \A t \in Tasks :
       task[t].sig # None => AccountsOf(task[t], task[t].sig.mint)

LEMMA AccountInit == Init => AccountInv
  BY ExitAssumption
     DEF Init, AccountInv, ClosedMeansSold, Idle, Even, Free

-----------------------------------------------------------------------------
(* A step of one task touches the accounts of its position alone. *)

LEMMA TaskStepKept ==
  ASSUME TypeIs, ClaimInv, AccountInv,
         NEW t \in Tasks, Working(t),
         NEW m \in Mints, m = task[t].sig.mint,
         NEW k, k.sig = task[t].sig,
         NEW w, NEW r, NEW p, NEW b \in Int,
         task' = [task EXCEPT ![t] = k],
         wallet' = [wallet EXCEPT ![m] = w],
         row' = [row EXCEPT ![m] = r],
         proceeds' = [proceeds EXCEPT ![m] = p],
         booked' = [booked EXCEPT ![m] = b],
         UNCHANGED <<exitQ, late>>,
         Accounts(k, w, r, p, b),
         r.status = "closed" => w = 0
  PROVE  AccountInv'
<1>1. /\ task \in [Tasks -> TaskType] /\ task[t].sig # None
      /\ wallet \in [Mints -> 0 .. Lot] /\ row \in [Mints -> RowType]
      /\ proceeds \in [Mints -> Nat] /\ booked \in [Mints -> Int]
  BY DEF TypeIs, TasksOK, StateIs, TaskOK, Working, AccountInv
<1>2. /\ wallet'[m] = w /\ row'[m] = r /\ proceeds'[m] = p /\ booked'[m] = b
      /\ task'[t] = k
  BY <1>1
<1>3. \A n \in Mints \ {m} :
        /\ wallet'[n] = wallet[n] /\ row'[n] = row[n]
        /\ proceeds'[n] = proceeds[n] /\ booked'[n] = booked[n]
  BY <1>1
<1>4. \A u \in Tasks : task'[u].sig = task[u].sig
  BY <1>1
<1>5. booked' \in [Mints -> Int]
  BY <1>1
<1>6. ClosedMeansSold'
  BY <1>2, <1>3 DEF AccountInv, ClosedMeansSold
<1>7. \A n \in Mints : Idle(n)' => Even(row'[n], proceeds'[n], booked'[n])
  <2> SUFFICES ASSUME NEW n \in Mints, Idle(n)'
               PROVE  Even(row'[n], proceeds'[n], booked'[n])
    OBVIOUS
  <2>1. Idle(n) /\ n # m
    BY <1>1, <1>4 DEF Idle
  <2> QED
    BY <1>3, <2>1 DEF AccountInv
<1>8. ASSUME NEW u \in Tasks, task'[u].sig # None
      PROVE  LET n == task'[u].sig.mint
             IN  Accounts(task'[u], wallet'[n], row'[n], proceeds'[n], booked'[n])
  <2>1. CASE u = t
    <3>1. task'[u] = k /\ task'[u].sig.mint = m
      BY <1>2, <2>1
    <3> QED
      BY <1>2, <3>1
  <2>2. CASE u # t
    <3> DEFINE n == task[u].sig.mint
    <3>1. task[u].sig # None /\ task'[u] = task[u]
      BY <1>1, <1>4, <1>8, <2>2
    <3>2. n # m
      BY <1>1, <2>2, <3>1 DEF ClaimInv
    <3>3. n \in Mints
      BY <3>1, SignalOf DEF TypeIs, TasksOK, TaskOK, Working
    <3>4. Accounts(task[u], wallet[n], row[n], proceeds[n], booked[n])
      BY <3>1 DEF AccountInv, AccountsOf
    <3> QED
      BY <1>3, <3>1, <3>2, <3>3, <3>4
  <2> QED
    BY <2>1, <2>2
<1>9. /\ late' = {}
      /\ \A i \in DOMAIN exitQ' : exitQ'[i].amount \in {0, Lot}
  BY DEF AccountInv
<1>10. (\A n \in Mints : Idle(n) => Even(row[n], proceeds[n], booked[n]))'
  BY <1>7
<1>11. (\A u \in Tasks :
          task[u].sig # None => AccountsOf(task[u], task[u].sig.mint))'
  BY <1>8 DEF AccountsOf
<1>12. (\A i \in DOMAIN exitQ : exitQ[i].amount \in {0, Lot})'
  BY <1>9
<1> QED
  BY <1>5, <1>6, <1>9, <1>10, <1>11, <1>12 DEF AccountInv

LEMMA TaskOnlyKept ==
  ASSUME TypeIs, ClaimInv, AccountInv,
         NEW t \in Tasks, Working(t),
         NEW k, k.sig = task[t].sig,
         task' = [task EXCEPT ![t] = k],
         UNCHANGED <<exitQ, late, wallet, row, proceeds, booked>>,
         AccountsOf(k, task[t].sig.mint)
  PROVE  AccountInv'
<1> DEFINE m == task[t].sig.mint
<1>1. m \in Mints /\ TasksOK
  BY SignalOf DEF TypeIs
<1>2. /\ wallet \in [Mints -> 0 .. Lot] /\ row \in [Mints -> RowType]
      /\ proceeds \in [Mints -> Nat] /\ booked \in [Mints -> Int]
  BY DEF TypeIs, StateIs, AccountInv
<1>3. /\ wallet' = [wallet EXCEPT ![m] = wallet[m]]
      /\ row' = [row EXCEPT ![m] = row[m]]
      /\ proceeds' = [proceeds EXCEPT ![m] = proceeds[m]]
      /\ booked' = [booked EXCEPT ![m] = booked[m]]
      /\ booked[m] \in Int
  BY <1>1, <1>2
<1>4. row[m].status = "closed" => wallet[m] = 0
  BY <1>1 DEF AccountInv, ClosedMeansSold
<1>5. Accounts(k, wallet[m], row[m], proceeds[m], booked[m])
  BY DEF AccountsOf
<1>6. m = task[t].sig.mint
  OBVIOUS
<1> DEFINE w == wallet[m]
           r == row[m]
           p == proceeds[m]
           b == booked[m]
<1>7. /\ wallet' = [wallet EXCEPT ![m] = w]
      /\ row' = [row EXCEPT ![m] = r]
      /\ proceeds' = [proceeds EXCEPT ![m] = p]
      /\ booked' = [booked EXCEPT ![m] = b]
      /\ b \in Int
      /\ r.status = "closed" => w = 0
      /\ Accounts(k, w, r, p, b)
  BY <1>3, <1>4, <1>5
<1> HIDE DEF m, w, r, p, b
<1> QED
  BY <1>1, <1>6, <1>7, TaskStepKept

\* What a task at work finds.
LEMMA AtWork ==
  ASSUME TypeIs, AccountInv, NEW t \in Tasks, Working(t)
  PROVE  LET k == task[t]
             m == k.sig.mint
         IN  /\ TaskOK(k) /\ k \in TaskType /\ k.sig # None
             /\ k.sig \in Signal /\ m \in Mints
             /\ AccountsOf(k, m)
             /\ Accounts(k, wallet[m], row[m], proceeds[m], booked[m])
             /\ wallet[m] \in 0 .. Lot /\ row[m] \in RowType
             /\ proceeds[m] \in Nat /\ booked[m] \in Int
             /\ row[m].status = "closed" => wallet[m] = 0
<1> DEFINE k == task[t]
           m == k.sig.mint
<1>1. TaskOK(k) /\ k \in TaskType /\ k.sig # None /\ k.sig \in Signal /\ m \in Mints
  BY SignalOf DEF TypeIs, TasksOK, TaskOK, Working
<1>2. AccountsOf(k, m)
  BY <1>1 DEF AccountInv
<1>3. Accounts(k, wallet[m], row[m], proceeds[m], booked[m])
  BY <1>2 DEF AccountsOf
<1>4. /\ wallet[m] \in 0 .. Lot /\ row[m] \in RowType
      /\ proceeds[m] \in Nat /\ booked[m] \in Int
      /\ row[m].status = "closed" => wallet[m] = 0
  BY <1>1 DEF TypeIs, StateIs, AccountInv, ClosedMeansSold
<1> QED
  BY <1>1, <1>2, <1>3, <1>4

-----------------------------------------------------------------------------
(* The steps of a task. *)

OnlyTask == UNCHANGED <<exitQ, late, wallet, row, proceeds, booked>>

EvenFor(t) ==
  LET m == task[t].sig.mint IN Even(row[m], proceeds[m], booked[m])

LEMMA FailAccounts ==
  ASSUME TypeIs, ClaimInv, AccountInv, NEW t \in Tasks, Working(t), NEW err,
         Fail(t, err), OnlyTask, EvenFor(t)
  PROVE  AccountInv'
<1> DEFINE pc == IF err \in Retryable THEN "reply" ELSE "mark"
           k == [task[t] EXCEPT !.pc = pc, !.ok = FALSE,
                                !.permanent = err \notin Retryable]
<1>1. task[t] \in TaskType /\ TasksOK
  BY AtWork DEF TypeIs
<1>2. task' = [task EXCEPT ![t] = k]
  BY <1>1 DEF TasksOK, Fail
<1>3. k.pc \in {"mark", "reply"} /\ k.sig = task[t].sig
  BY <1>1 DEF TaskType
<1> HIDE DEF k
<1>4. AccountsOf(k, task[t].sig.mint)
  BY <1>3 DEF AccountsOf, Accounts, Asking, EvenFor
<1> QED
  BY <1>2, <1>3, <1>4, TaskOnlyKept DEF OnlyTask

LEMMA RetryAccounts ==
  ASSUME TypeIs, ClaimInv, AccountInv, NEW t \in Tasks, Working(t), NEW err,
         NEW kill \in BOOLEAN, Retry(t, err, kill), OnlyTask, Asking(task[t])
  PROVE  AccountInv'
<1>1. task[t] \in TaskType /\ TasksOK
  BY AtWork DEF TypeIs
<1>2. EvenFor(t) /\ task[t].sell > 0 /\ wallet[task[t].sig.mint] <= task[t].eff
  BY AtWork DEF Accounts, EvenFor
<1>3. CASE task[t].attempt = ExitRetries \/ kill
  BY <1>2, <1>3, FailAccounts DEF Retry
<1>4. CASE ~(task[t].attempt = ExitRetries \/ kill)
  <2> DEFINE k == [task[t] EXCEPT !.pc = "attempt", !.attempt = @ + 1,
                                  !.kill = kill, !.tx = "none"]
  <2>1. task' = [task EXCEPT ![t] = k]
    BY <1>1, <1>4 DEF TasksOK, Retry
  <2>2. /\ k.pc = "attempt" /\ k.sig = task[t].sig
        /\ k.sell = task[t].sell /\ k.eff = task[t].eff
    BY <1>1 DEF TaskType
  <2> HIDE DEF k
  <2>3. AccountsOf(k, task[t].sig.mint)
    BY <1>2, <2>2 DEF AccountsOf, Accounts, Asking, EvenFor
  <2> QED
    BY <2>1, <2>2, <2>3, TaskOnlyKept DEF OnlyTask
<1> QED
  BY <1>3, <1>4

LEMMA ReadBalanceAccounts ==
  ASSUME TypeIs, ClaimInv, AccountInv, NEW t \in Tasks, ReadBalance(t)
  PROVE  AccountInv'
<1>1. Working(t) /\ task[t].pc = "balance" /\ OnlyTask
  BY DEF ReadBalance, At, Working, OnlyTask
<1> DEFINE sig == task[t].sig
           m == sig.mint
<1>2. /\ task[t] \in TaskType /\ TasksOK /\ wallet[m] \in 0 .. Lot
      /\ sig \in Signal
      /\ Accounts(task[t], wallet[m], row[m], proceeds[m], booked[m])
  BY <1>1, AtWork DEF TypeIs
<1>3. EvenFor(t) /\ wallet[m] <= sig.amount
  BY <1>1, <1>2 DEF Accounts, EvenFor
<1>4. sig.amount \in 0 .. Lot
  BY <1>2 DEF Signal
<1>5. PICK seen \in Reads(wallet[m]) :
        LET eff  == IF seen > 0 /\ seen < sig.amount THEN seen ELSE sig.amount
            sell == IF sig.all THEN eff ELSE eff \div 2
        IN IF sell = 0
           THEN Fail(t, "Permanent")
           ELSE task' = [task EXCEPT ![t].pc = "attempt", ![t].eff = eff,
                                     ![t].sell = sell]
  BY DEF ReadBalance
<1>6. seen = wallet[m] \/ seen = 0
  BY DEF Reads
<1> DEFINE eff == IF seen > 0 /\ seen < sig.amount THEN seen ELSE sig.amount
           sell == IF sig.all THEN eff ELSE eff \div 2
<1>7. CASE sell = 0
  BY <1>1, <1>3, <1>5, <1>7, FailAccounts
<1>8. CASE sell # 0
  <2> DEFINE k == [task[t] EXCEPT !.pc = "attempt", !.eff = eff, !.sell = sell]
  <2>1. task' = [task EXCEPT ![t] = k]
    BY <1>2, <1>5, <1>8 DEF TasksOK
  <2>2. eff \in Nat /\ wallet[m] <= eff
    BY <1>2, <1>3, <1>4, <1>6, ExitAssumption
  <2>3. sell > 0
    BY <1>8, <2>2
  <2>4. k.pc = "attempt" /\ k.sig = sig /\ k.eff = eff /\ k.sell = sell
    BY <1>2 DEF TaskType
  <2> HIDE DEF k, eff, sell
  <2>5. AccountsOf(k, m)
    BY <1>3, <2>2, <2>3, <2>4 DEF AccountsOf, Accounts, Asking, EvenFor
  <2> QED
    BY <1>1, <2>1, <2>4, <2>5, TaskOnlyKept DEF OnlyTask
<1> QED
  BY <1>7, <1>8

LEMMA SubmitAccounts ==
  ASSUME TypeIs, ClaimInv, AccountInv, NEW t \in Tasks, NEW price \in Prices,
         Submit(t, price)
  PROVE  AccountInv'
<1>1. Working(t) /\ task[t].pc = "attempt" /\ OnlyTask
  BY DEF Submit, Sellable, At, Working, OnlyTask
<1> DEFINE k == [task[t] EXCEPT !.pc = "confirm", !.tx = "flying",
                                !.price = price, !.kill = @ \/ Kill(t, price)]
<1>2. task[t] \in TaskType /\ TasksOK
  BY <1>1, AtWork DEF TypeIs
<1>3. EvenFor(t) /\ task[t].sell > 0 /\ wallet[task[t].sig.mint] <= task[t].eff
  BY <1>1, AtWork DEF Accounts, Asking, EvenFor
<1>4. task' = [task EXCEPT ![t] = k]
  BY <1>2 DEF Submit, TasksOK
<1>5. /\ k.pc = "confirm" /\ k.tx = "flying" /\ k.sig = task[t].sig
      /\ k.sell = task[t].sell /\ k.eff = task[t].eff
  BY <1>2 DEF TaskType
<1> HIDE DEF k
<1>6. AccountsOf(k, task[t].sig.mint)
  BY <1>3, <1>5 DEF AccountsOf, Accounts, Asking, EvenFor
<1> QED
  BY <1>1, <1>4, <1>5, <1>6, TaskOnlyKept DEF OnlyTask

LEMMA LandsAccounts ==
  ASSUME TypeIs, ClaimInv, AccountInv, NEW t \in Tasks, Lands(t)
  PROVE  AccountInv'
<1>1. /\ Working(t) /\ task[t].pc = "confirm" /\ task[t].tx = "flying"
      /\ UNCHANGED <<exitQ, late, row, booked>>
  BY DEF Lands, At, Working
<1> DEFINE m == task[t].sig.mint
<1>2. /\ task[t] \in TaskType /\ TaskOK(task[t]) /\ TasksOK /\ m \in Mints
      /\ wallet[m] \in 0 .. Lot /\ row[m] \in RowType
      /\ proceeds[m] \in Nat /\ booked[m] \in Int
      /\ Accounts(task[t], wallet[m], row[m], proceeds[m], booked[m])
      /\ row[m].status = "closed" => wallet[m] = 0
  BY <1>1, AtWork DEF TypeIs
<1>3. task[t].sell \in 0 .. Lot /\ task[t].eff \in 0 .. Lot /\ task[t].price \in Nat
  BY <1>2 DEF TaskType
<1>4. /\ Even(row[m], proceeds[m], booked[m])
      /\ task[t].sell > 0 /\ wallet[m] <= task[t].eff
      /\ task[t].sell <= wallet[m]
  BY <1>1, <1>2 DEF Accounts, Asking, Lands
<1>5. row[m].status # "closed"
  BY <1>2, <1>3, <1>4, ExitAssumption
<1> DEFINE fills == IF "no_fill" \in Faults THEN 0 .. task[t].sell
                                            ELSE {task[t].sell}
<1>6. PICK fill \in fills :
        /\ task' = [task EXCEPT ![t].tx = "landed", ![t].fill = fill]
        /\ Moved(m, fill, task[t].price)
  BY DEF Lands
<1>7. fill \in 0 .. task[t].sell
  BY <1>3, ExitAssumption
<1> DEFINE k == [task[t] EXCEPT !.tx = "landed", !.fill = fill]
           got == fill * task[t].price
           w == wallet[m] - fill
           p == proceeds[m] + got
<1>8. task' = [task EXCEPT ![t] = k]
  BY <1>2, <1>6 DEF TasksOK
<1>9. /\ k.pc = "confirm" /\ k.tx = "landed" /\ k.fill = fill
      /\ k.eff = task[t].eff /\ k.price = task[t].price /\ k.sig = task[t].sig
  BY <1>1, <1>2 DEF TaskType
<1>10. /\ wallet' = [wallet EXCEPT ![m] = w]
       /\ proceeds' = [proceeds EXCEPT ![m] = p]
       /\ row' = [row EXCEPT ![m] = row[m]]
       /\ booked' = [booked EXCEPT ![m] = booked[m]]
  BY <1>1, <1>2, <1>6 DEF Moved, TypeIs, StateIs, AccountInv
<1>11. w <= k.eff - k.fill
  BY <1>2, <1>3, <1>4, <1>7, <1>9, ExitAssumption
<1>12. Sold(k, w, row[m], p, booked[m])
  <2>1. p = row[m].received + k.fill * k.price
    BY <1>4, <1>9 DEF Even
  <2> HIDE DEF k, w, p
  <2> QED
    BY <1>4, <1>5, <1>11, <2>1 DEF Even, Sold
<1>13. Accounts(k, w, row[m], p, booked[m])
  <2> HIDE DEF k, w, p
  <2> QED
    BY <1>9, <1>12 DEF Accounts, Asking
<1> DEFINE r == row[m]
           b == booked[m]
<1>14. /\ m = task[t].sig.mint
       /\ row' = [row EXCEPT ![m] = r] /\ booked' = [booked EXCEPT ![m] = b]
       /\ wallet' = [wallet EXCEPT ![m] = w]
       /\ proceeds' = [proceeds EXCEPT ![m] = p]
       /\ Accounts(k, w, r, p, b) /\ b \in Int
       /\ r.status = "closed" => w = 0
       /\ k.sig = task[t].sig
  BY <1>2, <1>5, <1>9, <1>10, <1>13
<1> HIDE DEF m, k, w, r, p, b
<1> QED
  BY <1>1, <1>2, <1>8, <1>14, TaskStepKept

LEMMA ConfirmedAccounts ==
  ASSUME TypeIs, ClaimInv, AccountInv, NEW t \in Tasks, Confirmed(t)
  PROVE  AccountInv'
<1>1. Working(t) /\ At(t, "confirm") /\ task[t].tx = "landed" /\ OnlyTask
  BY DEF Confirmed, At, Working, OnlyTask
<1> DEFINE k == [task[t] EXCEPT !.pc = "settle"]
           m == task[t].sig.mint
<1>2. task[t] \in TaskType /\ TasksOK
  BY <1>1, AtWork DEF TypeIs
<1>3. Sold(task[t], wallet[m], row[m], proceeds[m], booked[m])
  BY <1>1, AtWork DEF Accounts, At
<1>4. task' = [task EXCEPT ![t] = k]
  BY <1>2 DEF Confirmed, TasksOK
<1>5. /\ k.pc = "settle" /\ k.sig = task[t].sig /\ k.fill = task[t].fill
      /\ k.eff = task[t].eff /\ k.price = task[t].price
  BY <1>2 DEF TaskType
<1> HIDE DEF k
<1>6. AccountsOf(k, m)
  BY <1>3, <1>5 DEF AccountsOf, Accounts, Asking, Sold
<1> QED
  BY <1>1, <1>4, <1>5, <1>6, TaskOnlyKept DEF OnlyTask

LEMMA SettleAccounts ==
  ASSUME Seen, TypeIs, ClaimInv, AccountInv, NEW t \in Tasks, Settle(t)
  PROVE  AccountInv'
<1>1. Working(t) /\ At(t, "settle") /\ OnlyTask
  BY DEF Settle, At, Working, OnlyTask
<1> DEFINE m == task[t].sig.mint
<1>p. PICK left \in Remaining(t), old \in RowReads(m) :
       LET sold     == IF left < task[t].eff THEN task[t].eff - left ELSE 0
           received == Accumulated(old, Shorter(sold, task[t].sell) * task[t].price)
           paid     == IF old.status = "unknown" THEN task[t].sig.cost ELSE Cost
           total    == IF paid = NaN THEN 0 ELSE received - paid
           status   == IF left = 0 THEN "closed"
                       ELSE IF task[t].sig.all /\ sold = 0 THEN "exit_failed"
                       ELSE "partial"
       IN task' = [task EXCEPT
                     ![t].pc = IF old.status = "closed" THEN "reply" ELSE "write",
                     ![t].ok = TRUE,
                     ![t].permanent = FALSE,
                     ![t].status = status,
                     ![t].received = received,
                     ![t].pnl = total,
                     ![t].inc = Increment(total, old)]
  BY DEF Settle
<1>4. left = task[t].eff - task[t].fill /\ old = row[m]
  BY DEF Seen, Remaining, RowReads
<1>2. /\ task[t] \in TaskType /\ TaskOK(task[t]) /\ TasksOK
      /\ wallet[m] \in 0 .. Lot /\ row[m] \in RowType
      /\ proceeds[m] \in Nat /\ booked[m] \in Int
  BY <1>1, AtWork DEF TypeIs
<1>3. Sold(task[t], wallet[m], old, proceeds[m], booked[m])
  BY <1>1, <1>4, AtWork DEF Accounts, At
<1> DEFINE sold == IF left < task[t].eff THEN task[t].eff - left ELSE 0
           got == Shorter(sold, task[t].sell) * task[t].price
           received == Accumulated(old, got)
           paid == IF old.status = "unknown" THEN task[t].sig.cost ELSE Cost
           pnl == IF paid = NaN THEN 0 ELSE received - paid
           inc == Increment(pnl, old)
           status == IF left = 0 THEN "closed"
                     ELSE IF task[t].sig.all /\ sold = 0 THEN "exit_failed"
                     ELSE "partial"
           pc == IF old.status = "closed" THEN "reply" ELSE "write"
           k == Settled(task[t], pc, status, received, pnl, inc)
<1>5. task' = [task EXCEPT ![t].pc = pc, ![t].ok = TRUE,
                           ![t].permanent = FALSE, ![t].status = status,
                           ![t].received = received, ![t].pnl = pnl,
                           ![t].inc = inc]
  BY <1>p
<1>6. task' = [task EXCEPT ![t] = k]
  <2> HIDE DEF pc, status, received, pnl, inc
  <2> QED
    BY <1>2, <1>5 DEF TasksOK, Settled
<1>7. /\ task[t].eff \in Nat /\ task[t].sell \in Nat /\ task[t].fill \in Nat
      /\ task[t].fill <= task[t].sell /\ task[t].sell <= task[t].eff
      /\ task[t].price \in Nat
  BY <1>2, ExitAssumption DEF TaskOK, TaskType
<1>8. Shorter(sold, task[t].sell) = task[t].fill
  BY <1>4, <1>7 DEF Shorter
<1>9. received = proceeds[m]
  BY <1>3, <1>8 DEF Accumulated, Sold
<1>10. pnl \in Int
  <2>1. paid \in Nat \cup {NaN}
    BY <1>1, SignalOf, ExitAssumption DEF TypeIs
  <2>2. received \in Nat
    BY <1>2, <1>9
  <2> HIDE DEF paid, received
  <2> QED
    BY <2>1, <2>2
<1>11. booked[m] + inc = pnl
  <2>1. booked[m] = old.pnl /\ old.pnl \in Int
    BY <1>2, <1>3, <1>4 DEF Sold, RowType
  <2> HIDE DEF pnl
  <2> QED
    BY <1>10, <2>1 DEF Increment
<1>12. status = "closed" => wallet[m] = 0
  <2>1. wallet[m] <= left
    BY <1>3, <1>4 DEF Sold
  <2> QED
    BY <1>2, <2>1, ExitAssumption
<1>13. pc = "write"
  BY <1>3 DEF Sold
<1> HIDE DEF status, received, pnl, inc, pc
<1>14. /\ k.pc = "write" /\ k.sig = task[t].sig /\ k.status = status
       /\ k.received = received /\ k.pnl = pnl /\ k.inc = inc
  BY <1>2, <1>13 DEF Settled, TaskType
<1> HIDE DEF k
<1>15. AccountsOf(k, m)
  BY <1>3, <1>4, <1>9, <1>11, <1>12, <1>14 DEF AccountsOf, Accounts, Asking, Sold
<1> QED
  BY <1>1, <1>6, <1>14, <1>15, TaskOnlyKept DEF OnlyTask

LEMMA WriteAccounts ==
  ASSUME Seen, TypeIs, ClaimInv, AccountInv, NEW t \in Tasks, Write(t)
  PROVE  AccountInv'
<1>1. /\ Working(t) /\ At(t, "write")
      /\ UNCHANGED <<exitQ, late, wallet, proceeds, booked>>
  BY DEF Write, At, Working
<1> DEFINE m == task[t].sig.mint
           k == [task[t] EXCEPT !.pc = "book"]
           r == [status |-> task[t].status, received |-> task[t].received,
                 pnl |-> task[t].pnl]
           w == wallet[m]
           p == proceeds[m]
           b == booked[m]
<1>2. /\ task[t] \in TaskType /\ TasksOK /\ m \in Mints /\ b \in Int
      /\ Accounts(task[t], w, row[m], p, b)
  BY <1>1, AtWork DEF TypeIs
<1>3. /\ b + task[t].inc = task[t].pnl /\ task[t].received = p
      /\ task[t].status = "closed" => w = 0
  BY <1>1, <1>2 DEF Accounts, At
<1>4. /\ task' = [task EXCEPT ![t] = k]
      /\ row' = [row EXCEPT ![m] = r]
      /\ wallet' = [wallet EXCEPT ![m] = w]
      /\ proceeds' = [proceeds EXCEPT ![m] = p]
      /\ booked' = [booked EXCEPT ![m] = b]
  BY <1>1, <1>2 DEF Write, Seen, TasksOK, TypeIs, StateIs, AccountInv
<1>5. /\ k.pc = "book" /\ k.sig = task[t].sig /\ k.inc = task[t].inc
  BY <1>2 DEF TaskType
<1>6. /\ r.received = p /\ r.pnl = b + k.inc
      /\ r.status = "closed" => w = 0
  BY <1>3, <1>5
<1>7. m = task[t].sig.mint
  OBVIOUS
<1> HIDE DEF m, k, r, w, p, b
<1>8. Accounts(k, w, r, p, b)
  BY <1>5, <1>6 DEF Accounts, Asking
<1> QED
  BY <1>1, <1>2, <1>4, <1>5, <1>6, <1>7, <1>8, TaskStepKept

LEMMA BookAccounts ==
  ASSUME TypeIs, ClaimInv, AccountInv, NEW t \in Tasks, Book(t)
  PROVE  AccountInv'
<1>1. /\ Working(t) /\ At(t, "book")
      /\ UNCHANGED <<exitQ, late, wallet, row, proceeds>>
  BY DEF Book, At, Working
<1> DEFINE m == task[t].sig.mint
           k == [task[t] EXCEPT !.pc = "reply"]
           r == row[m]
           w == wallet[m]
           p == proceeds[m]
           b == booked[m] + task[t].inc
<1>2. /\ task[t] \in TaskType /\ TasksOK /\ m \in Mints /\ booked[m] \in Int
      /\ Accounts(task[t], w, r, p, booked[m])
      /\ r.status = "closed" => w = 0
  BY <1>1, AtWork DEF TypeIs
<1>3. r.received = p /\ r.pnl = b
  BY <1>1, <1>2 DEF Accounts, At
<1>4. b \in Int
  BY <1>2 DEF TaskType
<1>5. /\ task' = [task EXCEPT ![t] = k]
      /\ row' = [row EXCEPT ![m] = r]
      /\ wallet' = [wallet EXCEPT ![m] = w]
      /\ proceeds' = [proceeds EXCEPT ![m] = p]
      /\ booked' = [booked EXCEPT ![m] = b]
  BY <1>1, <1>2 DEF Book, TasksOK, TypeIs, StateIs, AccountInv
<1>6. k.pc = "reply" /\ k.sig = task[t].sig
  BY <1>2 DEF TaskType
<1>7. m = task[t].sig.mint
  OBVIOUS
<1> HIDE DEF m, k, r, w, p, b
<1>8. Accounts(k, w, r, p, b)
  BY <1>3, <1>6 DEF Accounts, Asking, Even
<1> QED
  BY <1>1, <1>2, <1>4, <1>5, <1>6, <1>7, <1>8, TaskStepKept

LEMMA MarkFailedAccounts ==
  ASSUME Seen, TypeIs, ClaimInv, AccountInv, NEW t \in Tasks, MarkFailed(t)
  PROVE  AccountInv'
<1>1. /\ Working(t) /\ At(t, "mark")
      /\ UNCHANGED <<exitQ, late, wallet, proceeds, booked>>
  BY DEF MarkFailed, At, Working
<1> DEFINE m == task[t].sig.mint
           k == [task[t] EXCEPT !.pc = "reply"]
           r == [row[m] EXCEPT !.status = "exit_failed"]
           w == wallet[m]
           p == proceeds[m]
           b == booked[m]
<1>2. /\ task[t] \in TaskType /\ TasksOK /\ m \in Mints /\ b \in Int
      /\ row[m] \in RowType
      /\ Accounts(task[t], w, row[m], p, b)
  BY <1>1, AtWork DEF TypeIs
<1>3. Even(row[m], p, b)
  BY <1>1, <1>2 DEF Accounts, At
<1>4. r.received = p /\ r.pnl = b /\ r.status # "closed"
  BY <1>2, <1>3 DEF Even, RowType
<1>5. /\ task' = [task EXCEPT ![t] = k]
      /\ row' = [row EXCEPT ![m] = r]
      /\ wallet' = [wallet EXCEPT ![m] = w]
      /\ proceeds' = [proceeds EXCEPT ![m] = p]
      /\ booked' = [booked EXCEPT ![m] = b]
  BY <1>1, <1>2 DEF MarkFailed, Seen, TasksOK, TypeIs, StateIs, AccountInv
<1>6. k.pc = "reply" /\ k.sig = task[t].sig
  BY <1>2 DEF TaskType
<1>7. m = task[t].sig.mint
  OBVIOUS
<1> HIDE DEF m, k, r, w, p, b
<1>8. Accounts(k, w, r, p, b)
  BY <1>4, <1>6 DEF Accounts, Asking, Even
<1> QED
  BY <1>1, <1>2, <1>4, <1>5, <1>6, <1>7, <1>8, TaskStepKept

LEMMA ReplyAccounts ==
  ASSUME TypeIs, ClaimInv, AccountInv, NEW t \in Tasks, Reply(t)
  PROVE  AccountInv'
<1>1. Working(t) /\ At(t, "reply") /\ OnlyTask
  BY DEF Reply, At, Working, OnlyTask
<1> DEFINE k == [task[t] EXCEPT !.pc = "release"]
           m == task[t].sig.mint
<1>2. task[t] \in TaskType /\ TasksOK
  BY <1>1, AtWork DEF TypeIs
<1>3. Even(row[m], proceeds[m], booked[m])
  BY <1>1, AtWork DEF Accounts, At
<1>4. task' = [task EXCEPT ![t] = k]
  BY <1>2 DEF Reply, TasksOK
<1>5. k.pc = "release" /\ k.sig = task[t].sig
  BY <1>2 DEF TaskType
<1> HIDE DEF k
<1>6. AccountsOf(k, m)
  BY <1>3, <1>5 DEF AccountsOf, Accounts, Asking
<1> QED
  BY <1>1, <1>4, <1>5, <1>6, TaskOnlyKept DEF OnlyTask

LEMMA LocalAccounts ==
  ASSUME Seen, TypeIs, ClaimInv, AccountInv, NEW t \in Tasks, Local(t)
  PROVE  AccountInv'
<1>1. ASSUME Working(t) PROVE task[t].kill \in BOOLEAN
  BY <1>1, AtWork DEF TaskType
<1>2. ASSUME Working(t), task[t].pc = "attempt"
      PROVE  Asking(task[t]) /\ EvenFor(t)
  BY <1>2, AtWork DEF Asking, Accounts, EvenFor
<1>3. CASE QuoteFails(t)
  <2>1. Working(t) /\ task[t].pc = "attempt" /\ OnlyTask
    BY <1>3 DEF QuoteFails, At, Working, OnlyTask
  <2>2. Asking(task[t]) /\ EvenFor(t) /\ task[t].kill \in BOOLEAN
    BY <1>1, <1>2, <2>1
  <2> QED
    BY <1>3, <2>1, <2>2, FailAccounts, RetryAccounts DEF QuoteFails
<1>4. ASSUME NEW price \in Prices, QuoteTooLow(t, price) PROVE AccountInv'
  <2>1. Working(t) /\ task[t].pc = "attempt" /\ OnlyTask
    BY <1>4 DEF QuoteTooLow, At, Working, OnlyTask
  <2> QED
    BY <1>2, <1>4, <2>1, FailAccounts DEF QuoteTooLow
<1>5. ASSUME NEW price \in Prices, SubmitFails(t, price) PROVE AccountInv'
  <2>1. Working(t) /\ task[t].pc = "attempt" /\ OnlyTask
    BY <1>5 DEF SubmitFails, Sellable, At, Working, OnlyTask, MayLandLate, Seen
  <2> DEFINE kill == task[t].kill \/ Kill(t, price)
  <2>2. PICK err \in Refusals : Retry(t, err, kill)
    BY <1>5 DEF SubmitFails
  <2>3. kill \in BOOLEAN
    OBVIOUS
  <2> HIDE DEF kill
  <2> QED
    BY <1>2, <2>1, <2>2, <2>3, RetryAccounts
<1>6. CASE Refused(t)
  <2>1. /\ Working(t) /\ task[t].pc = "confirm" /\ task[t].tx = "flying"
        /\ OnlyTask
    BY <1>6 DEF Refused, At, Working, OnlyTask
  <2>2. Asking(task[t]) /\ EvenFor(t) /\ task[t].kill \in BOOLEAN
    BY <1>1, <2>1, AtWork DEF Asking, Accounts, EvenFor
  <2> QED
    BY <1>6, <2>1, <2>2, FailAccounts, RetryAccounts DEF Refused
<1>7. ~TimesOut(t)
  BY DEF TimesOut, Seen
<1> QED
  BY <1>3, <1>4, <1>5, <1>6, <1>7, ReadBalanceAccounts, SubmitAccounts,
     LandsAccounts, ConfirmedAccounts, SettleAccounts, WriteAccounts,
     BookAccounts, MarkFailedAccounts, ReplyAccounts DEF Local

-----------------------------------------------------------------------------
(* The steps of the loop, and the theorem. *)

OnlyLoop == UNCHANGED <<late, wallet, row, proceeds, booked>>

LEMMA SpawnAccounts ==
  ASSUME TypeIs, AccountInv, NEW t \in Tasks, task[t].sig = None,
         NEW sig \in Signal, Idle(sig.mint), wallet[sig.mint] <= sig.amount,
         task' = [task EXCEPT ![t] = Spawned(sig)],
         OnlyLoop,
         \A i \in DOMAIN exitQ' : exitQ'[i].amount \in {0, Lot}
  PROVE  AccountInv'
<1> DEFINE m == sig.mint
           k == Spawned(sig)
<1>1. m \in Mints /\ None \notin Signal /\ task \in [Tasks -> TaskType]
  BY ExitAssumption DEF Signal, TypeIs, TasksOK
<1>2. k.pc = "balance" /\ k.sig = sig
  BY SpawnedOK DEF Spawned, Free
<1>3. Even(row[m], proceeds[m], booked[m])
  BY <1>1 DEF AccountInv
<1> HIDE DEF k
<1>4. AccountsOf(k, m)
  BY <1>2, <1>3 DEF AccountsOf, Accounts, Asking
<1>5. task'[t] = k /\ \A u \in Tasks \ {t} : task'[u] = task[u]
  BY <1>1 DEF k
<1>6. (\A n \in Mints : Idle(n) => Even(row[n], proceeds[n], booked[n]))'
  <2> SUFFICES ASSUME NEW n \in Mints, Idle(n)'
               PROVE  Even(row'[n], proceeds'[n], booked'[n])
    OBVIOUS
  <2>1. Idle(n)
    BY <1>5 DEF Idle
  <2> QED
    BY <2>1 DEF AccountInv, OnlyLoop
<1>7. ASSUME NEW u \in Tasks, task'[u].sig # None
      PROVE  LET n == task'[u].sig.mint
             IN  Accounts(task'[u], wallet'[n], row'[n], proceeds'[n], booked'[n])
  BY <1>2, <1>4, <1>5, <1>7 DEF AccountInv, AccountsOf, OnlyLoop
<1>8. (\A u \in Tasks :
         task[u].sig # None => AccountsOf(task[u], task[u].sig.mint))'
  BY <1>7 DEF AccountsOf
<1>9. (\A i \in DOMAIN exitQ : exitQ[i].amount \in {0, Lot})'
  OBVIOUS
<1>10. /\ booked' \in [Mints -> Int] /\ late' = {} /\ ClosedMeansSold'
  BY DEF AccountInv, ClosedMeansSold, OnlyLoop
<1> QED
  BY <1>6, <1>8, <1>9, <1>10 DEF AccountInv

LEMMA ReleaseAccounts ==
  ASSUME TypeIs, AccountInv, NEW t \in Tasks, Release(t)
  PROVE  AccountInv'
<1>1. /\ Working(t) /\ At(t, "release") /\ task' = [task EXCEPT ![t] = Free]
      /\ UNCHANGED <<exitQ, late, wallet, row, proceeds, booked>>
  BY DEF Release, At, Working
<1> DEFINE m == task[t].sig.mint
<1>2. task \in [Tasks -> TaskType] /\ Free.sig = None
  BY DEF TypeIs, TasksOK, Free
<1>3. Even(row[m], proceeds[m], booked[m])
  BY <1>1, AtWork DEF Accounts, At
<1>4. task'[t].sig = None /\ \A u \in Tasks \ {t} : task'[u] = task[u]
  BY <1>1, <1>2
<1>5. (\A n \in Mints : Idle(n) => Even(row[n], proceeds[n], booked[n]))'
  <2> SUFFICES ASSUME NEW n \in Mints, Idle(n)'
               PROVE  Even(row'[n], proceeds'[n], booked'[n])
    OBVIOUS
  <2>1. Idle(n) \/ n = m
    BY <1>4 DEF Idle
  <2> QED
    BY <1>1, <1>3, <2>1 DEF AccountInv
<1>6. ASSUME NEW u \in Tasks, task'[u].sig # None
      PROVE  LET n == task'[u].sig.mint
             IN  Accounts(task'[u], wallet'[n], row'[n], proceeds'[n], booked'[n])
  BY <1>1, <1>4, <1>6 DEF AccountInv, AccountsOf
<1>7. (\A u \in Tasks :
         task[u].sig # None => AccountsOf(task[u], task[u].sig.mint))'
  BY <1>6 DEF AccountsOf
<1>8. (\A i \in DOMAIN exitQ : exitQ[i].amount \in {0, Lot})'
  BY <1>1 DEF AccountInv
<1>9. /\ booked' \in [Mints -> Int] /\ late' = {} /\ ClosedMeansSold'
  BY <1>1 DEF AccountInv, ClosedMeansSold
<1> QED
  BY <1>5, <1>7, <1>8, <1>9 DEF AccountInv

\* No task and no account is touched.
LEMMA StillAccounts ==
  ASSUME AccountInv, UNCHANGED task, OnlyLoop,
         \A i \in DOMAIN exitQ' : exitQ'[i].amount \in {0, Lot}
  PROVE  AccountInv'
  BY DEF AccountInv, ClosedMeansSold, Idle, AccountsOf, OnlyLoop

LEMMA HeadSized ==
  ASSUME TypeIs, AccountInv, Receives
  PROVE  /\ Head(exitQ).amount \in {0, Lot}
         /\ \A i \in DOMAIN Tail(exitQ) : Tail(exitQ)[i].amount \in {0, Lot}
<1>1. exitQ \in Seq(Signal) /\ exitQ # << >>
  BY DEF TypeIs, StateIs, Receives
<1>2. Head(exitQ) = exitQ[1] /\ 1 \in DOMAIN exitQ
  BY <1>1
<1>3. \A i \in DOMAIN Tail(exitQ) :
        Tail(exitQ)[i] = exitQ[i + 1] /\ i + 1 \in DOMAIN exitQ
  BY <1>1
<1> QED
  BY <1>2, <1>3 DEF AccountInv

LEMMA AccountNext ==
  ASSUME Seen, Sized, TypeIs, ClaimInv, AccountInv, [Next]_vars
  PROVE  AccountInv'
<1>1. ASSUME NEW sig \in Inputs, SendSignal(sig) PROVE AccountInv'
  <2>1. exitQ' = Append(exitQ, sig) /\ exitQ \in Seq(Signal) /\ sig \in Signal
    BY <1>1, ExitAssumption DEF SendSignal, TypeIs, StateIs
  <2>2. ASSUME NEW i \in DOMAIN exitQ'
        PROVE  exitQ'[i] = sig \/ (i \in DOMAIN exitQ /\ exitQ'[i] = exitQ[i])
    <3>1. i \in 1 .. Len(exitQ) + 1
      BY <2>1, <2>2
    <3>2. CASE i = Len(exitQ) + 1
      BY <2>1, <3>2
    <3>3. CASE i # Len(exitQ) + 1
      BY <2>1, <3>1, <3>3
    <3> QED
      BY <3>2, <3>3
  <2>3. \A i \in DOMAIN exitQ' : exitQ'[i].amount \in {0, Lot}
    BY <2>2 DEF Sized, AccountInv
  <2>4. UNCHANGED task /\ OnlyLoop
    BY <1>1 DEF SendSignal, OnlyLoop
  <2> QED
    BY <2>3, <2>4, StillAccounts
<1>2. ASSUME DropDuplicate \/ AcceptUnsized PROVE AccountInv'
  <2>1. exitQ' = Tail(exitQ) /\ Receives /\ UNCHANGED task /\ OnlyLoop
    BY <1>2 DEF DropDuplicate, AcceptUnsized, OnlyLoop
  <2> QED
    BY <2>1, HeadSized, StillAccounts
<1>3. ASSUME NEW t \in Tasks, Accept(t) PROVE AccountInv'
  <2> DEFINE sig == Head(exitQ)
  <2>1. /\ Receives /\ task[t].pc = "free" /\ sig.mint \notin claims
        /\ sig.amount > 0 /\ exitQ' = Tail(exitQ) /\ OnlyLoop
        /\ task' = [task EXCEPT ![t] = Spawned(sig)]
    BY <1>3 DEF Accept, At, OnlyLoop
  <2>2. sig \in Signal /\ sig.mint \in Mints
    BY <2>1, HeadType DEF TypeIs
  <2>3. sig.amount \in {0, Lot}
    BY <2>1, HeadSized
  <2>4. wallet[sig.mint] \in 0 .. Lot
    BY <2>2 DEF TypeIs, StateIs
  <2>5. wallet[sig.mint] <= sig.amount
    BY <2>1, <2>3, <2>4, ExitAssumption
  <2>6. task[t].sig = None
    BY <2>1 DEF TypeIs, TasksOK, TaskOK
  <2>7. Idle(sig.mint)
    BY <2>1 DEF Idle, ClaimInv
  <2>8. \A i \in DOMAIN exitQ' : exitQ'[i].amount \in {0, Lot}
    BY <2>1, HeadSized
  <2> HIDE DEF sig
  <2> QED
    BY <2>1, <2>2, <2>5, <2>6, <2>7, <2>8, SpawnAccounts
<1>4. ASSUME NEW t \in Tasks, PollResolves(t) PROVE AccountInv'
  <2> DEFINE sig == [polling EXCEPT !.amount = wallet[polling.mint]]
  <2>1. /\ task[t].pc = "free" /\ polling # None /\ exitQ' = exitQ /\ OnlyLoop
        /\ task' = [task EXCEPT ![t] = Spawned(sig)]
    BY <1>4 DEF PollResolves, At, OnlyLoop
  <2>2. polling \in Signal /\ polling.mint \in Mints
    BY <2>1 DEF TypeIs, StateIs, Signal
  <2>3. wallet[polling.mint] \in 0 .. Lot
    BY <2>2 DEF TypeIs, StateIs
  <2>4. sig \in Signal /\ sig.mint = polling.mint /\ sig.amount = wallet[sig.mint]
    BY <2>2, <2>3 DEF Signal
  <2>5. wallet[sig.mint] <= sig.amount
    BY <2>3, <2>4, ExitAssumption
  <2>6. task[t].sig = None
    BY <2>1 DEF TypeIs, TasksOK, TaskOK
  <2>7. Idle(sig.mint)
    BY <2>1, <2>4 DEF Idle, ClaimInv
  <2>8. \A i \in DOMAIN exitQ' : exitQ'[i].amount \in {0, Lot}
    BY <2>1 DEF AccountInv
  <2> HIDE DEF sig
  <2> QED
    BY <2>1, <2>4, <2>5, <2>6, <2>7, <2>8, SpawnAccounts
<1>5. ASSUME PollGivesUp \/ UNCHANGED vars PROVE AccountInv'
  <2>1. exitQ' = exitQ /\ UNCHANGED task /\ OnlyLoop
    BY <1>5 DEF PollGivesUp, OnlyLoop, vars, exitVars
  <2> QED
    BY <2>1, StillAccounts DEF AccountInv
<1>6. ASSUME NEW x \in late, LandsLate(x) PROVE AccountInv'
  BY <1>6 DEF AccountInv
<1> QED
  BY <1>1, <1>2, <1>3, <1>4, <1>5, <1>6, LocalAccounts, ReleaseAccounts
     DEF Next, Engine, Loop, TaskStep, Chain, Local

LEMMA AccountsHold ==
  ASSUME Seen, Sized
  PROVE  Spec => [](TypeIs /\ ClaimInv /\ AccountInv)
<1>1. Init => TypeIs /\ ClaimInv /\ AccountInv
  BY TypeInit, ClaimInit, AccountInit
<1>2. TypeIs /\ ClaimInv /\ AccountInv /\ [Next]_vars
        => (TypeIs /\ ClaimInv /\ AccountInv)'
  BY TypeNext, ClaimNext, AccountNext
<1> QED
  BY <1>1, <1>2, PTL DEF Spec

LEMMA QuietIdle ==
  ASSUME TypeIs, NEW m \in Mints, Quiet(m)
  PROVE  Idle(m)
  BY DEF TypeIs, TasksOK, TaskOK, Quiet, On, Working, Idle

(***************************************************************************)
(* "Use increment (new - prev) to avoid double-counting across partial     *)
(* exits" (exit/mod.rs:1509): however many exits a position takes, and     *)
(* however they interleave with those of others, what they booked adds up  *)
(* to the profit and loss its row shows.                                   *)
(***************************************************************************)
THEOREM BooksBalance ==
  ASSUME Seen, Sized
  PROVE  Spec => []BookedOnce
<1>1. TypeIs /\ ClaimInv /\ AccountInv => BookedOnce
  BY QuietIdle DEF AccountInv, Even, BookedOnce
<1> QED
  BY <1>1, AccountsHold, PTL

(***************************************************************************)
(* "reconcile against the confirmed tx" (exit/mod.rs:1269): the proceeds   *)
(* in the row are what the sells of the position brought on chain, also    *)
(* when they fell short.                                                   *)
(***************************************************************************)
THEOREM ProceedsAdd ==
  ASSUME Seen, Sized
  PROVE  Spec => []ReceivedIsProceeds
<1>1. TypeIs /\ ClaimInv /\ AccountInv => ReceivedIsProceeds
  BY QuietIdle DEF AccountInv, Even, ReceivedIsProceeds
<1> QED
  BY <1>1, AccountsHold, PTL

(***************************************************************************)
(* "Full-exit detection: on-chain truth only" (exit/mod.rs:1308): a row    *)
(* that says closed leaves nothing of the position in the wallet.          *)
(***************************************************************************)
THEOREM ClosedIsSold ==
  ASSUME Seen, Sized
  PROVE  Spec => []ClosedMeansSold
<1>1. TypeIs /\ ClaimInv /\ AccountInv => ClosedMeansSold
  BY DEF AccountInv
<1> QED
  BY <1>1, AccountsHold, PTL

-----------------------------------------------------------------------------
(* The exposure: every signal names what its position cost, and a task     *)
(* that has sold, or has yet to record it, keeps its mint open.            *)

Priced == \A sig \in Inputs : sig.cost = Cost

Spending(k) ==
  \/ k.pc = "confirm" /\ k.tx = "landed"
  \/ k.pc \in {"settle", "write", "book"}

Holding(k, w, open) ==
  /\ k.sig.cost = Cost
  /\ Spending(k) => k.sig.mint \in open
  /\ k.pc = "book" /\ k.status = "closed" => w = 0

OpenInv ==
  /\ ExposureFreedOnce
  /\ \A i \in DOMAIN exitQ : exitQ[i].cost = Cost
  /\ polling # None => polling.cost = Cost
  /\ \A m \in Mints \ openMints : wallet[m] = 0
  /\ \A t \in Tasks :
       task[t].sig # None =>
         Holding(task[t], wallet[task[t].sig.mint], openMints)

LEMMA OpenInit == Init => OpenInv
  BY DEF Init, OpenInv, ExposureFreedOnce, Free

\* t takes a step of its own, and stays on its signal.
Alone(t) ==
  /\ task'[t].sig = task[t].sig
  /\ \A u \in Tasks \ {t} : task'[u] = task[u]

LEMMA TaskOpen ==
  ASSUME TypeIs, ClaimInv, OpenInv, NEW t \in Tasks, Working(t), Alone(t),
         NEW m, m = task[t].sig.mint,
         NEW w, wallet' = [wallet EXCEPT ![m] = w],
         m \notin openMints' => w = 0,
         \A n \in Mints \ {m} : n \in openMints' <=> n \in openMints,
         Holding(task'[t], w, openMints'),
         UNCHANGED <<exitQ, polling>>,
         ExposureFreedOnce'
  PROVE  OpenInv'
<1>1. /\ m \in Mints /\ wallet \in [Mints -> 0 .. Lot] /\ task[t].sig # None
  BY SignalOf DEF TypeIs, StateIs, TasksOK, TaskOK, Working
<1>2. wallet'[m] = w /\ \A n \in Mints \ {m} : wallet'[n] = wallet[n]
  BY <1>1
<1>3. \A n \in Mints \ openMints' : wallet'[n] = 0
  BY <1>2 DEF OpenInv
<1>4. ASSUME NEW u \in Tasks, task'[u].sig # None
      PROVE  Holding(task'[u], wallet'[task'[u].sig.mint], openMints')
  <2>1. CASE u = t
    BY <1>2, <2>1 DEF Alone
  <2>2. CASE u # t
    <3> DEFINE n == task[u].sig.mint
    <3>1. task'[u] = task[u] /\ task[u].sig # None
      BY <1>4, <2>2 DEF Alone
    <3>2. n # m
      BY <1>1, <2>2, <3>1 DEF ClaimInv
    <3>3. n \in Mints
      BY <3>1, SignalOf DEF TypeIs, TasksOK, TaskOK, Working
    <3>4. Holding(task[u], wallet[n], openMints)
      BY <3>1 DEF OpenInv
    <3> QED
      BY <1>2, <3>1, <3>2, <3>3, <3>4 DEF Holding
  <2> QED
    BY <2>1, <2>2
<1>5. (\A u \in Tasks :
         task[u].sig # None =>
           Holding(task[u], wallet[task[u].sig.mint], openMints))'
  BY <1>4
<1>6. (\A n \in Mints \ openMints : wallet[n] = 0)'
  BY <1>3
<1>7. /\ (\A i \in DOMAIN exitQ : exitQ[i].cost = Cost)'
      /\ (polling # None => polling.cost = Cost)'
  BY DEF OpenInv
<1> QED
  BY <1>5, <1>6, <1>7 DEF OpenInv

\* Steps that leave the wallet and the trading state.
LEMMA TaskOpenSame ==
  ASSUME TypeIs, ClaimInv, OpenInv, NEW t \in Tasks, Working(t), Alone(t),
         UNCHANGED <<exitQ, polling, wallet, openMints, exposure>>,
         Spending(task'[t]) => Spending(task[t]),
         ~(task'[t].pc = "book" /\ task'[t].status = "closed")
  PROVE  OpenInv'
<1> DEFINE m == task[t].sig.mint
           w == wallet[m]
<1>1. m \in Mints /\ wallet \in [Mints -> 0 .. Lot] /\ task[t].sig # None
  BY SignalOf DEF TypeIs, StateIs, TasksOK, TaskOK, Working
<1>2. wallet' = [wallet EXCEPT ![m] = w]
  BY <1>1
<1>3. m \notin openMints' => w = 0
  BY <1>1 DEF OpenInv
<1>4. Holding(task[t], w, openMints)
  BY <1>1 DEF OpenInv
<1>5. Holding(task'[t], w, openMints')
  BY <1>4 DEF Holding, Alone
<1>6. ExposureFreedOnce'
  BY DEF OpenInv, ExposureFreedOnce
<1>7. m = task[t].sig.mint
  OBVIOUS
<1> HIDE DEF m, w
<1> QED
  BY <1>2, <1>3, <1>5, <1>6, <1>7, TaskOpen

Unspent == UNCHANGED <<exitQ, polling, wallet, openMints, exposure>>

\* A task that gives up, retries or goes to a step before the sell.
LEMMA ChangedOpen ==
  ASSUME TypeIs, ClaimInv, OpenInv, NEW t \in Tasks, Working(t), Unspent,
         NEW k, task' = [task EXCEPT ![t] = k], k.sig = task[t].sig,
         Spending(k) => Spending(task[t]), ~(k.pc = "book" /\ k.status = "closed")
  PROVE  OpenInv'
<1>1. task'[t] = k /\ \A u \in Tasks \ {t} : task'[u] = task[u]
  BY DEF TypeIs, TasksOK
<1> QED
  BY <1>1, TaskOpenSame DEF Alone, Unspent

LEMMA FailOpen ==
  ASSUME TypeIs, ClaimInv, OpenInv, NEW t \in Tasks, Working(t), Unspent,
         NEW err, Fail(t, err)
  PROVE  OpenInv'
<1> DEFINE pc == IF err \in Retryable THEN "reply" ELSE "mark"
           k == [task[t] EXCEPT !.pc = pc, !.ok = FALSE,
                                !.permanent = err \notin Retryable]
<1>1. task[t] \in TaskType /\ TasksOK
  BY SignalOf DEF TypeIs, TasksOK
<1>2. task' = [task EXCEPT ![t] = k]
  BY <1>1 DEF TasksOK, Fail
<1>3. k.pc \in {"mark", "reply"} /\ k.sig = task[t].sig
  BY <1>1 DEF TaskType
<1> HIDE DEF k
<1> QED
  BY <1>2, <1>3, ChangedOpen DEF Spending

LEMMA RetryOpen ==
  ASSUME TypeIs, ClaimInv, OpenInv, NEW t \in Tasks, Working(t), Unspent,
         NEW err, NEW kill \in BOOLEAN, Retry(t, err, kill)
  PROVE  OpenInv'
<1>1. task[t] \in TaskType /\ TasksOK
  BY SignalOf DEF TypeIs, TasksOK
<1>2. CASE task[t].attempt = ExitRetries \/ kill
  BY <1>2, FailOpen DEF Retry
<1>3. CASE ~(task[t].attempt = ExitRetries \/ kill)
  <2> DEFINE k == [task[t] EXCEPT !.pc = "attempt", !.attempt = @ + 1,
                                  !.kill = kill, !.tx = "none"]
  <2>1. task' = [task EXCEPT ![t] = k]
    BY <1>1, <1>3 DEF TasksOK, Retry
  <2>2. k.pc = "attempt" /\ k.sig = task[t].sig
    BY <1>1 DEF TaskType
  <2> HIDE DEF k
  <2> QED
    BY <2>1, <2>2, ChangedOpen DEF Spending
<1> QED
  BY <1>2, <1>3

LEMMA ReadBalanceOpen ==
  ASSUME TypeIs, ClaimInv, OpenInv, NEW t \in Tasks, ReadBalance(t)
  PROVE  OpenInv'
<1>1. Working(t) /\ Unspent
  BY DEF ReadBalance, At, Working, Unspent, tsVars
<1>2. task[t] \in TaskType /\ TasksOK
  BY <1>1, SignalOf DEF TypeIs, TasksOK
<1> DEFINE sig == task[t].sig
<1>3. PICK seen \in Reads(wallet[sig.mint]) :
        LET eff  == IF seen > 0 /\ seen < sig.amount THEN seen ELSE sig.amount
            sell == IF sig.all THEN eff ELSE eff \div 2
        IN IF sell = 0
           THEN Fail(t, "Permanent")
           ELSE task' = [task EXCEPT ![t].pc = "attempt", ![t].eff = eff,
                                     ![t].sell = sell]
  BY Zenon DEF ReadBalance
<1> DEFINE eff == IF seen > 0 /\ seen < sig.amount THEN seen ELSE sig.amount
           sell == IF sig.all THEN eff ELSE eff \div 2
           k == [task[t] EXCEPT !.pc = "attempt", !.eff = eff, !.sell = sell]
<1>4. CASE sell = 0
  BY <1>1, <1>3, <1>4, FailOpen
<1>5. CASE sell # 0
  <2>1. task' = [task EXCEPT ![t] = k]
    BY <1>2, <1>3, <1>5 DEF TasksOK
  <2>2. k.pc = "attempt" /\ k.sig = task[t].sig
    BY <1>2 DEF TaskType
  <2> HIDE DEF k
  <2> QED
    BY <1>1, <2>1, <2>2, ChangedOpen DEF Spending
<1> QED
  BY <1>4, <1>5

\* What lands was in the wallet, so that its mint is open.
LEMMA LandsOpen ==
  ASSUME TypeIs, ClaimInv, AccountInv, OpenInv, NEW t \in Tasks, Lands(t)
  PROVE  OpenInv'
<1>1. /\ Working(t) /\ task[t].pc = "confirm" /\ task[t].tx = "flying"
      /\ UNCHANGED <<exitQ, polling, openMints, exposure>>
  BY DEF Lands, At, Working, tsVars
<1> DEFINE m == task[t].sig.mint
<1>2. /\ task[t] \in TaskType /\ TasksOK /\ m \in Mints
      /\ wallet[m] \in 0 .. Lot
      /\ task[t].sell > 0 /\ task[t].sell <= wallet[m]
  BY <1>1, AtWork DEF TypeIs, Accounts, Asking, Lands
<1>3. m \in openMints
  BY <1>2, ExitAssumption DEF OpenInv, TaskType
<1>4. PICK fill :
        /\ task' = [task EXCEPT ![t].tx = "landed", ![t].fill = fill]
        /\ Moved(m, fill, task[t].price)
  BY DEF Lands
<1> DEFINE k == [task[t] EXCEPT !.tx = "landed", !.fill = fill]
           w == wallet[m] - fill
<1>5. task' = [task EXCEPT ![t] = k] /\ wallet' = [wallet EXCEPT ![m] = w]
  BY <1>2, <1>4 DEF TasksOK, Moved
<1>6. k.pc = "confirm" /\ k.sig = task[t].sig
  BY <1>1, <1>2 DEF TaskType
<1>7. Alone(t) /\ task'[t] = k
  <2> HIDE DEF k
  <2> QED
    BY <1>2, <1>5, <1>6 DEF Alone, TasksOK
<1>8. task[t].sig.cost = Cost
  BY <1>1 DEF OpenInv, Holding, TypeIs, TasksOK, TaskOK, Working
<1>9. Holding(task'[t], w, openMints')
  BY <1>1, <1>3, <1>6, <1>7, <1>8 DEF Holding
<1>10. ExposureFreedOnce'
  BY <1>1 DEF OpenInv, ExposureFreedOnce
<1>11. m = task[t].sig.mint /\ m \in openMints'
  BY <1>1, <1>3
<1> HIDE DEF m, k, w
<1> QED
  BY <1>1, <1>5, <1>7, <1>9, <1>10, <1>11, TaskOpen

\* A row that is about to be closed finds the wallet empty.
LEMMA WriteOpen ==
  ASSUME TypeIs, ClaimInv, AccountInv, OpenInv, NEW t \in Tasks, Write(t)
  PROVE  OpenInv'
<1>1. Working(t) /\ task[t].pc = "write" /\ Unspent
  BY DEF Write, At, Working, Unspent, tsVars
<1> DEFINE m == task[t].sig.mint
           w == wallet[m]
           k == [task[t] EXCEPT !.pc = "book"]
<1>2. /\ task[t] \in TaskType /\ TasksOK /\ m \in Mints /\ task[t].sig # None
      /\ wallet \in [Mints -> 0 .. Lot]
      /\ task[t].status = "closed" => w = 0
  BY <1>1, AtWork DEF TypeIs, StateIs, Accounts
<1>3. task' = [task EXCEPT ![t] = k] /\ wallet' = [wallet EXCEPT ![m] = w]
  BY <1>1, <1>2 DEF TasksOK, Write, Unspent
<1>4. k.pc = "book" /\ k.sig = task[t].sig /\ k.status = task[t].status
  BY <1>2 DEF TaskType
<1>5. Alone(t) /\ task'[t] = k
  <2> HIDE DEF k
  <2> QED
    BY <1>2, <1>3, <1>4 DEF Alone, TasksOK
<1>6. Holding(task[t], w, openMints)
  BY <1>2 DEF OpenInv
<1>7. Holding(task'[t], w, openMints') /\ m \in openMints'
  BY <1>1, <1>2, <1>4, <1>5, <1>6 DEF Holding, Spending, Unspent
<1>8. ExposureFreedOnce'
  BY <1>1 DEF OpenInv, ExposureFreedOnce, Unspent
<1>9. m = task[t].sig.mint
  OBVIOUS
<1> HIDE DEF m, k, w
<1> QED
  BY <1>1, <1>3, <1>5, <1>7, <1>8, <1>9, TaskOpen DEF Unspent

LEMMA OneLess ==
  ASSUME NEW n \in Nat, n > 0
  PROVE  Released(Cost * n, Cost) = Cost * (n - 1)
<1>1. Cost * n = Cost * (n - 1) + Cost
  BY ExitAssumption
<1>2. n - 1 \in Nat
  OBVIOUS
<1>3. Cost * (n - 1) \in Nat
  BY <1>2, ProductType, ExitAssumption
<1> DEFINE rest == Cost * (n - 1)
<1>4. rest \in Nat /\ Cost * n = rest + Cost
  BY <1>1, <1>3
<1> HIDE DEF rest
<1>5. rest + Cost # NaN /\ rest # NaN /\ Cost # NaN
  BY <1>4, ExitAssumption, TSAssumption
<1>6. Released(rest + Cost, Cost) = rest
  BY <1>4, <1>5, ExitAssumption DEF Released, Sub
<1> QED
  BY <1>4, <1>6 DEF rest

\* The exit that closes the position frees its cost, with the mint.
LEMMA BookOpen ==
  ASSUME TypeIs, ClaimInv, OpenInv, NEW t \in Tasks, Book(t)
  PROVE  OpenInv'
<1>1. Working(t) /\ task[t].pc = "book" /\ UNCHANGED <<exitQ, polling, wallet>>
  BY DEF Book, At, Working
<1> DEFINE m == task[t].sig.mint
           w == wallet[m]
           k == [task[t] EXCEPT !.pc = "reply"]
<1>2. /\ task[t] \in TaskType /\ TasksOK /\ m \in Mints /\ task[t].sig # None
      /\ wallet \in [Mints -> 0 .. Lot] /\ openMints \subseteq Mints
  BY <1>1, SignalOf DEF TypeIs, StateIs, TSTypeOK, TasksOK, TaskOK, Working
<1>3. task' = [task EXCEPT ![t] = k] /\ wallet' = [wallet EXCEPT ![m] = w]
  BY <1>1, <1>2 DEF TasksOK, Book
<1>4. k.pc = "reply" /\ k.sig = task[t].sig
  BY <1>2 DEF TaskType
<1>5. Alone(t) /\ task'[t] = k
  <2> HIDE DEF k
  <2> QED
    BY <1>2, <1>3, <1>4 DEF Alone, TasksOK
<1>6. /\ m \in openMints /\ task[t].sig.cost = Cost
      /\ task[t].status = "closed" => w = 0
  BY <1>1, <1>2 DEF OpenInv, Holding, Spending
<1>7. Holding(task'[t], w, openMints')
  BY <1>4, <1>5, <1>6 DEF Holding, Spending
<1>8. CASE task[t].status = "closed"
  <2>1. /\ openMints' = openMints \ {m}
        /\ exposure' = Released(exposure, Cost)
    BY <1>6, <1>8 DEF Book, RecordExit
  <2>2. IsFiniteSet(openMints)
    BY <1>2, FS_Subset, ExitAssumption
  <2>3. /\ Cardinality(openMints) \in Nat
        /\ Cardinality(openMints \ {m}) = Cardinality(openMints) - 1
        /\ Cardinality(openMints \ {m}) \in Nat
    BY <1>6, <2>2, FS_CardinalityType, FS_RemoveElement
  <2>4. ExposureFreedOnce'
    <3> DEFINE n == Cardinality(openMints)
    <3>1. n \in Nat /\ n > 0 /\ exposure = Cost * n
      BY <2>3 DEF OpenInv, ExposureFreedOnce
    <3> HIDE DEF n
    <3>2. exposure' = Cost * (n - 1)
      BY <2>1, <3>1, OneLess
    <3> QED
      BY <2>1, <2>3, <3>2 DEF ExposureFreedOnce, n
  <2>5. m = task[t].sig.mint /\ w = 0
    BY <1>6, <1>8
  <2>6. \A n \in Mints \ {m} : n \in openMints' <=> n \in openMints
    BY <2>1
  <2> HIDE DEF m, k, w
  <2> QED
    BY <1>1, <1>3, <1>5, <1>7, <2>4, <2>5, <2>6, TaskOpen
<1>9. CASE task[t].status # "closed"
  <2>1. UNCHANGED <<openMints, exposure>>
    BY <1>9 DEF Book, RecordExit
  <2>2. ExposureFreedOnce'
    BY <2>1 DEF OpenInv, ExposureFreedOnce
  <2>3. m = task[t].sig.mint /\ m \in openMints'
    BY <1>6, <2>1
  <2> HIDE DEF m, k, w
  <2> QED
    BY <1>1, <1>3, <1>5, <1>7, <2>1, <2>2, <2>3, TaskOpen
<1> QED
  BY <1>8, <1>9

\* The other steps of a task at work.
LEMMA LocalOpen ==
  ASSUME Seen, TypeIs, ClaimInv, AccountInv, OpenInv, NEW t \in Tasks, Local(t)
  PROVE  OpenInv'
<1>1. ASSUME Working(t) PROVE task[t] \in TaskType /\ task[t].kill \in BOOLEAN
  BY <1>1, AtWork DEF TaskType
<1>2. CASE QuoteFails(t)
  <2>1. Working(t) /\ Unspent
    BY <1>2 DEF QuoteFails, At, Working, Unspent, tsVars
  <2> QED
    BY <1>1, <1>2, <2>1, FailOpen, RetryOpen DEF QuoteFails
<1>3. ASSUME NEW price \in Prices, QuoteTooLow(t, price) PROVE OpenInv'
  <2>1. Working(t) /\ Unspent
    BY <1>3 DEF QuoteTooLow, At, Working, Unspent, tsVars
  <2> QED
    BY <1>3, <2>1, FailOpen DEF QuoteTooLow
<1>4. ASSUME NEW price \in Prices, SubmitFails(t, price) PROVE OpenInv'
  <2>1. Working(t) /\ Unspent
    BY <1>4 DEF SubmitFails, Sellable, At, Working, Unspent, tsVars
  <2> DEFINE kill == task[t].kill \/ Kill(t, price)
  <2>2. PICK err \in Refusals : Retry(t, err, kill)
    BY <1>4 DEF SubmitFails
  <2>3. kill \in BOOLEAN
    OBVIOUS
  <2> HIDE DEF kill
  <2> QED
    BY <2>1, <2>2, <2>3, RetryOpen
<1>5. ASSUME NEW price \in Prices, Submit(t, price) PROVE OpenInv'
  <2> DEFINE k == [task[t] EXCEPT !.pc = "confirm", !.tx = "flying",
                                  !.price = price, !.kill = @ \/ Kill(t, price)]
  <2>1. Working(t) /\ Unspent
    BY <1>5 DEF Submit, Sellable, At, Working, Unspent, tsVars
  <2>2. task' = [task EXCEPT ![t] = k]
    BY <1>5 DEF Submit, TypeIs, TasksOK
  <2>3. k.pc = "confirm" /\ k.tx = "flying" /\ k.sig = task[t].sig
    BY <1>1, <2>1 DEF TaskType
  <2> HIDE DEF k
  <2> QED
    BY <2>1, <2>2, <2>3, ChangedOpen DEF Spending
<1>6. CASE Refused(t)
  <2>1. Working(t) /\ Unspent
    BY <1>6 DEF Refused, At, Working, Unspent, tsVars
  <2> QED
    BY <1>1, <1>6, <2>1, FailOpen, RetryOpen DEF Refused
<1>7. CASE Confirmed(t) \/ MarkFailed(t) \/ Reply(t)
  <2>1. Working(t) /\ Unspent
    BY <1>7 DEF Confirmed, MarkFailed, Reply, At, Working, Unspent, tsVars
  <2>2. PICK pc \in {"settle", "reply", "release"} :
          /\ task' = [task EXCEPT ![t].pc = pc]
          /\ pc = "settle" => Spending(task[t])
    BY <1>7 DEF Confirmed, MarkFailed, Reply, At, Spending
  <2> DEFINE k == [task[t] EXCEPT !.pc = pc]
  <2>3. task' = [task EXCEPT ![t] = k]
    BY <2>2 DEF TypeIs, TasksOK
  <2>4. k.pc = pc /\ k.sig = task[t].sig
    BY <1>1, <2>1 DEF TaskType
  <2> HIDE DEF k
  <2> QED
    BY <2>1, <2>2, <2>3, <2>4, ChangedOpen DEF Spending
<1>8. CASE Settle(t)
  <2>1. Working(t) /\ Unspent /\ Spending(task[t])
    BY <1>8 DEF Settle, At, Working, Unspent, Spending, tsVars
  <2> DEFINE m == task[t].sig.mint
  <2>p. PICK left \in Remaining(t), old \in RowReads(m) :
         LET sold     == IF left < task[t].eff THEN task[t].eff - left ELSE 0
             received == Accumulated(old, Shorter(sold, task[t].sell) * task[t].price)
             paid     == IF old.status = "unknown" THEN task[t].sig.cost ELSE Cost
             total    == IF paid = NaN THEN 0 ELSE received - paid
             status   == IF left = 0 THEN "closed"
                         ELSE IF task[t].sig.all /\ sold = 0 THEN "exit_failed"
                         ELSE "partial"
         IN task' = [task EXCEPT
                       ![t].pc = IF old.status = "closed" THEN "reply" ELSE "write",
                       ![t].ok = TRUE,
                       ![t].permanent = FALSE,
                       ![t].status = status,
                       ![t].received = received,
                       ![t].pnl = total,
                       ![t].inc = Increment(total, old)]
    BY <1>8, Zenon DEF Settle
  <2> DEFINE sold == IF left < task[t].eff THEN task[t].eff - left ELSE 0
             received == Accumulated(old, Shorter(sold, task[t].sell) * task[t].price)
             paid == IF old.status = "unknown" THEN task[t].sig.cost ELSE Cost
             pnl == IF paid = NaN THEN 0 ELSE received - paid
             inc == Increment(pnl, old)
             status == IF left = 0 THEN "closed"
                       ELSE IF task[t].sig.all /\ sold = 0 THEN "exit_failed"
                       ELSE "partial"
             pc == IF old.status = "closed" THEN "reply" ELSE "write"
  <2>2. /\ pc \in {"reply", "write"}
        /\ task' = [task EXCEPT ![t].pc = pc, ![t].ok = TRUE,
                                ![t].permanent = FALSE, ![t].status = status,
                                ![t].received = received, ![t].pnl = pnl,
                                ![t].inc = inc]
    BY <2>p
  <2> HIDE DEF sold, received, paid, pnl, inc, status, pc
  <2> DEFINE k == Settled(task[t], pc, status, received, pnl, inc)
  <2>3. task' = [task EXCEPT ![t] = k]
    BY <2>2 DEF TypeIs, TasksOK, Settled
  <2>4. k.pc = pc /\ k.sig = task[t].sig
    BY <1>1, <2>1 DEF Settled, TaskType
  <2> HIDE DEF k
  <2> QED
    BY <2>1, <2>2, <2>3, <2>4, ChangedOpen, Zenon
<1>9. ~TimesOut(t)
  BY DEF TimesOut, Seen
<1> QED
  BY <1>2, <1>3, <1>4, <1>5, <1>6, <1>7, <1>8, <1>9, ReadBalanceOpen,
     LandsOpen, WriteOpen, BookOpen DEF Local

\* The loop drops, takes and polls; the trading state and the wallet stay.
Outside == UNCHANGED <<wallet, openMints, exposure>>

LEMMA LoopOpen ==
  ASSUME OpenInv, Outside,
         \A i \in DOMAIN exitQ' : exitQ'[i].cost = Cost,
         polling' # None => polling'.cost = Cost,
         \A t \in Tasks :
           \/ task'[t] = task[t]
           \/ task'[t].sig = None
           \/ task'[t].pc = "balance" /\ task'[t].sig.cost = Cost
  PROVE  OpenInv'
<1>1. ASSUME NEW t \in Tasks, task'[t].sig # None
      PROVE  Holding(task'[t], wallet'[task'[t].sig.mint], openMints')
  BY <1>1 DEF OpenInv, Holding, Spending, Outside
<1>2. (\A t \in Tasks :
         task[t].sig # None =>
           Holding(task[t], wallet[task[t].sig.mint], openMints))'
  BY <1>1
<1>3. ExposureFreedOnce' /\ (\A m \in Mints \ openMints : wallet[m] = 0)'
  BY DEF OpenInv, ExposureFreedOnce, Outside
<1>4. /\ (\A i \in DOMAIN exitQ : exitQ[i].cost = Cost)'
      /\ (polling # None => polling.cost = Cost)'
  OBVIOUS
<1> QED
  BY <1>2, <1>3, <1>4 DEF OpenInv

LEMMA HeadPriced ==
  ASSUME TypeIs, OpenInv, Receives
  PROVE  /\ Head(exitQ).cost = Cost
         /\ \A i \in DOMAIN Tail(exitQ) : Tail(exitQ)[i].cost = Cost
<1>1. exitQ \in Seq(Signal) /\ exitQ # << >>
  BY DEF TypeIs, StateIs, Receives
<1>2. Head(exitQ) = exitQ[1] /\ 1 \in DOMAIN exitQ
  BY <1>1
<1>3. \A i \in DOMAIN Tail(exitQ) :
        Tail(exitQ)[i] = exitQ[i + 1] /\ i + 1 \in DOMAIN exitQ
  BY <1>1
<1> QED
  BY <1>2, <1>3 DEF OpenInv

LEMMA SpawnedAt ==
  ASSUME NEW sig \in Signal
  PROVE  Spawned(sig).sig = sig /\ Spawned(sig).pc = "balance"
  BY SpawnedOK, Zenon DEF Spawned, Free

LEMMA OpenNext ==
  ASSUME Seen, Priced, TypeIs, ClaimInv, AccountInv, OpenInv, [Next]_vars
  PROVE  OpenInv'
<1>t. task \in [Tasks -> TaskType]
  BY DEF TypeIs, TasksOK
<1>1. ASSUME NEW sig \in Inputs, SendSignal(sig) PROVE OpenInv'
  <2>1. exitQ' = Append(exitQ, sig) /\ exitQ \in Seq(Signal) /\ sig \in Signal
    BY <1>1, ExitAssumption DEF SendSignal, TypeIs, StateIs
  <2>2. ASSUME NEW i \in DOMAIN exitQ'
        PROVE  exitQ'[i] = sig \/ (i \in DOMAIN exitQ /\ exitQ'[i] = exitQ[i])
    <3>1. i \in 1 .. Len(exitQ) + 1
      BY <2>1, <2>2
    <3>2. CASE i = Len(exitQ) + 1
      BY <2>1, <3>2
    <3>3. CASE i # Len(exitQ) + 1
      BY <2>1, <3>1, <3>3
    <3> QED
      BY <3>2, <3>3
  <2>3. \A i \in DOMAIN exitQ' : exitQ'[i].cost = Cost
    BY <2>2 DEF Priced, OpenInv
  <2>4. UNCHANGED <<task, polling>> /\ Outside
    BY <1>1 DEF SendSignal, Outside, tsVars
  <2>5. polling' # None => polling'.cost = Cost
    BY <2>4 DEF OpenInv
  <2> QED
    BY <2>3, <2>4, <2>5, LoopOpen
<1>2. CASE DropDuplicate \/ AcceptUnsized
  <2>1. /\ Receives /\ exitQ' = Tail(exitQ) /\ UNCHANGED task /\ Outside
        /\ polling' \in {polling, Head(exitQ)}
    BY <1>2 DEF DropDuplicate, AcceptUnsized, Outside, tsVars
  <2>2. polling' # None => polling'.cost = Cost
    BY <2>1, HeadPriced DEF OpenInv
  <2>3. \A i \in DOMAIN exitQ' : exitQ'[i].cost = Cost
    BY <2>1, HeadPriced
  <2> QED
    BY <2>1, <2>2, <2>3, LoopOpen
<1>3. ASSUME NEW t \in Tasks, Accept(t) PROVE OpenInv'
  <2> DEFINE sig == Head(exitQ)
  <2>1. /\ Receives /\ exitQ' = Tail(exitQ) /\ polling' = polling /\ Outside
        /\ task' = [task EXCEPT ![t] = Spawned(sig)]
    BY <1>3 DEF Accept, Outside, tsVars
  <2>2. sig \in Signal /\ sig.cost = Cost
    BY <2>1, HeadType, HeadPriced DEF TypeIs
  <2>3. Spawned(sig).sig = sig /\ Spawned(sig).pc = "balance"
    BY <2>2, SpawnedAt
  <2>4. polling' # None => polling'.cost = Cost
    BY <2>1 DEF OpenInv
  <2>5. \A i \in DOMAIN exitQ' : exitQ'[i].cost = Cost
    BY <2>1, HeadPriced
  <2> HIDE DEF sig
  <2>6. \A u \in Tasks :
          \/ task'[u] = task[u]
          \/ task'[u].pc = "balance" /\ task'[u].sig.cost = Cost
    BY <1>t, <2>1, <2>2, <2>3
  <2> QED
    BY <2>1, <2>4, <2>5, <2>6, LoopOpen
<1>4. ASSUME NEW t \in Tasks, PollResolves(t) PROVE OpenInv'
  <2> DEFINE sig == [polling EXCEPT !.amount = wallet[polling.mint]]
  <2>1. /\ polling # None /\ exitQ' = exitQ /\ polling' = None /\ Outside
        /\ task' = [task EXCEPT ![t] = Spawned(sig)]
    BY <1>4 DEF PollResolves, Outside, tsVars
  <2>2. polling \in Signal /\ polling.mint \in Mints /\ polling.cost = Cost
    BY <2>1 DEF TypeIs, StateIs, Signal, OpenInv
  <2>3. wallet[polling.mint] \in 0 .. Lot
    BY <2>2 DEF TypeIs, StateIs
  <2>4. sig \in Signal /\ sig.cost = Cost
    BY <2>2, <2>3 DEF Signal
  <2> HIDE DEF sig
  <2>5. Spawned(sig).sig = sig /\ Spawned(sig).pc = "balance"
    BY <2>4, SpawnedAt
  <2>6. \A u \in Tasks :
          \/ task'[u] = task[u]
          \/ task'[u].pc = "balance" /\ task'[u].sig.cost = Cost
    BY <1>t, <2>1, <2>4, <2>5
  <2>7. \A i \in DOMAIN exitQ' : exitQ'[i].cost = Cost
    BY <2>1 DEF OpenInv
  <2> QED
    BY <2>1, <2>6, <2>7, LoopOpen
<1>5. CASE PollGivesUp \/ UNCHANGED vars
  <2>1. exitQ' = exitQ /\ polling' \in {polling, None} /\ UNCHANGED task /\ Outside
    BY <1>5 DEF PollGivesUp, vars, exitVars, tsVars, Outside
  <2>2. /\ \A i \in DOMAIN exitQ' : exitQ'[i].cost = Cost
        /\ polling' # None => polling'.cost = Cost
    BY <2>1 DEF OpenInv
  <2> QED
    BY <2>1, <2>2, LoopOpen
<1>6. ASSUME NEW t \in Tasks, Release(t) PROVE OpenInv'
  <2>1. /\ task' = [task EXCEPT ![t] = Free] /\ UNCHANGED <<exitQ, polling>>
        /\ Outside
    BY <1>6 DEF Release, Outside, tsVars
  <2>2. \A u \in Tasks : task'[u] = task[u] \/ task'[u].sig = None
    BY <1>t, <2>1 DEF Free
  <2>3. /\ \A i \in DOMAIN exitQ' : exitQ'[i].cost = Cost
        /\ polling' # None => polling'.cost = Cost
    BY <2>1 DEF OpenInv
  <2> QED
    BY <2>1, <2>2, <2>3, LoopOpen
<1>7. ASSUME NEW x \in late, LandsLate(x) PROVE OpenInv'
  BY <1>7 DEF AccountInv
<1> QED
  BY <1>1, <1>2, <1>3, <1>4, <1>5, <1>6, <1>7, LocalOpen
     DEF Next, Engine, Loop, TaskStep, Chain, Local

(***************************************************************************)
(* "Full-exit detection: on-chain truth only" (exit/mod.rs:1308) and       *)
(* record_exit (execution/state.rs:303): however partial exits, failures   *)
(* and duplicates interleave, the exposure is what the open positions      *)
(* cost, so each leaves it once, and only with its slot.                   *)
(***************************************************************************)
THEOREM ExposureFreed ==
  ASSUME Seen, Sized, Priced
  PROVE  Spec => []ExposureFreedOnce
<1>1. Init => TypeIs /\ ClaimInv /\ AccountInv /\ OpenInv
  BY TypeInit, ClaimInit, AccountInit, OpenInit
<1>2. TypeIs /\ ClaimInv /\ AccountInv /\ OpenInv /\ [Next]_vars
        => (TypeIs /\ ClaimInv /\ AccountInv /\ OpenInv)'
  BY TypeNext, ClaimNext, AccountNext, OpenNext
<1>3. OpenInv => ExposureFreedOnce
  BY DEF OpenInv
<1> QED
  BY <1>1, <1>2, <1>3, PTL DEF Spec

-----------------------------------------------------------------------------
(* The monitors (PositionMonitor). *)

Flags == {"TakeProfit1", "TakeProfit2"}

MonPcs == {"watch", "wait", "due", "wait_due", "dumped", "promoted", "fired",
           "stopped"}

MonType == [pc : MonPcs, flags : SUBSET Flags, tokens : 0 .. Lot,
            cost : Nat \cup {NaN}, failures : 0 .. MaxFailures,
            asked : 0 .. Lot, reason : Reasons]

MonIs == mon \in [Mints -> MonType]

LEMMA MonImplies == TypeIs /\ MonIs => MonTypeOK
  BY TypeImplies DEF MonIs, MonType, MonTypeOK, MonPcs, Flags

-----------------------------------------------------------------------------
(* The records that a monitor moves on to. *)

LEMMA ReducedType ==
  ASSUME NEW reason
  PROVE  /\ \A x \in 0 .. Lot : Reduced(x, reason) \in 0 .. Lot
         /\ \A x \in Nat \cup {NaN} : Reduced(x, reason) \in Nat \cup {NaN}
<1>1. \A x \in Nat : x # NaN /\ x \div 2 \in 0 .. x
  BY TSAssumption
<1> QED
  BY <1>1, ExitAssumption DEF Reduced

LEMMA RestoredType ==
  ASSUME NEW x \in Nat \cup {NaN}, NEW reason
  PROVE  Restored(x, reason) \in Nat \cup {NaN}
  BY DEF Restored

LEMMA PcType ==
  ASSUME NEW k \in MonType, NEW pc \in MonPcs
  PROVE  [k EXCEPT !.pc = pc] \in MonType
  BY DEF MonType

LEMMA PutBackType ==
  ASSUME NEW k \in MonType, NEW reason
  PROVE  PutBack(k, reason) \in MonType
<1>1. k.cost \in Nat \cup {NaN} /\ k.asked \in 0 .. Lot /\ k.flags \in SUBSET Flags
  BY DEF MonType
<1> DEFINE cost == Restored(k.cost, k.reason)
           flags == k.flags \ {reason}
<1>2. cost \in Nat \cup {NaN} /\ flags \in SUBSET Flags
  BY <1>1, RestoredType
<1> HIDE DEF cost, flags
<1>3. [k EXCEPT !.pc = "watch", !.tokens = k.asked, !.cost = cost,
                !.flags = flags] \in MonType
  BY <1>1, <1>2 DEF MonType, MonPcs
<1> QED
  BY <1>3 DEF PutBack, cost, flags

LEMMA ConcludedType ==
  ASSUME NEW k \in MonType, NEW done \in BOOLEAN
  PROVE  Concluded(k, done) \in MonType
<1>1. "stopped" \in MonPcs /\ "watch" \in MonPcs
  BY DEF MonPcs
<1> QED
  BY <1>1, PcType DEF Concluded, Stopped

LEMMA FailuresType ==
  ASSUME NEW k \in MonType, NEW n \in 0 .. MaxFailures
  PROVE  [k EXCEPT !.failures = n] \in MonType
  BY DEF MonType

LEMMA AfterType ==
  ASSUME NEW k \in MonType, NEW r
  PROVE  After(k, r) \in MonType
<1>1. k.failures \in 0 .. MaxFailures /\ All(k.reason) \in BOOLEAN
  BY DEF MonType, All
<1>2. 0 \in 0 .. MaxFailures /\ MaxFailures \in 0 .. MaxFailures
  BY MonitorAssumption
<1>3. CASE r.ok
  BY <1>1, <1>2, <1>3, FailuresType, ConcludedType DEF After
<1>4. CASE ~r.ok /\ (r.permanent \/ k.failures + 1 >= MaxFailures)
  BY <1>2, <1>4, FailuresType, ConcludedType DEF After
<1>5. CASE ~(r.ok \/ r.permanent \/ k.failures + 1 >= MaxFailures)
  <2> DEFINE n == k.failures + 1
             one == [k EXCEPT !.failures = n]
  <2>1. n \in 0 .. MaxFailures
    BY <1>1, <1>5, MonitorAssumption
  <2> HIDE DEF n
  <2>2. one \in MonType
    BY <2>1, FailuresType
  <2>3. After(k, r) = PutBack(one, r.reason)
    BY <1>5 DEF After, n
  <2> QED
    BY <2>2, <2>3, PutBackType
<1> QED
  BY <1>3, <1>4, <1>5

-----------------------------------------------------------------------------
(* The steps of a monitor. *)

LEMMA OneMon ==
  ASSUME MonIs, NEW m \in Mints, NEW k \in MonType,
         mon' = [mon EXCEPT ![m] = k]
  PROVE  MonIs'
  BY DEF MonIs

\* What the monitors share with the engine, beside the signals they send.
LEMMA HeardKept ==
  ASSUME TypeIs, UNCHANGED unheardVars, TSTypeOK'
  PROVE  TypeIs'
  BY DEF TypeIs, StateIs, TasksOK, TaskOK, unheardVars

LEMMA StateKept ==
  ASSUME TypeIs, UNCHANGED tsVars
  PROVE  TSTypeOK'
  BY DEF TypeIs, StateIs, TSTypeOK, tsVars

LEMMA PromotedKept ==
  ASSUME TypeIs, NEW m \in Mints, Promoted(m)
  PROVE  TSTypeOK'
<1>1. TSTypeOK /\ Cost \in Nat \cup {NaN} /\ 0 \in Int /\ TRUE \in BOOLEAN
  BY ExitAssumption DEF TypeIs, StateIs
<1> QED
  BY <1>1, RecordExitType DEF Promoted

LEMMA SignalType ==
  ASSUME MonIs, NEW m \in Mints, NEW reason \in Reasons,
         NEW cost \in Nat \cup {NaN}
  PROVE  ExitSignal(m, reason, cost) \in Signal
<1>1. mon[m].tokens \in 0 .. Lot /\ All(reason) \in BOOLEAN
  BY DEF MonIs, MonType, All
<1> QED
  BY <1>1 DEF ExitSignal, Signal

LEMMA TriggerKept ==
  ASSUME TypeIs, MonIs, NEW m \in Mints, NEW reason \in Reasons,
         Trigger(m, reason)
  PROVE  TypeIs' /\ MonIs'
<1>1. mon[m] \in MonType /\ Cost \in Nat \cup {NaN}
  BY ExitAssumption DEF MonIs
<1>2. TypeIs'
  BY <1>1, SignalType, SendKept DEF Trigger
<1> DEFINE flags == mon[m].flags \cup ({reason} \ {"TakeProfit3", "Protective"})
           tokens == Reduced(mon[m].tokens, reason)
           cost == Reduced(mon[m].cost, reason)
           k == [mon[m] EXCEPT !.pc = "wait", !.flags = flags,
                               !.tokens = tokens, !.cost = cost,
                               !.asked = mon[m].tokens, !.reason = reason]
<1>3. mon' = [mon EXCEPT ![m] = k]
  BY DEF Trigger, MonIs
<1>4. /\ mon[m].flags \in SUBSET Flags /\ mon[m].tokens \in 0 .. Lot
      /\ mon[m].cost \in Nat \cup {NaN}
  BY <1>1 DEF MonType
<1>5. flags \in SUBSET Flags
  BY <1>4 DEF Flags, Reasons, TakeProfits
<1>6. tokens \in 0 .. Lot /\ cost \in Nat \cup {NaN}
  BY <1>4, ReducedType
<1> HIDE DEF flags, tokens, cost
<1>7. k \in MonType
  BY <1>1, <1>4, <1>5, <1>6 DEF MonType, MonPcs
<1> HIDE DEF k
<1> QED
  BY <1>2, <1>3, <1>7, OneMon

LEMMA HearKept ==
  ASSUME TypeIs, MonIs, NEW m \in Mints, Hear(m)
  PROVE  TypeIs' /\ MonIs'
<1> DEFINE next == After(mon[m], Head(inbox[m]))
<1>1. UNCHANGED unheardVars
  BY DEF Hear
<1>2. next \in MonType /\ "promoted" \in MonPcs
  BY AfterType DEF MonIs, MonPcs
<1>3. \/ mon' = [mon EXCEPT ![m] = next] /\ UNCHANGED tsVars
      \/ /\ Promoted(m)
         /\ mon' = [mon EXCEPT ![m] = [next EXCEPT !.pc = "promoted"]]
  BY DEF Hear
<1> HIDE DEF next
<1>4. [next EXCEPT !.pc = "promoted"] \in MonType
  BY <1>2, PcType
<1>5. MonIs'
  BY <1>2, <1>3, <1>4, OneMon
<1>6. TSTypeOK'
  BY <1>3, StateKept, PromotedKept
<1> QED
  BY <1>1, <1>5, <1>6, HeardKept

LEMMA MonitorKept ==
  ASSUME TypeIs, MonIs, NEW m \in Mints, Monitor(m) \/ Watcher(m)
  PROVE  TypeIs' /\ MonIs'
<1>1. mon[m] \in MonType /\ mon \in [Mints -> MonType]
  BY DEF MonIs
<1>2. mon[m].cost \in Nat \cup {NaN} /\ Cost \in Nat \cup {NaN}
      /\ "Protective" \in Reasons
  BY <1>1, ExitAssumption DEF MonType, Reasons
<1>3. ASSUME NEW pc \in MonPcs, mon' = [mon EXCEPT ![m].pc = pc] PROVE MonIs'
  <2>1. mon' = [mon EXCEPT ![m] = [mon[m] EXCEPT !.pc = pc]]
    BY <1>1, <1>3
  <2>2. [mon[m] EXCEPT !.pc = pc] \in MonType
    BY <1>1, PcType
  <2> QED
    BY <2>1, <2>2, OneMon
<1>p. MonPcs = {"watch", "wait", "due", "wait_due", "dumped", "promoted",
                "fired", "stopped"}
  BY DEF MonPcs
<1>4. CASE \E reason \in Reasons : Trigger(m, reason)
  BY <1>4, TriggerKept
<1>5. CASE TimeStop(m)
  <2>1. TypeIs'
    BY <1>2, <1>5, SignalType, SendKept DEF TimeStop
  <2> QED
    BY <1>3, <1>p, <1>5, <2>1 DEF TimeStop
<1>6. CASE Hear(m)
  BY <1>6, HearKept
<1>7. CASE HearDue(m)
  <2>1. TypeIs'
    BY <1>7, StateKept, HeardKept DEF HearDue
  <2>2. \/ mon' = [mon EXCEPT ![m] = Stopped(mon[m])]
        \/ mon' = [mon EXCEPT ![m] = [mon[m] EXCEPT !.pc = "due"]]
    BY <1>1, <1>7 DEF HearDue
  <2>3. Stopped(mon[m]) \in MonType /\ [mon[m] EXCEPT !.pc = "due"] \in MonType
    BY <1>1, <1>p, PcType DEF Stopped
  <2> QED
    BY <2>1, <2>2, <2>3, OneMon
<1>8. CASE WaitTimesOut(m)
  <2>1. TypeIs'
    BY <1>8, StateKept, HeardKept DEF WaitTimesOut, vars, exitVars, unheardVars
  <2>2. \/ mon' = [mon EXCEPT ![m] = PutBack(mon[m], mon[m].reason)]
        \/ mon' = [mon EXCEPT ![m].pc = "due"]
    BY <1>1, <1>8 DEF WaitTimesOut
  <2>3. PutBack(mon[m], mon[m].reason) \in MonType
    BY <1>1, PutBackType
  <2> QED
    BY <1>3, <1>p, <2>1, <2>2, <2>3, OneMon
<1>9. CASE Fire(m)
  <2>1. TypeIs'
    BY <1>2, <1>9, SignalType, SendKept DEF Fire
  <2> QED
    BY <1>3, <1>p, <1>9, <2>1 DEF Fire
<1>10. CASE Promote(m)
  <2>1. TypeIs'
    BY <1>10, PromotedKept, HeardKept DEF Promote, exitVars, unheardVars
  <2> QED
    BY <1>3, <1>p, <1>10, <2>1 DEF Promote
<1>11. ASSUME NEW d \in Devs, DevDumps(m, d) PROVE TypeIs' /\ MonIs'
  <2>1. TSTypeOK'
    BY <1>11 DEF TypeIs, StateIs, TSTypeOK, DevDumps, BlacklistDev
  <2>2. TypeIs'
    BY <1>11, <2>1, HeardKept DEF DevDumps, exitVars, unheardVars
  <2> QED
    BY <1>3, <1>p, <1>11, <2>2 DEF DevDumps
<1>12. CASE Watcher(m)
  <2> DEFINE sig == [mint |-> m, amount |-> Lot, all |-> TRUE,
                     reason |-> "Protective", cost |-> Cost]
  <2>1. sig \in Signal
    BY <1>2, ExitAssumption DEF Signal
  <2>2. SendSignal(sig)
    BY <1>12 DEF Watcher
  <2> HIDE DEF sig
  <2>3. TypeIs'
    BY <2>1, <2>2, SendKept
  <2> QED
    BY <1>12, <2>3 DEF Watcher, MonIs
<1> QED
  BY <1>4, <1>5, <1>6, <1>7, <1>8, <1>9, <1>10, <1>11, <1>12 DEF Monitor

-----------------------------------------------------------------------------
LEMMA MonInitType == MonInit => TypeIs /\ MonIs
<1>1. Watching \in MonType
  BY ExitAssumption, MonitorAssumption
     DEF Watching, MonType, MonPcs, Reasons, TakeProfits
<1> QED
  BY <1>1, TypeInit DEF MonInit, MonIs

LEMMA MonNextType == TypeIs /\ MonIs /\ [MonNext]_allVars => TypeIs' /\ MonIs'
<1> SUFFICES ASSUME TypeIs, MonIs, [MonNext]_allVars PROVE TypeIs' /\ MonIs'
  OBVIOUS
<1>1. CASE \E m \in Mints : Monitor(m) \/ Watcher(m)
  BY <1>1, MonitorKept
<1>2. CASE Engine /\ UNCHANGED monVars
  <2>1. [Next]_vars
    BY <1>2 DEF Next
  <2> QED
    BY <1>2, <2>1, TypeNext DEF monVars, MonIs
<1>3. CASE UNCHANGED allVars
  <2>1. [Next]_vars
    BY <1>3 DEF allVars
  <2> QED
    BY <1>3, <2>1, TypeNext DEF allVars, monVars, MonIs
<1> QED
  BY <1>1, <1>2, <1>3 DEF MonNext

(***************************************************************************)
(* The types of the monitors and of the engine below them: whatever the    *)
(* answers and their order, the tally stays between nothing and what was   *)
(* bought, and what is left of the cost is a natural number or NaN         *)
(* (monitoring/mod.rs:2024-2120).                                          *)
(***************************************************************************)
THEOREM MonTypeCorrect == MonSpec => []MonTypeOK
<1>1. MonSpec => [](TypeIs /\ MonIs)
  BY MonInitType, MonNextType, PTL DEF MonSpec
<1> QED
  BY <1>1, MonImplies, PTL

-----------------------------------------------------------------------------
\* Monitors touch neither the tasks nor the claims.
LEMMA MonitorClaims ==
  ASSUME NEW m \in Mints, Monitor(m) \/ Watcher(m)
  PROVE  UNCHANGED <<task, claims, polling>>
<1>1. ASSUME NEW sig, SendSignal(sig) PROVE UNCHANGED <<task, claims, polling>>
  BY <1>1 DEF SendSignal
<1> QED
  BY <1>1 DEF Monitor, Watcher, Trigger, TimeStop, Hear, HearDue, WaitTimesOut,
     Fire, Promote, DevDumps, vars, exitVars, unheardVars

LEMMA MonClaims ==
  ASSUME TypeIs, ClaimInv, [MonNext]_allVars
  PROVE  ClaimInv'
<1>1. CASE \E m \in Mints : Monitor(m) \/ Watcher(m)
  BY <1>1, MonitorClaims DEF ClaimInv
<1>2. CASE Engine /\ UNCHANGED monVars
  BY <1>2, ClaimNext DEF Next
<1>3. CASE UNCHANGED allVars
  BY <1>3, ClaimNext DEF allVars
<1> QED
  BY <1>1, <1>2, <1>3 DEF MonNext

(***************************************************************************)
(* One exit task per position (exit/dedup.rs:14) also for the signals that *)
(* the monitors and the watchers send, which no monitor waits out.         *)
(***************************************************************************)
THEOREM OnlyOneTaskMonitored == MonSpec => []OneTaskPerPosition
<1>1. TypeIs /\ ClaimInv => OneTaskPerPosition
  BY DEF TypeIs, StateIs, TasksOK, TaskOK, ClaimInv, OneTaskPerPosition, On, Working
<1>2. TypeIs /\ ClaimInv /\ [MonNext]_allVars => ClaimInv'
  BY MonClaims
<1>3. MonInit => ClaimInv
  BY ClaimInit DEF MonInit
<1> QED
  BY <1>1, <1>2, <1>3, MonInitType, MonNextType, PTL DEF MonSpec

-----------------------------------------------------------------------------
(* What one position sees of the engine: the signals queued for it, the    *)
(* loop's poll, the tasks at work on it, and its inbox, wallet and row.    *)

Answer == [ok : BOOLEAN, permanent : BOOLEAN, reason : Reasons]

InboxIs == inbox \in [Mints -> Seq(Answer)]

Queued(m) == {i \in DOMAIN exitQ : exitQ[i].mint = m}
Sigs(m) == {exitQ[i] : i \in Queued(m)}
Single(m) == \A i, j \in Queued(m) : i = j
Polled(m) == polling # None /\ polling.mint = m
Jobs(m) == {task[t] : t \in {u \in Tasks : On(u, m)}}

SameQueue(m) == UNCHANGED <<Sigs(m), Single(m)>>
SameView(m) ==
  /\ SameQueue(m)
  /\ UNCHANGED <<inbox[m], wallet[m], row[m], Polled(m), Jobs(m)>>

\* A step that concerns position n alone.
Elsewhere(n) == \A m \in Mints \ {n} : SameView(m)

\* The view without what m may have received, sold or been told.
LEMMA QueueStill ==
  ASSUME UNCHANGED exitQ, NEW m
  PROVE  SameQueue(m)
  BY DEF SameQueue, Sigs, Single, Queued

LEMMA SigsAre ==
  ASSUME TypeIs, NEW m
  PROVE  Sigs(m) \subseteq Signal
<1>1. exitQ \in Seq(Signal)
  BY DEF TypeIs, StateIs
<1> QED
  BY <1>1 DEF Sigs, Queued

LEMMA QueueTail ==
  ASSUME StateIs, exitQ # << >>, exitQ' = Tail(exitQ),
         NEW n, n = Head(exitQ).mint
  PROVE  /\ n \in Mints /\ Head(exitQ) \in Sigs(n) /\ Head(exitQ) \in Signal
         /\ Sigs(n)' \subseteq Sigs(n)
         /\ Single(n) => Sigs(n)' = {} /\ Single(n)'
         /\ \A m : m # n => SameQueue(m)
<1>1. exitQ \in Seq(Signal) /\ Len(exitQ) \in Nat /\ Len(exitQ) > 0
      /\ Head(exitQ) = exitQ[1] /\ 1 \in DOMAIN exitQ /\ Head(exitQ) \in Signal
  BY DEF StateIs
<1>2. \A i \in DOMAIN exitQ' : i + 1 \in DOMAIN exitQ
      /\ exitQ'[i] = exitQ[i + 1] /\ i \in Nat \ {0}
  BY <1>1
<1>3. \A i \in DOMAIN exitQ \ {1} :
         i - 1 \in DOMAIN exitQ' /\ exitQ'[i - 1] = exitQ[i] /\ (i - 1) + 1 = i
  BY <1>1
<1>4. n \in Mints /\ Head(exitQ) \in Sigs(n)
  BY <1>1 DEF Signal, Sigs, Queued
<1>5. \A m : \A i \in Queued(m)' : i + 1 \in Queued(m)
      /\ exitQ'[i] = exitQ[i + 1] /\ i \in Nat \ {0}
  BY <1>2 DEF Queued
<1>6. \A m : \A i \in Queued(m) \ {1} :
         i - 1 \in Queued(m)' /\ exitQ'[i - 1] = exitQ[i] /\ (i - 1) + 1 = i
           /\ i \in Nat
  BY <1>1, <1>3 DEF Queued
<1>t. ASSUME NEW m PROVE Sigs(m)' \subseteq Sigs(m)
  <2>1. Sigs(m)' = {exitQ'[i] : i \in Queued(m)'}
        /\ Sigs(m) = {exitQ[i] : i \in Queued(m)}
    BY DEF Sigs
  <2>2. \A i \in Queued(m)' : i + 1 \in Queued(m) /\ exitQ'[i] = exitQ[i + 1]
    BY <1>5
  <2> QED
    BY <2>1, <2>2
<1>7. Sigs(n)' \subseteq Sigs(n)
  BY <1>t
<1>8. ASSUME Single(n) PROVE Sigs(n)' = {} /\ Single(n)'
  <2>1. 1 \in Queued(n)
    BY <1>1 DEF Queued
  <2>2. Queued(n)' = {}
    <3>1. ASSUME NEW i \in Queued(n)' PROVE FALSE
      <4>1. i + 1 \in Queued(n) /\ i \in Nat \ {0}
        BY <1>5
      <4>2. i + 1 = 1
        BY <1>8, <2>1, <4>1 DEF Single
      <4> QED
        BY <4>1, <4>2
    <3> QED
      BY <3>1
  <2> QED
    BY <2>2 DEF Sigs, Single
<1>9. ASSUME NEW m, m # n PROVE SameQueue(m)
  <2>1. 1 \notin Queued(m)
    BY <1>1, <1>9 DEF Queued
  <2>2. Sigs(m)' = Sigs(m)
    <3>1. Sigs(m)' \subseteq Sigs(m)
      BY <1>t
    <3>2. Sigs(m) \subseteq Sigs(m)'
      <4>1. Sigs(m)' = {exitQ'[i] : i \in Queued(m)'}
            /\ Sigs(m) = {exitQ[i] : i \in Queued(m)}
        BY DEF Sigs
      <4>2. \A i \in Queued(m) : i - 1 \in Queued(m)' /\ exitQ'[i - 1] = exitQ[i]
        BY <1>6, <2>1
      <4> QED
        BY <4>1, <4>2
    <3> QED
      BY <3>1, <3>2
  <2>3. Single(m)' = Single(m)
    <3>1. ASSUME Single(m), NEW i \in Queued(m)', NEW j \in Queued(m)' PROVE i = j
      <4>1. i + 1 = j + 1 /\ i \in Nat /\ j \in Nat
        BY <1>5, <3>1 DEF Single
      <4> QED
        BY <4>1
    <3>2. ASSUME Single(m)', NEW i \in Queued(m), NEW j \in Queued(m) PROVE i = j
      <4>1. i - 1 = j - 1 /\ i \in Nat /\ j \in Nat
        BY <1>6, <2>1, <3>2 DEF Single
      <4> QED
        BY <4>1
    <3>3. Single(m) => Single(m)'
      BY <3>1 DEF Single
    <3>4. Single(m)' => Single(m)
      BY <3>2 DEF Single
    <3> QED
      BY <3>3, <3>4 DEF Single
  <2> QED
    BY <2>2, <2>3 DEF SameQueue
<1> QED
  BY <1>1, <1>4, <1>7, <1>8, <1>9

LEMMA QueueAppend ==
  ASSUME StateIs, NEW sig \in Signal, exitQ' = Append(exitQ, sig),
         NEW n, n = sig.mint
  PROVE  /\ Sigs(n)' = Sigs(n) \cup {sig}
         /\ Sigs(n) = {} => Single(n)'
         /\ \A m : m # n => SameQueue(m)
<1> DEFINE l == Len(exitQ) + 1
<1>1. exitQ \in Seq(Signal) /\ Len(exitQ) \in Nat
  BY DEF StateIs
<1>2. /\ DOMAIN exitQ' = DOMAIN exitQ \cup {l} /\ exitQ'[l] = sig
      /\ l \notin DOMAIN exitQ
      /\ \A i \in DOMAIN exitQ : exitQ'[i] = exitQ[i]
  BY <1>1
<1> HIDE DEF l
<1>3. Queued(n)' = Queued(n) \cup {l}
  BY <1>2 DEF Queued
<1>4. \A m : m # n => Queued(m)' = Queued(m)
  BY <1>2 DEF Queued
<1>5. \A m : \A i \in Queued(m) : exitQ'[i] = exitQ[i]
  BY <1>2 DEF Queued
<1>6. Sigs(n)' = Sigs(n) \cup {sig}
  <2>1. Sigs(n)' = {exitQ'[i] : i \in Queued(n)'}
        /\ Sigs(n) = {exitQ[i] : i \in Queued(n)}
    BY DEF Sigs
  <2>2. \A i \in Queued(n) : exitQ'[i] = exitQ[i]
    BY <1>5
  <2>3. ASSUME NEW s \in Sigs(n)' PROVE s \in Sigs(n) \cup {sig}
    <3>1. PICK i \in Queued(n) \cup {l} : s = exitQ'[i]
      BY <1>3, <2>1, <2>3
    <3>2. CASE i = l
      BY <1>2, <3>1, <3>2
    <3>3. CASE i \in Queued(n)
      BY <2>1, <2>2, <3>1, <3>3
    <3> QED
      BY <3>1, <3>2, <3>3
  <2>4. Sigs(n) \subseteq Sigs(n)'
    BY <1>3, <2>1, <2>2
  <2>5. sig \in Sigs(n)'
    BY <1>2, <1>3, <2>1
  <2> QED
    BY <2>3, <2>4, <2>5
<1>7. ASSUME Sigs(n) = {} PROVE Single(n)'
  <2>1. Queued(n) = {}
    BY <1>7 DEF Sigs
  <2>2. \A i \in Queued(n)' : i = l
    BY <1>3, <2>1
  <2> QED
    BY <2>2 DEF Single
<1>8. ASSUME NEW m, m # n PROVE SameQueue(m)
  <2>1. Queued(m)' = Queued(m)
    BY <1>4, <1>8
  <2>2. Sigs(m)' = {exitQ'[i] : i \in Queued(m)'}
        /\ Sigs(m) = {exitQ[i] : i \in Queued(m)}
    BY DEF Sigs
  <2>3. \A i \in Queued(m) : exitQ'[i] = exitQ[i]
    BY <1>5
  <2>4. Sigs(m)' = Sigs(m)
    BY <2>1, <2>2, <2>3
  <2>5. Single(m)' = Single(m)
    BY <2>1 DEF Single
  <2> QED
    BY <2>4, <2>5 DEF SameQueue
<1> QED
  BY <1>6, <1>7, <1>8

\* A task that goes on for the same signal.
LEMMA JobGoesOn ==
  ASSUME TypeIs, ClaimInv, NEW t \in Tasks, Working(t),
         NEW n, n = task[t].sig.mint,
         TasksOK', SameSignals,
         \A u \in Tasks \ {t} : task'[u] = task[u]
  PROVE  /\ Jobs(n) = {task[t]} /\ Jobs(n)' = {task'[t]}
         /\ \A m : m # n => Jobs(m)' = Jobs(m)
         /\ ~Polled(n)
<1>1. \A u \in Tasks : (Working(u) <=> task[u].sig # None)
                       /\ (Working(u)' <=> task'[u].sig # None)
  BY DEF TypeIs, TasksOK, TaskOK, Working
<1>2. \A m : \A u \in Tasks : On(u, m)' <=> On(u, m)
  BY <1>1 DEF On, SameSignals
<1>3. \A u \in Tasks : On(u, n) <=> u = t
  BY <1>1 DEF On, ClaimInv
<1>4. Jobs(n) = {task[t]}
  BY <1>3 DEF Jobs
<1>5. Jobs(n)' = {task'[t]}
  <2>1. {u \in Tasks : On(u, n)'} = {t}
    BY <1>2, <1>3
  <2> QED
    BY <2>1 DEF Jobs
<1>6. ASSUME NEW m, m # n PROVE Jobs(m)' = Jobs(m)
  <2> DEFINE of == {u \in Tasks : On(u, m)}
  <2>1. {u \in Tasks : On(u, m)'} = of
    BY <1>2
  <2>2. \A u \in of : task'[u] = task[u]
    BY <1>6 DEF On
  <2>3. Jobs(m)' = {task'[u] : u \in {v \in Tasks : On(v, m)'}}
    BY DEF Jobs
  <2>4. Jobs(m) = {task[u] : u \in of}
    BY DEF Jobs
  <2> HIDE DEF of
  <2> QED
    BY <2>1, <2>2, <2>3, <2>4
<1>7. ~Polled(n)
  BY <1>1 DEF Polled, ClaimInv
<1> QED
  BY <1>4, <1>5, <1>6, <1>7

LEMMA JobStarts ==
  ASSUME TypeIs, NEW t \in Tasks, task[t].pc = "free",
         NEW sig \in Signal, NEW n, n = sig.mint, Idle(n),
         task' = [task EXCEPT ![t] = Spawned(sig)]
  PROVE  /\ Jobs(n) = {} /\ Jobs(n)' = {Spawned(sig)}
         /\ \A m : m # n => Jobs(m)' = Jobs(m)
<1>1. task'[t] = Spawned(sig) /\ \A u \in Tasks \ {t} : task'[u] = task[u]
  BY DEF TypeIs, TasksOK
<1>2. /\ Spawned(sig).pc = "balance" /\ Spawned(sig).sig = sig
      /\ None \notin Signal
  BY SpawnedOK, ExitAssumption DEF Spawned, Free
<1>3. \A u \in Tasks : Working(u) <=> task[u].sig # None
  BY DEF TypeIs, TasksOK, TaskOK, Working
<1>4. \A u \in Tasks : ~On(u, n)
  BY <1>3 DEF On, Idle
<1>5. Jobs(n) = {}
  BY <1>4 DEF Jobs
<1>6. \A u \in Tasks : On(u, n)' <=> u = t
  BY <1>1, <1>2, <1>4 DEF On, Working
<1>7. Jobs(n)' = {Spawned(sig)}
  <2>1. {u \in Tasks : On(u, n)'} = {t}
    BY <1>6
  <2> QED
    BY <1>1, <2>1 DEF Jobs
<1>8. ASSUME NEW m, m # n PROVE Jobs(m)' = Jobs(m)
  <2> DEFINE of == {u \in Tasks : On(u, m)}
  <2>1. \A u \in Tasks : On(u, m)' <=> On(u, m)
    BY <1>1, <1>2, <1>8 DEF On, Working
  <2>2. {u \in Tasks : On(u, m)'} = of /\ \A u \in of : task'[u] = task[u]
    BY <1>1, <2>1 DEF On, Working
  <2>3. Jobs(m)' = {task'[u] : u \in {v \in Tasks : On(v, m)'}}
    BY DEF Jobs
  <2>4. Jobs(m) = {task[u] : u \in of}
    BY DEF Jobs
  <2> HIDE DEF of
  <2> QED
    BY <2>2, <2>3, <2>4
<1> QED
  BY <1>5, <1>7, <1>8

LEMMA JobEnds ==
  ASSUME TypeIs, ClaimInv, NEW t \in Tasks, Release(t), NEW n, n = task[t].sig.mint
  PROVE  /\ n \in Mints /\ Jobs(n) = {task[t]} /\ task[t].pc = "release"
         /\ Jobs(n)' = {} /\ ~Polled(n)
         /\ Elsewhere(n) /\ SameQueue(n)
         /\ UNCHANGED <<polling, inbox, wallet, row, late>>
<1>1. /\ task[t].pc = "release" /\ task' = [task EXCEPT ![t] = Free]
      /\ UNCHANGED <<exitQ, polling, inbox, wallet, row, late>>
  BY DEF Release, At
<1>2. task'[t] = Free /\ \A u \in Tasks \ {t} : task'[u] = task[u]
  BY <1>1 DEF TypeIs, TasksOK
<1>3. \A u \in Tasks : Working(u) <=> task[u].sig # None
  BY DEF TypeIs, TasksOK, TaskOK, Working
<1>4. Free.pc = "free" /\ Working(t)
  BY <1>1 DEF Free, Working
<1>5. n \in Mints
  BY <1>4, SignalOf DEF TypeIs
<1>6. \A u \in Tasks : On(u, n) <=> u = t
  BY <1>3, <1>4 DEF On, ClaimInv
<1>7. Jobs(n) = {task[t]}
  BY <1>6 DEF Jobs
<1>8. \A u \in Tasks : ~On(u, n)'
  BY <1>2, <1>4, <1>6 DEF On, Working
<1>9. Jobs(n)' = {}
  BY <1>8 DEF Jobs
<1>10. ASSUME NEW m, m # n PROVE Jobs(m)' = Jobs(m)
  <2> DEFINE of == {u \in Tasks : On(u, m)}
  <2>1. \A u \in Tasks : On(u, m)' <=> On(u, m)
    BY <1>2, <1>4, <1>10 DEF On, Working
  <2>5. {u \in Tasks : On(u, m)'} = of
    BY <2>1
  <2>2. \A u \in of : task'[u] = task[u]
    BY <1>2, <1>10 DEF On
  <2>3. Jobs(m)' = {task'[u] : u \in {v \in Tasks : On(v, m)'}}
    BY DEF Jobs
  <2>4. Jobs(m) = {task[u] : u \in of}
    BY DEF Jobs
  <2> HIDE DEF of
  <2> QED
    BY <2>5, <2>2, <2>3, <2>4
<1>11. ~Polled(n)
  BY <1>3, <1>4 DEF Polled, ClaimInv
<1>12. \A m : SameQueue(m)
  BY <1>1, QueueStill
<1>13. \A m : Polled(m)' = Polled(m) /\ inbox'[m] = inbox[m]
       /\ wallet'[m] = wallet[m]
              /\ row'[m] = row[m]
  BY <1>1 DEF Polled
<1>14. Elsewhere(n)
  BY <1>10, <1>12, <1>13 DEF Elsewhere, SameView
<1> QED
  BY <1>1, <1>5, <1>7, <1>9, <1>11, <1>12, <1>14

-----------------------------------------------------------------------------
(* What a step of a task at work does: to its record, k before and k2      *)
(* after, to the wallet w, the inbox q and the row r of its position.      *)

Sizes(k, k2, w) ==
  /\ k.pc = "balance" /\ k2.pc = "attempt"
  /\ \E seen \in Reads(w) :
       LET eff == IF seen > 0 /\ seen < k.sig.amount THEN seen ELSE k.sig.amount
       IN  k2.sell = IF k.sig.all THEN eff ELSE eff \div 2

\* Nothing to sell.
SizesNone(k, w) ==
  \E seen \in Reads(w) :
     LET eff == IF seen > 0 /\ seen < k.sig.amount THEN seen ELSE k.sig.amount
     IN  (IF k.sig.all THEN eff ELSE eff \div 2) = 0

InVain(k) ==
  \/ k.pc = "attempt"
  \/ k.pc = "confirm" /\ (k.tx = "flying" \/ "timeout" \in Faults)

GivesUp(k, k2, w) ==
  /\ InVain(k) \/ (k.pc = "balance" /\ SizesNone(k, w))
  /\ ~k2.ok
  /\ (k2.pc = "reply" /\ ~k2.permanent) \/ (k2.pc = "mark" /\ k2.permanent)

Retries(k, k2) == InVain(k) /\ k2.pc = "attempt" /\ k2.sell = k.sell

Submits(k, k2) ==
  k.pc = "attempt" /\ k2.pc = "confirm" /\ k2.tx = "flying" /\ k2.sell = k.sell

Confirms(k, k2) == k.pc = "confirm" /\ k.tx = "landed" /\ k2.pc = "settle"

Settles(k, k2) == k.pc = "settle" /\ k2.pc \in {"write", "reply"} /\ k2.ok

Books(k, k2) == k.pc = "book" /\ k2.pc = "reply" /\ k2.ok = k.ok

Sells(k, k2, w, w2) ==
  /\ k.pc = "confirm" /\ k.tx = "flying" /\ k.sell <= w
  /\ k2.pc = "confirm" /\ k2.tx = "landed" /\ k2.sell = k.sell
  /\ \E fill \in 0 .. k.sell : w2 = w - fill
    /\ ("no_fill" \notin Faults => fill = k.sell)

Writes(k, k2) == k.pc = "write" /\ k2.pc = "book" /\ k2.ok = k.ok

Marks(k, k2, r2) ==
  /\ k.pc = "mark" /\ k2.pc = "reply" /\ k2.ok = k.ok
  /\ "row_write" \notin Faults => r2.status = "exit_failed"

Replies(k, k2, q, q2) ==
  /\ k.pc = "reply" /\ k2.pc = "release"
  /\ q2 = Append(q, [ok |-> k.ok, permanent |-> k.permanent,
    reason |-> k.sig.reason])

Moves(k, k2, w, w2, q, q2, r, r2) ==
  \/ /\ \/ Sizes(k, k2, w) \/ GivesUp(k, k2, w) \/ Retries(k, k2) \/ Submits(k, k2)
        \/ Confirms(k, k2) \/ Settles(k, k2) \/ Books(k, k2)
     /\ w2 = w /\ q2 = q /\ r2 = r
  \/ Sells(k, k2, w, w2) /\ q2 = q /\ r2 = r
  \/ Writes(k, k2) /\ w2 = w /\ q2 = q
  \/ Marks(k, k2, r2) /\ w2 = w /\ q2 = q
  \/ Replies(k, k2, q, q2) /\ w2 = w /\ r2 = r

LEMMA FailMoves ==
  ASSUME TasksOK, NEW t \in Tasks, NEW err, Fail(t, err)
  PROVE  /\ \A u \in Tasks \ {t} : task'[u] = task[u]
         /\ ~task'[t].ok
         /\ \/ task'[t].pc = "reply" /\ ~task'[t].permanent
            \/ task'[t].pc = "mark" /\ task'[t].permanent
<1> DEFINE pc == IF err \in Retryable THEN "reply" ELSE "mark"
           k == [task[t] EXCEPT !.pc = pc, !.ok = FALSE,
                                !.permanent = err \notin Retryable]
<1>1. task' = [task EXCEPT ![t] = k] /\ task \in [Tasks -> TaskType]
  BY DEF TasksOK, Fail
<1>2. k.pc = pc /\ k.ok = FALSE /\ k.permanent = (err \notin Retryable)
  BY <1>1 DEF TaskType
<1>3. task'[t] = k /\ \A u \in Tasks \ {t} : task'[u] = task[u]
  BY <1>1
<1> HIDE DEF k
<1> QED
  BY <1>2, <1>3

LEMMA RetryMoves ==
  ASSUME TasksOK, NEW t \in Tasks, NEW err, NEW kill, Retry(t, err, kill),
         InVain(task[t]), NEW w
  PROVE  /\ \A u \in Tasks \ {t} : task'[u] = task[u]
         /\ GivesUp(task[t], task'[t], w) \/ Retries(task[t], task'[t])
<1>1. CASE task[t].attempt = ExitRetries \/ kill
  BY <1>1, FailMoves DEF Retry, GivesUp
<1>2. CASE ~(task[t].attempt = ExitRetries \/ kill)
  <2> DEFINE k == [task[t] EXCEPT !.pc = "attempt", !.attempt = @ + 1,
                                  !.kill = kill, !.tx = "none"]
  <2>1. task' = [task EXCEPT ![t] = k] /\ task \in [Tasks -> TaskType]
    BY <1>2 DEF Retry, TasksOK
  <2>2. k.pc = "attempt" /\ k.sell = task[t].sell
    BY <2>1 DEF TaskType
  <2>3. task'[t] = k /\ \A u \in Tasks \ {t} : task'[u] = task[u]
    BY <2>1
  <2> HIDE DEF k
  <2> QED
    BY <2>2, <2>3 DEF Retries
<1> QED
  BY <1>1, <1>2

\* What a step leaves alone.
Around(t, n) ==
  /\ \A u \in Tasks \ {t} : task'[u] = task[u]
  /\ \A m \in Mints \ {n} : UNCHANGED <<wallet[m], inbox[m], row[m]>>
  /\ UNCHANGED <<exitQ, polling>>

MovesAt(t, n) ==
  Moves(task[t], task'[t], wallet[n], wallet'[n], inbox[n], inbox'[n],
        row[n], row'[n])

LEMMA ReadBalanceMoves ==
  ASSUME TypeIs, NEW t \in Tasks, ReadBalance(t), NEW n, n = task[t].sig.mint
  PROVE  Around(t, n) /\ MovesAt(t, n)
<1>1. task[t].pc = "balance" /\ UNCHANGED <<exitQ, polling, inbox, wallet, row>>
  BY DEF ReadBalance, At
<1>2. PICK seen \in Reads(wallet[n]) :
        LET eff  == IF seen > 0 /\ seen < task[t].sig.amount
                    THEN seen ELSE task[t].sig.amount
            sell == IF task[t].sig.all THEN eff ELSE eff \div 2
        IN IF sell = 0
           THEN Fail(t, "Permanent")
           ELSE task' = [task EXCEPT ![t].pc = "attempt", ![t].eff = eff,
                                     ![t].sell = sell]
  BY DEF ReadBalance
<1> DEFINE eff == IF seen > 0 /\ seen < task[t].sig.amount
                  THEN seen ELSE task[t].sig.amount
           sell == IF task[t].sig.all THEN eff ELSE eff \div 2
<1>t. TasksOK /\ task \in [Tasks -> TaskType]
  BY DEF TypeIs, TasksOK
<1>3. CASE sell = 0
  <2>1. Fail(t, "Permanent") /\ SizesNone(task[t], wallet[n])
    BY <1>2, <1>3 DEF SizesNone
  <2>2. GivesUp(task[t], task'[t], wallet[n])
        /\ \A u \in Tasks \ {t} : task'[u] = task[u]
    BY <1>1, <1>t, <2>1, FailMoves DEF GivesUp
  <2> QED
    BY <1>1, <2>2 DEF Around, MovesAt, Moves
<1>4. CASE sell # 0
  <2> DEFINE k == [task[t] EXCEPT !.pc = "attempt", !.eff = eff, !.sell = sell]
  <2>1. task' = [task EXCEPT ![t] = k]
    BY <1>t, <1>2, <1>4
  <2>2. k.pc = "attempt" /\ k.sell = sell
    BY <1>t DEF TaskType
  <2>3. task'[t] = k /\ \A u \in Tasks \ {t} : task'[u] = task[u]
    BY <1>t, <2>1
  <2> HIDE DEF k
  <2>4. Sizes(task[t], task'[t], wallet[n])
    BY <1>1, <2>2, <2>3 DEF Sizes
  <2> QED
    BY <1>1, <2>3, <2>4 DEF Around, MovesAt, Moves
<1> QED
  BY <1>3, <1>4

LEMMA FailsAt ==
  ASSUME TypeIs, NEW t \in Tasks, NEW n, UNCHANGED <<exitQ, polling, inbox, wallet,
    row>>,
         InVain(task[t]), NEW err, NEW kill, Fail(t, err) \/ Retry(t, err, kill)
  PROVE  Around(t, n) /\ MovesAt(t, n)
<1>1. TasksOK
  BY DEF TypeIs
<1>2. CASE Fail(t, err)
  <2>1. GivesUp(task[t], task'[t], wallet[n])
        /\ \A u \in Tasks \ {t} : task'[u] = task[u]
    BY <1>1, <1>2, FailMoves DEF GivesUp
  <2> QED
    BY <2>1 DEF Around, MovesAt, Moves
<1>3. CASE Retry(t, err, kill)
  <2>1. /\ \A u \in Tasks \ {t} : task'[u] = task[u]
        /\ GivesUp(task[t], task'[t], wallet[n]) \/ Retries(task[t], task'[t])
    BY <1>1, <1>3, RetryMoves
  <2> QED
    BY <2>1 DEF Around, MovesAt, Moves
<1> QED
  BY <1>2, <1>3

LEMMA SubmitMoves ==
  ASSUME TypeIs, NEW t \in Tasks, NEW price \in Prices, Submit(t, price), NEW n
  PROVE  Around(t, n) /\ MovesAt(t, n)
<1> DEFINE kill == task[t].kill \/ Kill(t, price)
           k == [task[t] EXCEPT !.pc = "confirm", !.tx = "flying",
                                !.price = price, !.kill = kill]
<1>1. /\ task \in [Tasks -> TaskType] /\ task[t].pc = "attempt"
      /\ task' = [task EXCEPT ![t] = k]
      /\ UNCHANGED <<exitQ, polling, inbox, wallet, row>>
  BY DEF Submit, Sellable, At, TypeIs, TasksOK
<1>2. k.pc = "confirm" /\ k.tx = "flying" /\ k.sell = task[t].sell
  BY <1>1 DEF TaskType
<1>3. task'[t] = k /\ \A u \in Tasks \ {t} : task'[u] = task[u]
  BY <1>1
<1> HIDE DEF k
<1>4. Submits(task[t], task'[t])
  BY <1>1, <1>2, <1>3 DEF Submits
<1> QED
  BY <1>1, <1>3, <1>4 DEF Around, MovesAt, Moves

LEMMA LandsMoves ==
  ASSUME TypeIs, NEW t \in Tasks, Lands(t), NEW n, n = task[t].sig.mint
  PROVE  Around(t, n) /\ MovesAt(t, n)
<1>1. /\ task[t].pc = "confirm" /\ task[t].tx = "flying"
         /\ task[t].sell <= wallet[n]
      /\ UNCHANGED <<exitQ, polling, inbox, row>>
      /\ task \in [Tasks -> TaskType]
  BY DEF Lands, At, TypeIs, TasksOK
<1> DEFINE fills == IF "no_fill" \in Faults THEN 0 .. task[t].sell
                                            ELSE {task[t].sell}
<1>2. PICK fill \in fills :
        /\ task' = [task EXCEPT ![t].tx = "landed", ![t].fill = fill]
        /\ Moved(n, fill, task[t].price)
  BY DEF Lands
<1>3. n \in Mints /\ TaskOK(task[t])
  BY <1>1, SignalOf DEF TypeIs, Working
<1>4. task[t].sell \in Nat
  BY <1>3, ExitAssumption DEF TaskOK, TaskType
<1>5. fill \in 0 .. task[t].sell /\ ("no_fill" \notin Faults => fill = task[t].sell)
  BY <1>4
<1>6. wallet' = [wallet EXCEPT ![n] = @ - fill] /\ wallet \in [Mints -> 0 .. Lot]
  BY <1>2 DEF Moved, TypeIs, StateIs
<1>7. wallet'[n] = wallet[n] - fill /\ \A m \in Mints \ {n} : wallet'[m] = wallet[m]
  BY <1>3, <1>6
<1> DEFINE k == [task[t] EXCEPT !.tx = "landed", !.fill = fill]
<1>8. task' = [task EXCEPT ![t] = k]
  BY <1>1, <1>2
<1>9. k.pc = "confirm" /\ k.tx = "landed" /\ k.sell = task[t].sell
  BY <1>1 DEF TaskType
<1>10. task'[t] = k /\ \A u \in Tasks \ {t} : task'[u] = task[u]
  BY <1>1, <1>8
<1> HIDE DEF k, fills
<1>11. Sells(task[t], task'[t], wallet[n], wallet'[n])
  BY <1>1, <1>5, <1>7, <1>9, <1>10 DEF Sells
<1> QED
  BY <1>1, <1>7, <1>10, <1>11 DEF Around, MovesAt, Moves

LEMMA SettleMoves ==
  ASSUME TypeIs, NEW t \in Tasks, Settle(t), NEW n
  PROVE  Around(t, n) /\ MovesAt(t, n)
<1>1. /\ task \in [Tasks -> TaskType] /\ task[t].pc = "settle"
      /\ UNCHANGED <<exitQ, polling, inbox, wallet, row>>
  BY DEF Settle, At, TypeIs, TasksOK
<1>2. PICK left \in Remaining(t), had \in RowReads(task[t].sig.mint) :
       LET sold     == IF left < task[t].eff THEN task[t].eff - left ELSE 0
           received == Accumulated(had, Shorter(sold, task[t].sell) * task[t].price)
           paid     == IF had.status = "unknown" THEN task[t].sig.cost ELSE Cost
           total    == IF paid = NaN THEN 0 ELSE received - paid
           status   == IF left = 0 THEN "closed"
                       ELSE IF task[t].sig.all /\ sold = 0 THEN "exit_failed"
                       ELSE "partial"
       IN task' = [task EXCEPT
                     ![t].pc = IF had.status = "closed" THEN "reply" ELSE "write",
                     ![t].ok = TRUE,
                     ![t].permanent = FALSE,
                     ![t].status = status,
                     ![t].received = received,
                     ![t].pnl = total,
                     ![t].inc = Increment(total, had)]
  BY DEF Settle
<1> DEFINE pc == IF had.status = "closed" THEN "reply" ELSE "write"
           sold == IF left < task[t].eff THEN task[t].eff - left ELSE 0
           received == Accumulated(had, Shorter(sold, task[t].sell) * task[t].price)
           paid == IF had.status = "unknown" THEN task[t].sig.cost ELSE Cost
           pnl == IF paid = NaN THEN 0 ELSE received - paid
           status == IF left = 0 THEN "closed"
                     ELSE IF task[t].sig.all /\ sold = 0 THEN "exit_failed"
                     ELSE "partial"
           inc == Increment(pnl, had)
<1>3. task' = [task EXCEPT ![t].pc = pc, ![t].ok = TRUE,
                           ![t].permanent = FALSE, ![t].status = status,
                           ![t].received = received, ![t].pnl = pnl,
                           ![t].inc = inc]
  BY <1>2
<1>6. pc \in {"reply", "write"}
  OBVIOUS
<1> HIDE DEF pc, received, pnl, status, inc
<1>4. /\ task'[t].pc = pc /\ task'[t].ok
      /\ \A u \in Tasks \ {t} : task'[u] = task[u]
  BY <1>1, <1>3 DEF TaskType
<1>5. Settles(task[t], task'[t])
  BY <1>1, <1>6, <1>4 DEF Settles
<1> QED
  BY <1>1, <1>4, <1>5 DEF Around, MovesAt, Moves

LEMMA PcMoves ==
  ASSUME TypeIs, NEW t \in Tasks, NEW pc, task' = [task EXCEPT ![t].pc = pc]
  PROVE  /\ \A u \in Tasks \ {t} : task'[u] = task[u]
         /\ task'[t].pc = pc /\ task'[t].ok = task[t].ok
  BY DEF TypeIs, TasksOK, TaskType

LEMMA ClosingMoves ==
  ASSUME TypeIs, NEW t \in Tasks,
    Confirmed(t) \/ Write(t) \/ Book(t) \/ MarkFailed(t),
         NEW n, n = task[t].sig.mint
  PROVE  Around(t, n) /\ MovesAt(t, n)
<1>1. n \in Mints /\ row \in [Mints -> RowType]
  BY SignalOf DEF TypeIs, StateIs, Confirmed, Write, Book, MarkFailed, At, Working
<1>2. CASE Confirmed(t)
  <2>1. Confirms(task[t], task'[t]) /\ \A u \in Tasks \ {t} : task'[u] = task[u]
    BY <1>2, PcMoves DEF Confirmed, Confirms, At
  <2> QED
    BY <1>2, <2>1 DEF Confirmed, Around, MovesAt, Moves
<1>3. CASE Write(t)
  <2>1. Writes(task[t], task'[t]) /\ \A u \in Tasks \ {t} : task'[u] = task[u]
    BY <1>3, PcMoves DEF Write, Writes, At
  <2>2. \A m \in Mints \ {n} : row'[m] = row[m]
    BY <1>1, <1>3 DEF Write
  <2> QED
    BY <1>3, <2>1, <2>2 DEF Write, Around, MovesAt, Moves
<1>4. CASE Book(t)
  <2>1. Books(task[t], task'[t]) /\ \A u \in Tasks \ {t} : task'[u] = task[u]
    BY <1>4, PcMoves DEF Book, Books, At
  <2> QED
    BY <1>4, <2>1 DEF Book, Around, MovesAt, Moves
<1>5. CASE MarkFailed(t)
  <2>1. \A m \in Mints \ {n} : row'[m] = row[m]
    BY <1>1, <1>5 DEF MarkFailed
  <2>2. "row_write" \notin Faults => row'[n].status = "exit_failed"
    BY <1>1, <1>5 DEF MarkFailed, RowType
  <2>3. Marks(task[t], task'[t], row'[n])
        /\ \A u \in Tasks \ {t} : task'[u] = task[u]
    BY <1>5, <2>2, PcMoves DEF MarkFailed, Marks, At
  <2> QED
    BY <1>5, <2>1, <2>3 DEF MarkFailed, Around, MovesAt, Moves
<1> QED
  BY <1>2, <1>3, <1>4, <1>5

LEMMA ReplyMoves ==
  ASSUME TypeIs, InboxIs, NEW t \in Tasks, Reply(t), NEW n, n = task[t].sig.mint
  PROVE  Around(t, n) /\ MovesAt(t, n) /\ InboxIs'
<1>1. /\ n \in Mints /\ task[t].sig.reason \in Reasons
      /\ task[t].ok \in BOOLEAN /\ task[t].permanent \in BOOLEAN
  BY SignalOf DEF Reply, At, Working, TypeIs, TaskOK, TaskType, Signal
<1> DEFINE a == [ok |-> task[t].ok, permanent |-> task[t].permanent,
                 reason |-> task[t].sig.reason]
<1>2. inbox' = [inbox EXCEPT ![n] = Append(@, a)]
  BY DEF Reply
<1>3. a \in Answer
  BY <1>1 DEF Answer
<1>4. InboxIs'
  BY <1>1, <1>2, <1>3 DEF InboxIs
<1>5. inbox'[n] = Append(inbox[n], a) /\ \A m \in Mints \ {n} : inbox'[m] = inbox[m]
  BY <1>1, <1>2 DEF InboxIs
<1>6. Replies(task[t], task'[t], inbox[n], inbox'[n])
      /\ \A u \in Tasks \ {t} : task'[u] = task[u]
  BY <1>5, PcMoves DEF Reply, Replies, At
<1> QED
  BY <1>4, <1>5, <1>6 DEF Reply, Around, MovesAt, Moves

LEMMA LocalMoves ==
  ASSUME TypeIs, InboxIs, NEW t \in Tasks, Local(t), NEW n, n = task[t].sig.mint
  PROVE  Around(t, n) /\ MovesAt(t, n) /\ InboxIs'
<1>i. ASSUME UNCHANGED inbox PROVE InboxIs'
  BY <1>i DEF InboxIs
<1>1. CASE ReadBalance(t)
  BY <1>1, <1>i, ReadBalanceMoves DEF ReadBalance
<1>2. CASE QuoteFails(t)
  <2>1. InVain(task[t]) /\ UNCHANGED <<exitQ, polling, inbox, wallet, row>>
    BY <1>2 DEF QuoteFails, InVain, At
  <2>2. PICK err, kill : Fail(t, err) \/ Retry(t, err, kill)
    BY <1>2 DEF QuoteFails
  <2> QED
    BY <1>i, <2>1, <2>2, FailsAt
<1>3. ASSUME NEW price \in Prices, QuoteTooLow(t, price)
      PROVE  Around(t, n) /\ MovesAt(t, n) /\ InboxIs'
  <2>1. InVain(task[t]) /\ UNCHANGED <<exitQ, polling, inbox, wallet, row>>
    BY <1>3 DEF QuoteTooLow, InVain, At
  <2> QED
    BY <1>3, <1>i, <2>1, FailsAt DEF QuoteTooLow
<1>4. ASSUME NEW price \in Prices, SubmitFails(t, price)
      PROVE  Around(t, n) /\ MovesAt(t, n) /\ InboxIs'
  <2>1. InVain(task[t]) /\ UNCHANGED <<exitQ, polling, inbox, wallet, row>>
    BY <1>4 DEF SubmitFails, Sellable, InVain, At
  <2>2. PICK err, kill : Retry(t, err, kill)
    BY <1>4 DEF SubmitFails
  <2> QED
    BY <1>i, <2>1, <2>2, FailsAt
<1>5. CASE Refused(t)
  <2>1. InVain(task[t]) /\ UNCHANGED <<exitQ, polling, inbox, wallet, row>>
    BY <1>5 DEF Refused, InVain, At
  <2>2. PICK err, kill : Fail(t, err) \/ Retry(t, err, kill)
    BY <1>5 DEF Refused
  <2> QED
    BY <1>i, <2>1, <2>2, FailsAt
<1>6. CASE TimesOut(t)
  <2>1. InVain(task[t]) /\ UNCHANGED <<exitQ, polling, inbox, wallet, row>>
    BY <1>6 DEF TimesOut, InVain, At
  <2>2. PICK err, kill : Retry(t, err, kill)
    BY <1>6 DEF TimesOut
  <2> QED
    BY <1>i, <2>1, <2>2, FailsAt
<1>7. ASSUME NEW price \in Prices, Submit(t, price)
      PROVE  Around(t, n) /\ MovesAt(t, n) /\ InboxIs'
  BY <1>7, <1>i, SubmitMoves DEF Submit
<1>8. CASE Lands(t)
  BY <1>8, <1>i, LandsMoves DEF Lands
<1>9. CASE Settle(t)
  BY <1>9, <1>i, SettleMoves DEF Settle
<1>10. CASE Confirmed(t) \/ Write(t) \/ Book(t) \/ MarkFailed(t)
  BY <1>10, <1>i, ClosingMoves DEF Confirmed, Write, Book, MarkFailed
<1>11. CASE Reply(t)
  BY <1>11, ReplyMoves
<1> QED
  BY <1>1, <1>2, <1>3, <1>4, <1>5, <1>6, <1>7, <1>8, <1>9, <1>10, <1>11 DEF Local

\* A step of a task at work is a step of its position alone.
LEMMA LocalView ==
  ASSUME TypeIs, InboxIs, ClaimInv, NEW t \in Tasks, Local(t),
         NEW n, n = task[t].sig.mint
  PROVE  /\ n \in Mints /\ Working(t) /\ task[t].sig \in Signal
         /\ TaskOK(task[t]) /\ TaskOK(task[t])' /\ task'[t].sig = task[t].sig
         /\ Jobs(n) = {task[t]} /\ Jobs(n)' = {task'[t]} /\ ~Polled(n)
           /\ ~Polled(n)'
         /\ MovesAt(t, n) /\ SameQueue(n) /\ Elsewhere(n) /\ InboxIs'
<1>1. Working(t)
  BY DEF Local, ReadBalance, QuoteFails, QuoteTooLow, SubmitFails, Submit, Sellable,
         Lands, Confirmed, Refused, TimesOut, Settle, Write, Book, MarkFailed,
           Reply,
         At, Working
<1>2. Around(t, n) /\ MovesAt(t, n) /\ InboxIs' /\ TasksOK' /\ SameSignals
  BY LocalMoves, LocalKept
<1>3. n \in Mints /\ task[t].sig \in Signal /\ TaskOK(task[t])
  BY <1>1, SignalOf DEF TypeIs
<1>4. /\ Jobs(n) = {task[t]} /\ Jobs(n)' = {task'[t]}
      /\ \A m : m # n => Jobs(m)' = Jobs(m)
      /\ ~Polled(n)
  BY <1>1, <1>2, JobGoesOn DEF Around
<1>5. \A m : SameQueue(m) /\ Polled(m)' = Polled(m)
  BY <1>2, QueueStill DEF Around, Polled
<1>6. Elsewhere(n)
  BY <1>2, <1>4, <1>5 DEF Elsewhere, SameView, Around
<1>7. TaskOK(task[t])' /\ task'[t].sig = task[t].sig
  BY <1>2 DEF TasksOK, SameSignals
<1> QED
  BY <1>1, <1>2, <1>3, <1>4, <1>5, <1>6, <1>7

-----------------------------------------------------------------------------
(* The steps of the loop and of the chain. *)

OthersStill(n) == UNCHANGED <<inbox[n], wallet[n], row[n]>>

\* The first signal is taken out of the channel.
TakesOne(n, sig) ==
  /\ n \in Mints /\ sig \in Signal /\ sig.mint = n /\ sig \in Sigs(n)
  /\ Sigs(n)' \subseteq Sigs(n)
  /\ Single(n) => Sigs(n)' = {} /\ Single(n)'
  /\ OthersStill(n) /\ ~Polled(n) /\ Elsewhere(n) /\ InboxIs'

LEMMA DropView ==
  ASSUME TypeIs, InboxIs, DropDuplicate, NEW sig, sig = Head(exitQ),
         NEW n, n = sig.mint
  PROVE  TakesOne(n, sig) /\ UNCHANGED Jobs(n) /\ ~Polled(n)'
<1>1. /\ polling = None /\ exitQ # << >> /\ exitQ' = Tail(exitQ) /\ StateIs
      /\ UNCHANGED <<polling, task, inbox, wallet, row>>
  BY DEF DropDuplicate, Receives, TypeIs
<1>2. \A m : UNCHANGED <<Jobs(m), Polled(m), inbox[m], wallet[m], row[m]>>
  BY <1>1 DEF Jobs, On, Working, Polled
<1>3. /\ n \in Mints /\ sig \in Sigs(n) /\ sig \in Signal
         /\ Sigs(n)' \subseteq Sigs(n)
      /\ Single(n) => Sigs(n)' = {} /\ Single(n)'
      /\ \A m : m # n => SameQueue(m)
  BY <1>1, QueueTail
<1>4. Elsewhere(n)
  BY <1>2, <1>3 DEF Elsewhere, SameView
<1>5. InboxIs' /\ ~Polled(n) /\ ~Polled(n)'
  BY <1>1 DEF InboxIs, Polled
<1> QED
  BY <1>2, <1>3, <1>4, <1>5 DEF TakesOne, OthersStill

LEMMA AcceptView ==
  ASSUME TypeIs, InboxIs, ClaimInv, NEW t \in Tasks, Accept(t),
         NEW sig, sig = Head(exitQ), NEW n, n = sig.mint
  PROVE  /\ TakesOne(n, sig) /\ sig.amount > 0 /\ Jobs(n) = {}
         /\ Jobs(n)' = {Spawned(sig)} /\ ~Polled(n)'
<1>1. /\ polling = None /\ exitQ # << >> /\ exitQ' = Tail(exitQ) /\ StateIs
      /\ UNCHANGED <<polling, inbox, wallet, row>> /\ task[t].pc = "free"
      /\ task' = [task EXCEPT ![t] = Spawned(sig)] /\ n \notin claims
      /\ sig.amount > 0
  BY DEF Accept, Receives, TypeIs, At
<1>2. \A m : UNCHANGED <<Polled(m), inbox[m], wallet[m], row[m]>>
  BY <1>1 DEF Polled
<1>3. /\ n \in Mints /\ sig \in Sigs(n) /\ sig \in Signal
         /\ Sigs(n)' \subseteq Sigs(n)
      /\ Single(n) => Sigs(n)' = {} /\ Single(n)'
      /\ \A m : m # n => SameQueue(m)
  BY <1>1, QueueTail
<1>4. Idle(n)
  BY <1>1 DEF Idle, ClaimInv
<1>5. /\ Jobs(n) = {} /\ Jobs(n)' = {Spawned(sig)}
      /\ \A m : m # n => Jobs(m)' = Jobs(m)
  BY <1>1, <1>3, <1>4, JobStarts
<1>6. Elsewhere(n)
  BY <1>2, <1>3, <1>5 DEF Elsewhere, SameView
<1>7. InboxIs' /\ ~Polled(n) /\ ~Polled(n)'
  BY <1>1 DEF InboxIs, Polled
<1> QED
  BY <1>1, <1>2, <1>3, <1>5, <1>6, <1>7 DEF TakesOne, OthersStill

LEMMA UnsizedView ==
  ASSUME TypeIs, InboxIs, ClaimInv, AcceptUnsized,
         NEW sig, sig = Head(exitQ), NEW n, n = sig.mint
  PROVE  /\ TakesOne(n, sig) /\ sig.amount = 0 /\ Jobs(n) = {} /\ Jobs(n)' = {}
<1>1. /\ polling = None /\ exitQ # << >> /\ exitQ' = Tail(exitQ) /\ StateIs
      /\ UNCHANGED <<task, inbox, wallet, row>> /\ polling' = sig
      /\ n \notin claims /\ sig.amount = 0
  BY DEF AcceptUnsized, Receives, TypeIs
<1>2. \A m : UNCHANGED <<Jobs(m), inbox[m], wallet[m], row[m]>>
  BY <1>1 DEF Jobs, On, Working
<1>3. /\ n \in Mints /\ sig \in Sigs(n) /\ sig \in Signal
         /\ Sigs(n)' \subseteq Sigs(n)
      /\ Single(n) => Sigs(n)' = {} /\ Single(n)'
      /\ \A m : m # n => SameQueue(m)
  BY <1>1, QueueTail
<1>4. \A m : ~Polled(m) /\ (m # n => ~Polled(m)')
  BY <1>1 DEF Polled
<1>5. \A u \in Tasks : ~On(u, n)
  BY <1>1 DEF On, ClaimInv, TypeIs, TasksOK, TaskOK, Working
<1>6. Jobs(n) = {}
  BY <1>5 DEF Jobs
<1>7. Elsewhere(n)
  <2>1. \A m \in Mints \ {n} : Polled(m)' = Polled(m)
    BY <1>4 DEF Polled
  <2> QED
    BY <1>2, <1>3, <2>1 DEF Elsewhere, SameView
<1>8. InboxIs'
  BY <1>1 DEF InboxIs
<1> QED
  BY <1>1, <1>2, <1>3, <1>4, <1>6, <1>7, <1>8 DEF TakesOne, OthersStill

LEMMA ResolveView ==
  ASSUME TypeIs, InboxIs, ClaimInv, NEW t \in Tasks, PollResolves(t),
         NEW n, n = polling.mint
  PROVE  n \in Mints /\ Polled(n) /\ wallet[n] > 0 /\ Elsewhere(n) /\ InboxIs'
<1> DEFINE sig == [polling EXCEPT !.amount = wallet[polling.mint]]
<1>1. /\ polling # None /\ wallet[n] > 0 /\ UNCHANGED <<exitQ, inbox, wallet, row>>
      /\ polling' = None /\ task[t].pc = "free"
      /\ task' = [task EXCEPT ![t] = Spawned(sig)]
  BY DEF PollResolves, At
<1>2. polling \in Signal /\ n \in Mints
  BY <1>1 DEF TypeIs, StateIs, Signal
<1>3. wallet[n] \in 0 .. Lot
  BY <1>2 DEF TypeIs, StateIs
<1>4. sig \in Signal /\ sig.mint = n
  BY <1>2, <1>3 DEF Signal
<1>5. Idle(n)
  BY <1>1 DEF Idle, ClaimInv
<1> HIDE DEF sig
<1>6. PICK s \in Signal : s = sig
  BY <1>4
<1>7. \A m : m # n => Jobs(m)' = Jobs(m)
  BY <1>1, <1>4, <1>5, <1>6, JobStarts
<1>8. \A m \in Mints \ {n} : Polled(m)' = Polled(m)
  BY <1>1 DEF Polled
<1>9. Elsewhere(n)
  BY <1>1, <1>7, <1>8, QueueStill DEF Elsewhere, SameView
<1> QED
  BY <1>1, <1>2, <1>9 DEF Polled, InboxIs

LEMMA GivesUpView ==
  ASSUME TypeIs, InboxIs, PollGivesUp, NEW n, n = polling.mint
  PROVE  /\ n \in Mints /\ Polled(n) /\ ~Polled(n)' /\ Elsewhere(n) /\ InboxIs'
         /\ SameQueue(n) /\ UNCHANGED <<wallet[n], row[n], Jobs(n)>>
         /\ \E a \in Answer : ~a.ok /\ a.permanent
           /\ inbox'[n] = Append(inbox[n], a)
<1>1. /\ polling # None /\ polling' = None /\ UNCHANGED <<exitQ, task, wallet, row>>
  BY DEF PollGivesUp
<1>2. polling \in Signal /\ n \in Mints /\ polling.reason \in Reasons
  BY <1>1 DEF TypeIs, StateIs, Signal
<1> DEFINE a == [ok |-> FALSE, permanent |-> TRUE, reason |-> polling.reason]
<1>3. a \in Answer /\ ~a.ok /\ a.permanent
  BY <1>2 DEF Answer
<1>4. inbox' = [inbox EXCEPT ![n] = Append(@, a)]
  BY DEF PollGivesUp
<1> HIDE DEF a
<1>5. /\ InboxIs' /\ inbox'[n] = Append(inbox[n], a)
      /\ \A m \in Mints \ {n} : inbox'[m] = inbox[m]
  BY <1>2, <1>3, <1>4 DEF InboxIs
<1>6. \A m : UNCHANGED <<Jobs(m), wallet[m], row[m]>>
  BY <1>1 DEF Jobs, On, Working
<1>7. \A m \in Mints \ {n} : Polled(m)' = Polled(m)
  BY <1>1 DEF Polled
<1>8. Elsewhere(n)
  BY <1>1, <1>5, <1>6, <1>7, QueueStill DEF Elsewhere, SameView
<1> QED
  BY <1>1, <1>2, <1>3, <1>5, <1>6, <1>8, QueueStill DEF Polled

LEMMA LateView ==
  ASSUME TypeIs, InboxIs, NEW x \in late, LandsLate(x), NEW n, n = x.mint
  PROVE  /\ n \in Mints /\ Elsewhere(n) /\ InboxIs' /\ SameQueue(n)
         /\ UNCHANGED <<inbox[n], row[n], Jobs(n), Polled(n)>>
         /\ wallet'[n] \in 0 .. Lot /\ wallet'[n] <= wallet[n]
<1>1. /\ UNCHANGED <<exitQ, polling, task, inbox, row>>
      /\ IF x.tokens <= wallet[n] THEN Moved(n, x.tokens, x.price)
                                  ELSE UNCHANGED <<wallet, proceeds>>
  BY DEF LandsLate
<1>2. x \in LateType
  BY DEF TypeIs, StateIs
<1>3. n \in Mints /\ x.tokens \in Nat /\ wallet \in [Mints -> 0 .. Lot]
  BY <1>2, ExitAssumption DEF LateType, TypeIs, StateIs
<1>4. /\ wallet'[n] \in 0 .. Lot /\ wallet'[n] <= wallet[n]
      /\ \A m \in Mints \ {n} : wallet'[m] = wallet[m]
  BY <1>1, <1>3, ExitAssumption DEF Moved
<1>5. \A m : UNCHANGED <<Jobs(m), Polled(m), inbox[m], row[m]>>
  BY <1>1 DEF Jobs, On, Working, Polled
<1>6. Elsewhere(n)
  BY <1>1, <1>4, <1>5, QueueStill DEF Elsewhere, SameView
<1> QED
  BY <1>1, <1>3, <1>4, <1>5, <1>6, QueueStill DEF InboxIs

-----------------------------------------------------------------------------
(* The steps of a monitor. *)

LEMMA SendView ==
  ASSUME TypeIs, InboxIs, NEW sig \in Signal, SendSignal(sig), NEW n, n = sig.mint
  PROVE  /\ n \in Mints /\ Sigs(n)' = Sigs(n) \cup {sig}
    /\ (Sigs(n) = {} => Single(n)')
         /\ OthersStill(n) /\ UNCHANGED <<Jobs(n), Polled(n), late>>
         /\ Elsewhere(n) /\ InboxIs'
<1>1. /\ exitQ' = Append(exitQ, sig) /\ StateIs
      /\ UNCHANGED <<polling, task, inbox, wallet, row, late>>
  BY DEF SendSignal, TypeIs
<1>2. \A m : UNCHANGED <<Jobs(m), Polled(m), inbox[m], wallet[m], row[m]>>
  BY <1>1 DEF Jobs, On, Working, Polled
<1>3. /\ Sigs(n)' = Sigs(n) \cup {sig} /\ (Sigs(n) = {} => Single(n)')
      /\ \A m : m # n => SameQueue(m)
  BY <1>1, QueueAppend
<1>4. Elsewhere(n)
  BY <1>2, <1>3 DEF Elsewhere, SameView
<1> QED
  BY <1>1, <1>2, <1>3, <1>4 DEF OthersStill, InboxIs, Signal

LEMMA TakeView ==
  ASSUME TypeIs, InboxIs, NEW n \in Mints, inbox[n] # << >>, Take(n),
         UNCHANGED unheardVars
  PROVE  /\ inbox'[n] = Tail(inbox[n]) /\ inbox[n] \in Seq(Answer)
         /\ Head(inbox[n]) \in Answer
         /\ SameQueue(n) /\ UNCHANGED <<wallet[n], row[n], Jobs(n), Polled(n),
           late>>
         /\ Elsewhere(n) /\ InboxIs'
<1>1. /\ inbox' = [inbox EXCEPT ![n] = Tail(@)]
      /\ UNCHANGED <<exitQ, polling, task, wallet, row, late>>
  BY DEF Take, unheardVars
<1>2. inbox \in [Mints -> Seq(Answer)]
  BY DEF InboxIs
<1>3. Tail(inbox[n]) \in Seq(Answer) /\ Head(inbox[n]) \in Answer
  BY <1>2
<1>4. /\ inbox'[n] = Tail(inbox[n]) /\ InboxIs'
      /\ \A m \in Mints \ {n} : inbox'[m] = inbox[m]
  BY <1>1, <1>2, <1>3 DEF InboxIs
<1>5. \A m : UNCHANGED <<Jobs(m), Polled(m), wallet[m], row[m]>>
  BY <1>1 DEF Jobs, On, Working, Polled
<1>6. Elsewhere(n)
  BY <1>1, <1>4, <1>5, QueueStill DEF Elsewhere, SameView
<1> QED
  BY <1>1, <1>2, <1>3, <1>4, <1>5, <1>6, QueueStill

\* Nothing of the engine moves.
LEMMA IdleView ==
  ASSUME UNCHANGED exitVars, InboxIs
  PROVE  (\A n : SameView(n)) /\ InboxIs' /\ UNCHANGED late
<1>1. UNCHANGED <<exitQ, polling, task, inbox, wallet, row, late>>
  BY DEF exitVars
<1>2. \A m : UNCHANGED <<Jobs(m), Polled(m), inbox[m], wallet[m], row[m]>>
  BY <1>1 DEF Jobs, On, Working, Polled
<1> QED
  BY <1>1, <1>2, QueueStill DEF SameView, InboxIs

-----------------------------------------------------------------------------
(***************************************************************************)
(* Why the tally covers the wallet.  A sell that lands leaves at most the  *)
(* larger half, and only an answer to one that landed takes the tally      *)
(* down, by half.  So between the tally and the wallet there is a way down *)
(* (Covers): from what the monitor believes, a half for each answer in the *)
(* inbox that says sold, and one more for a sell that is not yet answered. *)
(***************************************************************************)

Half(x) == x - x \div 2

HasSold(k) ==
  \/ k.pc = "confirm" /\ k.tx = "landed"
  \/ k.pc \in {"settle", "write", "book"}
  \/ k.pc = "reply" /\ k.ok

Covers(q, top, w, sold) ==
  \E f \in [1 .. Len(q) + 1 -> 0 .. Lot] :
    /\ f[1] <= top
    /\ \A i \in 1 .. Len(q) : f[i + 1] <= IF q[i].ok THEN Half(f[i]) ELSE f[i]
    /\ \A i \in 1 .. Len(q) + 1 : w <= f[i]
    /\ sold => w <= Half(f[Len(q) + 1])

LEMMA HalfGrows ==
  ASSUME NEW x \in Nat, NEW y \in Nat, x <= y
  PROVE  Half(x) <= Half(y)
  BY DEF Half

LEMMA HalfType == \A x \in Nat : Half(x) \in Nat /\ Half(x) <= x
  BY DEF Half

LEMMA CoversFirst ==
  ASSUME NEW w \in 0 .. Lot, NEW sold, ~sold
  PROVE  Covers(<< >>, w, w, sold)
<1> DEFINE f == [i \in 1 .. 1 |-> w]
<1>1. f \in [1 .. 1 -> 0 .. Lot] /\ f[1] = w
  OBVIOUS
<1> HIDE DEF f
<1>2. Len(<< >>) = 0
  OBVIOUS
<1> QED
  BY <1>1, <1>2 DEF Covers

LEMMA CoversLess ==
  ASSUME NEW q \in Seq(Answer), NEW top, NEW w \in 0 .. Lot, NEW sold,
         Covers(q, top, w, sold), NEW v \in 0 .. Lot, v <= w,
         NEW now, now => sold
  PROVE  Covers(q, top, v, now)
<1>1. PICK f \in [1 .. Len(q) + 1 -> 0 .. Lot] :
    /\ f[1] <= top
    /\ \A i \in 1 .. Len(q) : f[i + 1] <= IF q[i].ok THEN Half(f[i]) ELSE f[i]
    /\ \A i \in 1 .. Len(q) + 1 : w <= f[i]
    /\ sold => w <= Half(f[Len(q) + 1])
  BY DEF Covers
<1>2. Len(q) \in Nat /\ Len(q) + 1 \in 1 .. Len(q) + 1
  OBVIOUS
<1>3. f[Len(q) + 1] \in Nat
  BY <1>2, ExitAssumption
<1>4. Half(f[Len(q) + 1]) \in Nat
  BY <1>3, HalfType
<1>5. now => v <= Half(f[Len(q) + 1])
  BY <1>1, <1>4, ExitAssumption
<1>6. \A i \in 1 .. Len(q) + 1 : v <= f[i]
  <2> TAKE i \in 1 .. Len(q) + 1
  <2>1. w <= f[i] /\ f[i] \in 0 .. Lot
    BY <1>1
  <2> QED
    BY <2>1, ExitAssumption
<1> QED
  BY <1>1, <1>5, <1>6 DEF Covers

LEMMA CoversSold ==
  ASSUME NEW q \in Seq(Answer), NEW top, NEW w \in 0 .. Lot, NEW sold,
         Covers(q, top, w, sold), NEW v \in 0 .. Lot, v <= Half(w)
  PROVE  Covers(q, top, v, TRUE)
<1>1. PICK f \in [1 .. Len(q) + 1 -> 0 .. Lot] :
    /\ f[1] <= top
    /\ \A i \in 1 .. Len(q) : f[i + 1] <= IF q[i].ok THEN Half(f[i]) ELSE f[i]
    /\ \A i \in 1 .. Len(q) + 1 : w <= f[i]
  BY DEF Covers
<1>2. Len(q) \in Nat /\ Len(q) + 1 \in 1 .. Len(q) + 1
  OBVIOUS
<1>3. f[Len(q) + 1] \in 0 .. Lot /\ w <= f[Len(q) + 1]
  BY <1>1, <1>2
<1>4. v <= Half(f[Len(q) + 1]) /\ v <= w
  <2> DEFINE x == f[Len(q) + 1]
  <2>1. x \in Nat /\ w \in Nat /\ w <= x
    BY <1>3, ExitAssumption
  <2> HIDE DEF x
  <2>2. Half(w) <= Half(x)
    BY <2>1, HalfGrows
  <2>3. Half(w) <= w /\ Half(w) \in Nat /\ Half(x) \in Nat
    BY <2>1, HalfType
  <2> QED
    BY <2>1, <2>2, <2>3, ExitAssumption DEF x
<1>6. \A i \in 1 .. Len(q) + 1 : v <= f[i]
  <2> TAKE i \in 1 .. Len(q) + 1
  <2>1. w <= f[i] /\ f[i] \in 0 .. Lot
    BY <1>1
  <2> QED
    BY <1>4, <2>1, ExitAssumption
<1> QED
  BY <1>1, <1>4, <1>6 DEF Covers

LEMMA CoversReplied ==
  ASSUME NEW q \in Seq(Answer), NEW top, NEW w \in 0 .. Lot, NEW sold,
         Covers(q, top, w, sold), NEW a \in Answer, a.ok => sold,
         NEW now, ~now
  PROVE  Covers(Append(q, a), top, w, now)
<1>1. PICK f \in [1 .. Len(q) + 1 -> 0 .. Lot] :
    /\ f[1] <= top
    /\ \A i \in 1 .. Len(q) : f[i + 1] <= IF q[i].ok THEN Half(f[i]) ELSE f[i]
    /\ \A i \in 1 .. Len(q) + 1 : w <= f[i]
    /\ sold => w <= Half(f[Len(q) + 1])
  BY DEF Covers
<1> DEFINE n == Len(q) + 1
           r == Append(q, a)
           x == f[n]
           y == IF a.ok THEN Half(x) ELSE x
           g == [i \in 1 .. n + 1 |-> IF i = n + 1 THEN y ELSE f[i]]
<1>2. n \in Nat \ {0} /\ n \in 1 .. n
  OBVIOUS
<1>3. Len(r) = n /\ r[n] = a /\ \A i \in 1 .. Len(q) : r[i] = q[i]
  OBVIOUS
<1>4. x \in 0 .. Lot /\ w <= x
  BY <1>1, <1>2
<1>5. y \in 0 .. Lot /\ w <= y
  <2>0. x \in Nat
    BY <1>4, ExitAssumption
  <2>1. Half(x) \in Nat /\ Half(x) <= x
    BY <2>0, HalfType
  <2>2. a.ok => w <= Half(x)
    BY <1>1
  <2> QED
    BY <1>4, <2>1, <2>2, ExitAssumption
<1>6. g \in [1 .. n + 1 -> 0 .. Lot]
  <2> HIDE DEF y, n
  <2> SUFFICES ASSUME NEW i \in 1 .. n + 1
    PROVE (IF i = n + 1 THEN y ELSE f[i]) \in 0 .. Lot
    OBVIOUS
  <2>1. CASE i = n + 1
    BY <1>5, <2>1
  <2>2. CASE i # n + 1
    <3>1. i \in 1 .. n
      BY <1>2, <2>2
    <3>2. f[i] \in 0 .. Lot
      BY <3>1 DEF n
    <3> QED
      BY <2>2, <3>2
  <2> QED
    BY <2>1, <2>2
<1>7. /\ g[n + 1] = y /\ \A i \in 1 .. n : g[i] = f[i]
  BY <1>2
<1>8. g[1] <= top /\ 1 \in 1 .. n
  BY <1>1, <1>2, <1>7
<1>9. ASSUME NEW i \in 1 .. n
      PROVE  g[i + 1] <= IF r[i].ok THEN Half(g[i]) ELSE g[i]
  <2>1. CASE i = n
    <3>1. g[i + 1] = y /\ r[i] = a /\ g[i] = x
      BY <1>2, <1>3, <1>7, <2>1
    <3> HIDE DEF g, r, n
    <3>2. y = IF r[i].ok THEN Half(g[i]) ELSE g[i]
      BY <3>1
    <3>3. y \in Int
      BY <1>5
    <3> HIDE DEF y
    <3> QED
      BY <3>1, <3>2, <3>3
  <2>2. CASE i # n
    <3>1. i \in 1 .. Len(q) /\ i + 1 \in 1 .. n
      BY <2>2
    <3>2. r[i] = q[i] /\ g[i] = f[i] /\ g[i + 1] = f[i + 1]
      BY <1>3, <1>7, <3>1
    <3> QED
      BY <1>1, <3>1, <3>2
  <2> QED
    BY <2>1, <2>2
<1>10. ASSUME NEW i \in 1 .. n + 1 PROVE w <= g[i]
  <2>1. CASE i = n + 1
    BY <1>5, <1>7, <2>1
  <2>2. CASE i # n + 1
    <3>1. i \in 1 .. n
      BY <1>2, <2>2
    <3> QED
      BY <1>1, <1>7, <3>1
  <2> QED
    BY <2>1, <2>2
<1> HIDE DEF g, r, n
<1>11. \E h \in [1 .. Len(r) + 1 -> 0 .. Lot] :
         /\ h[1] <= top
         /\ \A i \in 1 .. Len(r) : h[i + 1] <= IF r[i].ok THEN Half(h[i]) ELSE h[i]
         /\ \A i \in 1 .. Len(r) + 1 : w <= h[i]
  BY <1>3, <1>6, <1>8, <1>9, <1>10
<1> QED
  BY <1>11 DEF Covers, r

LEMMA CoversHeard ==
  ASSUME NEW q \in Seq(Answer), q # << >>, NEW top \in Nat, NEW w \in 0 .. Lot,
    NEW sold,
         Covers(q, top, w, sold), NEW new \in Nat,
         Head(q).ok => Half(top) <= new, ~Head(q).ok => top <= new
  PROVE  Covers(Tail(q), new, w, sold)
<1>1. PICK f \in [1 .. Len(q) + 1 -> 0 .. Lot] :
    /\ f[1] <= top
    /\ \A i \in 1 .. Len(q) : f[i + 1] <= IF q[i].ok THEN Half(f[i]) ELSE f[i]
    /\ \A i \in 1 .. Len(q) + 1 : w <= f[i]
    /\ sold => w <= Half(f[Len(q) + 1])
  BY DEF Covers
<1> DEFINE r == Tail(q)
           n == Len(q)
           g == [i \in 1 .. n |-> f[i + 1]]
<1>2. /\ n \in Nat \ {0} /\ Len(r) = n - 1 /\ Head(q) = q[1]
      /\ \A i \in 1 .. n - 1 : r[i] = q[i + 1]
  OBVIOUS
<1>3. \A i \in 1 .. n : i + 1 \in 1 .. n + 1
  BY <1>2
<1>4. g \in [1 .. n -> 0 .. Lot] /\ \A i \in 1 .. n : g[i] = f[i + 1]
  BY <1>3
<1>5. g[1] <= new
  <2>1. 1 \in 1 .. n /\ g[1] = f[2] /\ f[1] \in 0 .. Lot /\ f[2] \in 0 .. Lot
    BY <1>2, <1>4
  <2>2. f[2] <= IF q[1].ok THEN Half(f[1]) ELSE f[1]
    BY <1>1, <2>1
  <2>3. f[1] \in Nat /\ f[2] \in Nat /\ f[1] <= top
    BY <1>1, <2>1, ExitAssumption
  <2>4. Half(f[1]) <= Half(top)
    BY <2>3, HalfGrows
  <2>5. Half(top) \in Nat /\ Half(f[1]) \in Nat
    BY <2>3, HalfType
  <2> QED
    BY <1>2, <2>1, <2>2, <2>3, <2>4, <2>5
<1>6. ASSUME NEW i \in 1 .. n - 1
      PROVE  g[i + 1] <= IF r[i].ok THEN Half(g[i]) ELSE g[i]
  <2>1. i + 1 \in 1 .. n /\ i \in 1 .. n
    BY <1>2
  <2>2. g[i] = f[i + 1] /\ g[i + 1] = f[(i + 1) + 1] /\ r[i] = q[i + 1]
    BY <1>2, <1>4, <2>1
  <2> QED
    BY <1>1, <2>1, <2>2
<1>7. ASSUME NEW i \in 1 .. n PROVE w <= g[i]
  BY <1>1, <1>3, <1>4
<1>8. sold => w <= Half(g[n])
  BY <1>1, <1>2, <1>4
<1> HIDE DEF g
<1>9. Len(r) + 1 = n
  BY <1>2
<1> HIDE DEF r, n
<1> QED
  BY <1>2, <1>4, <1>5, <1>6, <1>7, <1>8, <1>9 DEF Covers, r

LEMMA CoversRest ==
  ASSUME NEW q \in Seq(Answer), NEW top \in Nat, NEW w \in 0 .. Lot, NEW sold,
         Covers(q, top, w, sold)
  PROVE  w <= top
<1>1. PICK f \in [1 .. Len(q) + 1 -> 0 .. Lot] :
         f[1] <= top /\ \A i \in 1 .. Len(q) + 1 : w <= f[i]
  BY DEF Covers
<1>2. 1 \in 1 .. Len(q) + 1
  OBVIOUS
<1> QED
  BY <1>1, <1>2, ExitAssumption

-----------------------------------------------------------------------------
(* The invariant: what covers the wallet of a position whose monitor is    *)
(* still at it, while no exit of it has been given up.                     *)

Live == {"watch", "wait", "due", "wait_due"}

\* What the monitor goes back to if the exit it waits for has not sold.
Believed(k) == IF k.pc = "wait" THEN k.asked ELSE k.tokens

\* The tally was taken down for the exit that is waited for.
Owing(k) == k.pc = "wait" => k.tokens = IF All(k.reason) THEN 0 ELSE Half(k.asked)

\* A task sells at least half of what is there.
TaskCovers(k, w) ==
  /\ k.pc = "balance" => w <= k.sig.amount
  /\ k.pc \in {"attempt", "confirm"} => w \div 2 <= k.sell
  /\ k.pc = "mark" => ~k.ok

AnySold(jobs) == \E k \in jobs : HasSold(k)

CoverOf(m) ==
  /\ Owing(mon[m])
  /\ Covers(inbox[m], Believed(mon[m]), wallet[m], AnySold(Jobs(m)))
  /\ \A s \in Sigs(m) : wallet[m] <= s.amount
  /\ Polled(m) => wallet[m] = 0
  /\ \A k \in Jobs(m) : TaskCovers(k, wallet[m])

CoverInv ==
  \A m \in Mints : m \notin givenUp /\ mon[m].pc \in Live => CoverOf(m)

\* Whatever a task does, the way down stays a way down.
LEMMA MoveCovers ==
  ASSUME "no_fill" \notin Faults,
         NEW k, NEW k2, TaskOK(k), k.sig \in Signal,
         NEW w \in 0 .. Lot, NEW w2 \in 0 .. Lot,
         NEW q \in Seq(Answer), NEW q2, NEW r, NEW r2, NEW top,
         Moves(k, k2, w, w2, q, q2, r, r2),
         Covers(q, top, w, HasSold(k)), TaskCovers(k, w)
  PROVE  w2 <= w /\ Covers(q2, top, w2, HasSold(k2)) /\ TaskCovers(k2, w2)
<1>t. k.sell \in Nat /\ k.sig.amount \in Nat /\ w \in Nat /\ w2 \in Nat
  BY ExitAssumption DEF TaskOK, TaskType, Signal
<1>s. ASSUME w2 = w, q2 = q, HasSold(k2) => HasSold(k)
      PROVE  w2 <= w /\ Covers(q2, top, w2, HasSold(k2))
  <2>1. Covers(q, top, w, HasSold(k2))
    BY <1>s, <1>t, CoversLess
  <2> QED
    BY <1>s, <1>t, <2>1
<1>1. CASE Sizes(k, k2, w) /\ w2 = w /\ q2 = q
  <2>1. k.pc = "balance" /\ k2.pc = "attempt" /\ w <= k.sig.amount
    BY <1>1 DEF Sizes, TaskCovers
  <2>2. ~HasSold(k2)
    BY <2>1 DEF HasSold
  <2>3. PICK seen \in Reads(w) :
          LET eff == IF seen > 0 /\ seen < k.sig.amount THEN seen ELSE k.sig.amount
          IN  k2.sell = IF k.sig.all THEN eff ELSE eff \div 2
    BY <1>1 DEF Sizes
  <2> DEFINE eff == IF seen > 0 /\ seen < k.sig.amount THEN seen ELSE k.sig.amount
  <2>4. k2.sell = IF k.sig.all THEN eff ELSE eff \div 2
    BY <2>3
  <2>5. seen = w \/ seen = 0
    BY DEF Reads
  <2>6. eff \in Nat /\ w <= eff
    BY <1>t, <2>1, <2>5
  <2> HIDE DEF eff
  <2>7. w \div 2 <= eff /\ w \div 2 <= eff \div 2
    BY <1>t, <2>6
  <2>8. w \div 2 <= k2.sell
    BY <2>4, <2>7
  <2> QED
    BY <1>1, <1>s, <2>1, <2>2, <2>8 DEF TaskCovers
<1>2. CASE GivesUp(k, k2, w) /\ w2 = w /\ q2 = q
  <2>1. (k2.pc = "reply" \/ k2.pc = "mark") /\ ~k2.ok
    BY <1>2 DEF GivesUp
  <2> QED
    BY <1>2, <1>s, <2>1 DEF TaskCovers, HasSold
<1>3. CASE Retries(k, k2) /\ w2 = w /\ q2 = q
  BY <1>3, <1>s DEF Retries, InVain, TaskCovers, HasSold
<1>4. CASE Submits(k, k2) /\ w2 = w /\ q2 = q
  BY <1>4, <1>s DEF Submits, TaskCovers, HasSold
<1>5. CASE Confirms(k, k2) /\ w2 = w /\ q2 = q
  BY <1>5, <1>s DEF Confirms, TaskCovers, HasSold
<1>6. CASE Settles(k, k2) /\ w2 = w /\ q2 = q
  BY <1>6, <1>s DEF Settles, TaskCovers, HasSold
<1>7. CASE Books(k, k2) /\ w2 = w /\ q2 = q
  BY <1>7, <1>s DEF Books, TaskCovers, HasSold
<1>8. CASE Sells(k, k2, w, w2) /\ q2 = q
  <2>1. k.sell <= w /\ w2 = w - k.sell /\ k2.sell = k.sell /\ k2.pc = "confirm"
        /\ k.pc = "confirm"
    BY <1>8 DEF Sells
  <2>2. w \div 2 <= k.sell
    BY <2>1 DEF TaskCovers
  <2>3. w2 <= w /\ w2 <= w - w \div 2 /\ w2 \div 2 <= k.sell
    BY <1>t, <2>1, <2>2
  <2>4. Covers(q, top, w2, TRUE)
    BY <2>3, CoversSold DEF Half
  <2>5. HasSold(k2)
    BY <1>8 DEF Sells, HasSold
  <2>6. Covers(q, top, w2, HasSold(k2))
    BY <2>4, <2>5, <1>t, CoversLess
  <2> QED
    BY <1>8, <2>1, <2>3, <2>6 DEF TaskCovers
<1>9. CASE Writes(k, k2) /\ w2 = w /\ q2 = q
  BY <1>9, <1>s DEF Writes, TaskCovers, HasSold
<1>10. CASE Marks(k, k2, r2) /\ w2 = w /\ q2 = q
  BY <1>10, <1>s DEF Marks, TaskCovers, HasSold
<1>11. CASE Replies(k, k2, q, q2) /\ w2 = w
  <2> DEFINE a == [ok |-> k.ok, permanent |-> k.permanent, reason |-> k.sig.reason]
  <2>1. k.pc = "reply" /\ k2.pc = "release" /\ q2 = Append(q, a)
    BY <1>11 DEF Replies
  <2>2. a \in Answer
    BY DEF Answer, TaskOK, TaskType, Signal
  <2>3. a.ok => HasSold(k)
    BY <2>1 DEF HasSold
  <2> HIDE DEF a
  <2>4. ~HasSold(k2)
    BY <2>1 DEF HasSold
  <2>5. Covers(Append(q, a), top, w, HasSold(k2))
    BY <2>2, <2>3, <2>4, CoversReplied
  <2>8. Covers(q2, top, w, HasSold(k2))
    BY <2>1, <2>5
  <2> QED
    BY <1>11, <1>t, <2>1, <2>8 DEF TaskCovers
<1> QED
  BY <1>1, <1>2, <1>3, <1>4, <1>5, <1>6, <1>7, <1>8, <1>9, <1>10, <1>11 DEF Moves

LEMMA SameCover ==
  ASSUME NEW m, SameView(m), UNCHANGED mon[m], CoverOf(m)
  PROVE  CoverOf(m)'
<1>1. UNCHANGED <<Sigs(m), inbox[m], wallet[m], Polled(m), Jobs(m), mon[m]>>
  BY DEF SameView, SameQueue
<1>2. \A s \in Sigs(m)' : wallet'[m] <= s.amount
  BY <1>1 DEF CoverOf
<1>3. AnySold(Jobs(m))' <=> AnySold(Jobs(m))
  BY <1>1 DEF AnySold
<1>4. Covers(inbox'[m], Believed(mon'[m]), wallet'[m], AnySold(Jobs(m))')
  BY <1>1 DEF CoverOf, AnySold
<1>5. \A k \in Jobs(m)' : TaskCovers(k, wallet'[m])
  BY <1>1 DEF CoverOf
<1>6. Polled(m)' => wallet'[m] = 0
  BY <1>1 DEF CoverOf
<1>7. Owing(mon[m])'
  BY <1>1 DEF CoverOf, Owing
<1> QED
  BY <1>2, <1>4, <1>5, <1>6, <1>7 DEF CoverOf, Believed, AnySold

LEMMA LocalCovers ==
  ASSUME "no_fill" \notin Faults, TypeIs, TypeIs', InboxIs, ClaimInv,
         NEW t \in Tasks, Local(t), NEW n, n = task[t].sig.mint,
         UNCHANGED mon[n], CoverOf(n)
  PROVE  CoverOf(n)'
<1> DEFINE k == task[t]
           k2 == task'[t]
<1>1. /\ n \in Mints /\ k.sig \in Signal /\ TaskOK(k)
      /\ Jobs(n) = {k} /\ Jobs(n)' = {k2} /\ ~Polled(n)'
      /\ MovesAt(t, n) /\ Sigs(n)' = Sigs(n)
  BY LocalView DEF SameQueue
<1>2. wallet[n] \in 0 .. Lot /\ wallet'[n] \in 0 .. Lot /\ inbox[n] \in Seq(Answer)
  BY <1>1 DEF TypeIs, StateIs, InboxIs
<1>3. Moves(k, k2, wallet[n], wallet'[n], inbox[n], inbox'[n], row[n], row'[n])
  BY <1>1 DEF MovesAt
<1> HIDE DEF k, k2
<1>4. AnySold(Jobs(n)) <=> HasSold(k)
  BY <1>1 DEF AnySold
<1>5. AnySold(Jobs(n))' <=> HasSold(k2)
  BY <1>1 DEF AnySold
<1>6. Covers(inbox[n], Believed(mon[n]), wallet[n], HasSold(k))
  BY <1>4, <1>2, CoversLess, ExitAssumption DEF CoverOf
<1>7. TaskCovers(k, wallet[n])
  BY <1>1 DEF CoverOf
<1>8. /\ wallet'[n] <= wallet[n] /\ TaskCovers(k2, wallet'[n])
      /\ Covers(inbox'[n], Believed(mon[n]), wallet'[n], HasSold(k2))
  BY <1>1, <1>2, <1>3, <1>6, <1>7, MoveCovers
<1>9. \A s \in Sigs(n)' : wallet'[n] <= s.amount
  <2> TAKE s \in Sigs(n)'
  <2>1. s \in Sigs(n) /\ s \in Signal
    BY <1>1, SigsAre
  <2>2. wallet[n] <= s.amount /\ s.amount \in 0 .. Lot
    BY <2>1 DEF CoverOf, Signal
  <2> QED
    BY <1>2, <1>8, <2>2, ExitAssumption
<1>10. inbox'[n] \in Seq(Answer)
  BY <1>1, LocalView DEF InboxIs
<1>11. Covers(inbox'[n], Believed(mon[n]), wallet'[n], AnySold(Jobs(n))')
  BY <1>2, <1>5, <1>8, <1>10, CoversLess, ExitAssumption
<1> QED
  BY <1>1, <1>8, <1>9, <1>11 DEF CoverOf, Owing, Believed

LEMMA LoopCovers ==
  ASSUME TypeIs, InboxIs, ClaimInv, Loop, UNCHANGED mon,
         NEW m \in Mints, CoverOf(m)
  PROVE  CoverOf(m)'
<1>a. ASSUME NEW n, Elsewhere(n), m # n PROVE CoverOf(m)'
  BY <1>a, SameCover DEF Elsewhere
<1>w. wallet[m] \in 0 .. Lot /\ inbox[m] \in Seq(Answer)
  BY DEF TypeIs, StateIs, InboxIs
<1>1. CASE DropDuplicate
  <2>1. PICK sig, n : sig = Head(exitQ) /\ n = sig.mint
    OBVIOUS
  <2>2. TakesOne(n, sig) /\ UNCHANGED Jobs(n) /\ ~Polled(n)'
    BY <1>1, <2>1, DropView
  <2>3. CASE m = n
    <3>1. /\ UNCHANGED <<inbox[m], wallet[m], Jobs(m)>>
             /\ Sigs(m)' \subseteq Sigs(m)
          /\ ~Polled(m)'
      BY <2>2, <2>3 DEF TakesOne, OthersStill
    <3> QED
      BY <3>1 DEF CoverOf, AnySold
  <2> QED
    BY <1>a, <2>2, <2>3 DEF TakesOne
<1>2. ASSUME NEW t \in Tasks, Accept(t) PROVE CoverOf(m)'
  <2>1. PICK sig, n : sig = Head(exitQ) /\ n = sig.mint
    OBVIOUS
  <2>2. /\ TakesOne(n, sig) /\ sig.amount > 0 /\ Jobs(n) = {}
        /\ Jobs(n)' = {Spawned(sig)} /\ ~Polled(n)'
    BY <1>2, <2>1, AcceptView
  <2>3. CASE m = n
    <3>1. /\ UNCHANGED <<inbox[m], wallet[m]>> /\ Sigs(m)' \subseteq Sigs(m)
          /\ ~Polled(m)' /\ Jobs(m)' = {Spawned(sig)} /\ wallet[m] <= sig.amount
      BY <2>2, <2>3 DEF TakesOne, OthersStill, CoverOf
    <3>2. Spawned(sig).pc = "balance" /\ Spawned(sig).sig = sig
      BY DEF Spawned, Free
    <3>3. ~AnySold(Jobs(m))' /\ TaskCovers(Spawned(sig), wallet[m])
      BY <3>1, <3>2 DEF AnySold, HasSold, TaskCovers
    <3>4. Covers(inbox[m], Believed(mon[m]), wallet[m], AnySold(Jobs(m))')
      BY <1>w, <3>3, CoversLess, ExitAssumption DEF CoverOf
    <3> QED
      BY <3>1, <3>3, <3>4 DEF CoverOf, Owing, Believed
  <2> QED
    BY <1>a, <2>2, <2>3 DEF TakesOne
<1>3. CASE AcceptUnsized
  <2>1. PICK sig, n : sig = Head(exitQ) /\ n = sig.mint
    OBVIOUS
  <2>2. TakesOne(n, sig) /\ sig.amount = 0 /\ Jobs(n) = {} /\ Jobs(n)' = {}
    BY <1>3, <2>1, UnsizedView
  <2>3. CASE m = n
    <3>1. /\ UNCHANGED <<inbox[m], wallet[m], Jobs(m)>>
             /\ Sigs(m)' \subseteq Sigs(m)
          /\ wallet[m] <= 0
      BY <2>2, <2>3 DEF TakesOne, OthersStill, CoverOf
    <3>2. wallet[m] = 0
      BY <1>w, <3>1, ExitAssumption
    <3> QED
      BY <3>1, <3>2 DEF CoverOf, AnySold
  <2> QED
    BY <1>a, <2>2, <2>3 DEF TakesOne
<1>4. ASSUME NEW t \in Tasks, PollResolves(t) PROVE CoverOf(m)'
  <2>1. PICK n : n = polling.mint
    OBVIOUS
  <2>2. Polled(n) /\ wallet[n] > 0 /\ Elsewhere(n)
    BY <1>4, <2>1, ResolveView
  <2>3. m # n
    BY <2>2 DEF CoverOf
  <2> QED
    BY <1>a, <2>2, <2>3
<1>5. CASE PollGivesUp
  <2>1. PICK n : n = polling.mint
    OBVIOUS
  <2>2. /\ Elsewhere(n) /\ ~Polled(n)' /\ SameQueue(n)
           /\ UNCHANGED <<wallet[n], Jobs(n)>>
        /\ \E a \in Answer : ~a.ok /\ inbox'[n] = Append(inbox[n], a)
    BY <1>5, <2>1, GivesUpView
  <2>3. CASE m = n
    <3>1. PICK a \in Answer : ~a.ok /\ inbox'[m] = Append(inbox[m], a)
      BY <2>2, <2>3
    <3>2. /\ UNCHANGED <<wallet[m], Jobs(m), Sigs(m)>> /\ ~Polled(m)' /\ Polled(m)
      BY <1>5, <2>1, <2>2, <2>3 DEF SameQueue, Polled, PollGivesUp
    <3>3. ~AnySold(Jobs(m))
      <4>1. \A u \in Tasks : ~On(u, m)
        BY <3>2 DEF Polled, ClaimInv, On, TypeIs, TasksOK, TaskOK, Working
      <4> QED
        BY <4>1 DEF Jobs, AnySold
    <3>4. Covers(Append(inbox[m], a), Believed(mon[m]), wallet[m], AnySold(Jobs(m)))
      BY <1>w, <3>1, <3>3, CoversReplied DEF CoverOf
    <3> QED
      BY <3>1, <3>2, <3>4 DEF CoverOf, Owing, Believed, AnySold
  <2> QED
    BY <1>a, <2>2, <2>3
<1> QED
  BY <1>1, <1>2, <1>3, <1>4, <1>5 DEF Loop

LEMMA EngineCovers ==
  ASSUME "no_fill" \notin Faults, TypeIs, TypeIs', InboxIs, ClaimInv, Engine,
         UNCHANGED mon, NEW m \in Mints, CoverOf(m)
  PROVE  CoverOf(m)'
<1>a. ASSUME NEW n, Elsewhere(n), m # n PROVE CoverOf(m)'
  BY <1>a, SameCover DEF Elsewhere
<1>w. wallet[m] \in 0 .. Lot /\ inbox[m] \in Seq(Answer)
  BY DEF TypeIs, StateIs, InboxIs
<1>1. CASE Loop
  BY <1>1, LoopCovers
<1>2. ASSUME NEW t \in Tasks, Local(t) PROVE CoverOf(m)'
  <2>1. PICK n : n = task[t].sig.mint
    OBVIOUS
  <2>2. CASE m = n
    BY <1>2, <2>1, <2>2, LocalCovers
  <2>3. CASE m # n
    BY <1>2, <1>a, <2>1, <2>3, LocalView
  <2> QED
    BY <2>2, <2>3
<1>3. ASSUME NEW t \in Tasks, Release(t) PROVE CoverOf(m)'
  <2>1. PICK n : n = task[t].sig.mint
    OBVIOUS
  <2>2. CASE m = n
    <3>1. /\ Jobs(m)' = {} /\ ~Polled(m) /\ Sigs(m)' = Sigs(m)
          /\ UNCHANGED <<polling, inbox, wallet>>
      BY <1>3, <2>1, <2>2, JobEnds DEF SameQueue
    <3>2. ~AnySold(Jobs(m)')
      BY <3>1 DEF AnySold
    <3>3. Covers(inbox[m], Believed(mon[m]), wallet[m], AnySold(Jobs(m)'))
      BY <1>w, <3>2, CoversLess, ExitAssumption DEF CoverOf
    <3> QED
      BY <3>1, <3>3 DEF CoverOf, Owing, Believed, Polled, AnySold
  <2>3. CASE m # n
    BY <1>3, <1>a, <2>1, <2>3, JobEnds
  <2> QED
    BY <2>2, <2>3
<1>4. ASSUME NEW x \in late, LandsLate(x) PROVE CoverOf(m)'
  <2>1. PICK n : n = x.mint
    OBVIOUS
  <2>2. CASE m = n
    <3>1. /\ UNCHANGED <<inbox[m], Jobs(m), Polled(m)>> /\ Sigs(m)' = Sigs(m)
          /\ wallet'[m] \in 0 .. Lot /\ wallet'[m] <= wallet[m]
      BY <1>4, <2>1, <2>2, LateView DEF SameQueue
    <3>2. Covers(inbox[m], Believed(mon[m]), wallet'[m], AnySold(Jobs(m)))
      BY <1>w, <3>1, CoversLess DEF CoverOf
    <3>3. \A s \in Sigs(m)' : wallet'[m] <= s.amount
      <4> TAKE s \in Sigs(m)'
      <4>1. s \in Sigs(m) /\ s \in Signal
        BY <3>1, SigsAre
      <4>2. wallet[m] <= s.amount /\ s.amount \in 0 .. Lot
        BY <4>1 DEF CoverOf, Signal
      <4> QED
        BY <1>w, <3>1, <4>2, ExitAssumption
    <3>4. \A k \in Jobs(m)' : TaskCovers(k, wallet'[m])
      <4> TAKE k \in Jobs(m)'
      <4>1. k \in Jobs(m) /\ TaskCovers(k, wallet[m])
        BY <3>1 DEF CoverOf
      <4>2. k.sell \in Nat
        BY <4>1, ExitAssumption DEF Jobs, TypeIs, TasksOK, TaskType
      <4>3. k.pc = "balance" => k.sig.amount \in Nat
        BY <4>1, ExitAssumption, SignalOf DEF Jobs, TypeIs, Working, Signal
      <4>4. wallet[m] \in Nat /\ wallet'[m] \in Nat /\ wallet'[m] <= wallet[m]
        BY <1>w, <3>1, ExitAssumption
      <4>5. wallet'[m] \div 2 <= wallet[m] \div 2
        BY <4>4
      <4> QED
        BY <4>1, <4>2, <4>3, <4>4, <4>5 DEF TaskCovers
    <3>5. Polled(m)' => wallet'[m] = 0
      BY <1>w, <3>1, ExitAssumption DEF CoverOf
    <3> QED
      BY <3>1, <3>2, <3>3, <3>4, <3>5 DEF CoverOf, Owing, Believed, AnySold
  <2>3. CASE m # n
    BY <1>4, <1>a, <2>1, <2>3, LateView
  <2> QED
    BY <2>2, <2>3
<1> QED
  BY <1>1, <1>2, <1>3, <1>4 DEF Engine, TaskStep, Chain, Local

LEMMA EngineInbox ==
  ASSUME TypeIs, InboxIs, ClaimInv, Engine
  PROVE  InboxIs'
<1>1. CASE Loop
  <2>1. ASSUME UNCHANGED inbox PROVE InboxIs'
    BY <2>1 DEF InboxIs
  <2>2. CASE PollGivesUp
    BY <2>2, GivesUpView
  <2> QED
    BY <1>1, <2>1, <2>2 DEF Loop, DropDuplicate, AcceptUnsized, Accept, PollResolves
<1>2. ASSUME NEW t \in Tasks, Local(t) PROVE InboxIs'
  BY <1>2, LocalMoves
<1>3. ASSUME NEW t \in Tasks, Release(t) PROVE InboxIs'
  BY <1>3 DEF InboxIs, Release
<1>4. ASSUME NEW x \in late, LandsLate(x) PROVE InboxIs'
  BY <1>4 DEF InboxIs, LandsLate
<1> QED
  BY <1>1, <1>2, <1>3, <1>4 DEF Engine, TaskStep, Chain, Local

-----------------------------------------------------------------------------
(* The monitors' steps. *)

LEMMA TypeOfMon ==
  ASSUME MonIs, NEW m \in Mints
  PROVE  /\ mon[m] \in MonType /\ mon \in [Mints -> MonType]
         /\ mon[m].tokens \in Nat /\ mon[m].asked \in Nat
           /\ Believed(mon[m]) \in Nat
  BY ExitAssumption DEF MonIs, MonType, Believed

LEMMA RestCovered ==
  ASSUME TypeIs, InboxIs, MonIs, NEW m \in Mints, CoverOf(m)
  PROVE  wallet[m] <= Believed(mon[m])
<1>1. wallet[m] \in 0 .. Lot /\ inbox[m] \in Seq(Answer)
  BY DEF TypeIs, StateIs, InboxIs
<1> QED
  BY <1>1, TypeOfMon, CoversRest DEF CoverOf

\* A signal for at least what is there.
LEMMA SendCovers ==
  ASSUME TypeIs, InboxIs, NEW sig \in Signal, SendSignal(sig), NEW n, n = sig.mint,
         CoverOf(n), wallet[n] <= sig.amount, Believed(mon'[n]) = Believed(mon[n]),
         Owing(mon'[n])
  PROVE  CoverOf(n)'
<1>1. /\ Sigs(n)' = Sigs(n) \cup {sig}
         /\ UNCHANGED <<Jobs(n), Polled(n), inbox[n], wallet[n]>>
  BY SendView DEF OthersStill
<1>2. \A s \in Sigs(n)' : wallet'[n] <= s.amount
  BY <1>1 DEF CoverOf
<1> QED
  BY <1>1, <1>2 DEF CoverOf, AnySold, Owing, Believed

\* An answer that the monitor takes for what it says.
LEMMA TakeCovers ==
  ASSUME TypeIs, InboxIs, MonIs, MonIs', NEW n \in Mints, inbox[n] # << >>, Take(n),
         UNCHANGED unheardVars, CoverOf(n), Owing(mon'[n]),
         Head(inbox[n]).ok => Half(Believed(mon[n])) <= Believed(mon'[n]),
         ~Head(inbox[n]).ok => Believed(mon[n]) <= Believed(mon'[n])
  PROVE  CoverOf(n)'
<1> DEFINE q == inbox[n]
           top == Believed(mon[n])
           new == Believed(mon'[n])
<1>1. /\ inbox'[n] = Tail(q) /\ q \in Seq(Answer) /\ Sigs(n)' = Sigs(n)
      /\ UNCHANGED <<wallet[n], Jobs(n), Polled(n)>>
  BY TakeView DEF SameQueue
<1>2. top \in Nat /\ new \in Nat /\ wallet[n] \in 0 .. Lot
  BY TypeOfMon, ExitAssumption DEF TypeIs, StateIs, MonIs, MonType, Believed
<1>3. Covers(q, top, wallet[n], AnySold(Jobs(n)))
  BY DEF CoverOf
<1>4. (Head(q).ok => Half(top) <= new) /\ (~Head(q).ok => top <= new)
  OBVIOUS
<1> HIDE DEF top, new
<1>5. Covers(Tail(q), new, wallet[n], AnySold(Jobs(n)))
  BY <1>1, <1>2, <1>3, <1>4, CoversHeard
<1>6. Covers(inbox'[n], new, wallet'[n], AnySold(Jobs(n))')
  BY <1>1, <1>5 DEF AnySold
<1> QED
  BY <1>1, <1>6 DEF CoverOf, AnySold, Owing, Believed, new

\* A step of one monitor: every other position looks as it did.
OneMonitor(n) ==
  /\ \A m \in Mints \ {n} : UNCHANGED mon[m] /\ (m \in givenUp => m \in givenUp')
  /\ Elsewhere(n) /\ InboxIs'

LEMMA MonitorView ==
  ASSUME TypeIs, InboxIs, MonIs, NEW n \in Mints, Monitor(n) \/ Watcher(n)
  PROVE  OneMonitor(n)
<1>t. mon[n] \in MonType /\ mon \in [Mints -> MonType]
  BY TypeOfMon
<1>c. mon[n].cost \in Nat \cup {NaN} /\ Cost \in Nat \cup {NaN}
      /\ "Protective" \in Reasons
  BY <1>t, ExitAssumption DEF MonType, Reasons
<1>s. ASSUME NEW reason \in Reasons, NEW cost \in Nat \cup {NaN},
             SendSignal(ExitSignal(n, reason, cost))
      PROVE  Elsewhere(n) /\ InboxIs'
  <2>1. ExitSignal(n, reason, cost) \in Signal
        /\ ExitSignal(n, reason, cost).mint = n
    BY SignalType DEF ExitSignal
  <2> QED
    BY <1>s, <2>1, SendView
<1>i. ASSUME UNCHANGED exitVars PROVE Elsewhere(n) /\ InboxIs'
  BY <1>i, IdleView DEF Elsewhere
<1>1. ASSUME NEW reason \in Reasons, Trigger(n, reason) PROVE OneMonitor(n)
  <2>1. Elsewhere(n) /\ InboxIs' /\ UNCHANGED givenUp
    BY <1>1, <1>c, <1>s DEF Trigger
  <2>2. \A m \in Mints \ {n} : mon'[m] = mon[m]
    BY <1>1, <1>t DEF Trigger
  <2> QED
    BY <2>1, <2>2 DEF OneMonitor
<1>2. CASE TimeStop(n)
  BY <1>2, <1>c, <1>s DEF TimeStop, OneMonitor
<1>3. CASE Hear(n)
  <2>1. Elsewhere(n) /\ InboxIs'
    BY <1>3, TakeView DEF Hear
  <2> QED
    BY <1>3, <1>t, <2>1 DEF Hear, OneMonitor
<1>4. CASE HearDue(n)
  <2>1. Elsewhere(n) /\ InboxIs'
    BY <1>4, TakeView DEF HearDue
  <2> QED
    BY <1>4, <1>t, <2>1 DEF HearDue, OneMonitor
<1>5. CASE WaitTimesOut(n)
  BY <1>5, <1>t, <1>i DEF WaitTimesOut, vars, OneMonitor
<1>6. CASE Fire(n)
  BY <1>6, <1>c, <1>s DEF Fire, OneMonitor
<1>7. CASE Promote(n)
  BY <1>7, <1>t, <1>i DEF Promote, OneMonitor
<1>8. ASSUME NEW d \in Devs, DevDumps(n, d) PROVE OneMonitor(n)
  BY <1>8, <1>t, <1>i DEF DevDumps, OneMonitor
<1>9. CASE Watcher(n)
  <2> DEFINE sig == [mint |-> n, amount |-> Lot, all |-> TRUE,
                     reason |-> "Protective", cost |-> Cost]
  <2>1. sig \in Signal /\ sig.mint = n /\ SendSignal(sig)
    BY <1>9, <1>c, ExitAssumption DEF Signal, Watcher
  <2> HIDE DEF sig
  <2>2. Elsewhere(n) /\ InboxIs'
    BY <2>1, SendView
  <2> QED
    BY <1>9, <2>2 DEF Watcher, OneMonitor
<1> QED
  BY <1>1, <1>2, <1>3, <1>4, <1>5, <1>6, <1>7, <1>8, <1>9 DEF Monitor

\* The tally after an exit was sent for it.
LEMMA ReducedOwes ==
  ASSUME NEW x \in Nat, NEW reason, All(reason) \/ x % 2 = 0
  PROVE  Reduced(x, reason) = IF All(reason) THEN 0 ELSE Half(x)
<1>1. x # NaN
  BY TSAssumption
<1>2. CASE All(reason)
  BY <1>1, <1>2 DEF Reduced
<1>3. CASE ~All(reason)
  <2>1. x % 2 = 0
    BY <1>3
  <2>2. x \div 2 = x - x \div 2
    BY <2>1
  <2> QED
    BY <1>1, <1>3, <2>2 DEF Reduced, Half
<1> QED
  BY <1>2, <1>3

LEMMA TriggerSends ==
  ASSUME MonIs, NEW n \in Mints, NEW reason \in Reasons, Trigger(n, reason)
  PROVE  /\ mon'[n].pc = "wait" /\ mon'[n].asked = mon[n].tokens
         /\ mon'[n].reason = reason
         /\ mon'[n].tokens = IF All(reason) THEN 0 ELSE Half(mon[n].tokens)
         /\ ~All(reason) => mon[n].tokens % 2 = 0
<1>1. mon[n] \in MonType /\ mon \in [Mints -> MonType] /\ mon[n].tokens \in Nat
  BY TypeOfMon
<1> DEFINE flags == mon[n].flags \cup ({reason} \ {"TakeProfit3", "Protective"})
           tokens == Reduced(mon[n].tokens, reason)
           cost == Reduced(mon[n].cost, reason)
           k == [mon[n] EXCEPT !.pc = "wait", !.flags = flags,
                               !.tokens = tokens, !.cost = cost,
                               !.asked = mon[n].tokens, !.reason = reason]
<1>2. mon' = [mon EXCEPT ![n] = k]
  BY <1>1 DEF Trigger
<1> HIDE DEF flags, cost
<1>3. k.pc = "wait" /\ k.asked = mon[n].tokens /\ k.reason = reason
      /\ k.tokens = tokens
  BY <1>1 DEF MonType
<1>4. mon'[n] = k
  BY <1>1, <1>2
<1>5. All(reason) \/ mon[n].tokens % 2 = 0
  BY DEF Trigger, Divisible
<1>6. tokens = IF All(reason) THEN 0 ELSE Half(mon[n].tokens)
  BY <1>1, <1>5, ReducedOwes
<1> HIDE DEF k, tokens
<1> QED
  BY <1>3, <1>4, <1>5, <1>6

\* What a monitor makes of an answer.
LEMMA AfterBelieves ==
  ASSUME NEW k \in MonType, k.pc = "wait", NEW r
  PROVE  LET next == After(k, r) IN
         /\ next.pc \in {"watch", "stopped"}
         /\ r.ok => next.tokens = k.tokens
         /\ ~r.ok /\ ~r.permanent /\ ~(k.failures + 1 >= MaxFailures) =>
              next.pc = "watch" /\ next.tokens = k.asked
         /\ r.ok /\ All(k.reason) /\ k.tokens = 0 => next.pc = "stopped"
         /\ r.ok /\ ~All(k.reason) => next.pc = "watch"
         /\ next.pc = "stopped"
           => r.ok \/ r.permanent \/ k.failures + 1 >= MaxFailures
         /\ next.pc = "stopped" /\ r.ok => All(k.reason) /\ k.tokens = 0
<1> DEFINE next == After(k, r)
           a == [k EXCEPT !.failures = 0]
           b == [k EXCEPT !.failures = MaxFailures]
           c == [k EXCEPT !.failures = k.failures + 1]
<1>1. a.tokens = k.tokens /\ b.tokens = k.tokens /\ c.asked = k.asked
  BY DEF MonType
<1>c. ASSUME NEW j \in {a, b, c, k}, NEW done
      PROVE  /\ done /\ j.tokens = 0 => Concluded(j, done).pc = "stopped"
             /\ ~(done /\ j.tokens = 0) => Concluded(j, done).pc = "watch"
             /\ Concluded(j, done).tokens = j.tokens
  BY DEF Concluded, Stopped, MonType
<1>p. PutBack(c, r.reason).pc = "watch" /\ PutBack(c, r.reason).tokens = k.asked
  BY DEF PutBack, MonType
<1>3. CASE r.ok
  <2>1. next = Concluded(a, All(k.reason))
    BY <1>3 DEF After
  <2> HIDE DEF next, a, b, c
  <2> QED
    BY <1>1, <1>3, <1>c, <2>1 DEF next
<1>4. CASE ~r.ok /\ r.permanent
  <2>1. next = Concluded(k, TRUE)
    BY <1>4 DEF After
  <2> HIDE DEF next, a, b, c
  <2> QED
    BY <1>1, <1>4, <1>c, <2>1 DEF next
<1>5. CASE ~r.ok /\ ~r.permanent /\ k.failures + 1 >= MaxFailures
  <2>1. next = Concluded(b, TRUE)
    BY <1>5 DEF After
  <2> HIDE DEF next, a, b, c
  <2> QED
    BY <1>1, <1>5, <1>c, <2>1 DEF next
<1>6. CASE ~r.ok /\ ~r.permanent /\ ~(k.failures + 1 >= MaxFailures)
  <2>1. next = PutBack(c, r.reason)
    BY <1>6 DEF After
  <2> HIDE DEF next, a, b, c
  <2> QED
    BY <1>6, <1>p, <2>1 DEF next
<1> QED
  BY <1>3, <1>4, <1>5, <1>6

LEMMA OwnMonitorCovers ==
  ASSUME TypeIs, MonIs, MonIs', InboxIs, NEW n \in Mints, Monitor(n) \/ Watcher(n),
         n \notin givenUp', mon'[n].pc \in Live, n \notin givenUp
           /\ mon[n].pc \in Live => CoverOf(n)
  PROVE  CoverOf(n)'
<1>t. mon[n] \in MonType /\ mon \in [Mints -> MonType] /\ mon[n].tokens \in Nat
  BY TypeOfMon
<1>c. mon[n].cost \in Nat \cup {NaN} /\ Cost \in Nat \cup {NaN}
      /\ "Protective" \in Reasons
  BY <1>t, ExitAssumption DEF MonType, Reasons
<1>m. ASSUME NEW k, mon' = [mon EXCEPT ![n] = k] PROVE mon'[n] = k
  BY <1>m, <1>t
<1>1. ASSUME NEW reason \in Reasons, Trigger(n, reason) PROVE CoverOf(n)'
  <2>1. CoverOf(n) /\ mon[n].pc = "watch"
    BY <1>1 DEF Trigger, Live
  <2>2. SendSignal(ExitSignal(n, reason, Cost))
    BY <1>1 DEF Trigger
  <2>3. /\ ExitSignal(n, reason, Cost) \in Signal
           /\ ExitSignal(n, reason, Cost).mint = n
        /\ ExitSignal(n, reason, Cost).amount = mon[n].tokens
    BY <1>c, SignalType DEF ExitSignal
  <2>4. wallet[n] <= mon[n].tokens
    BY <2>1, RestCovered DEF Believed
  <2>5. Owing(mon'[n]) /\ Believed(mon'[n]) = Believed(mon[n])
    BY <1>1, <2>1, TriggerSends DEF Owing, Believed
  <2> QED
    BY <2>1, <2>2, <2>3, <2>4, <2>5, SendCovers
<1>2. CASE TimeStop(n)
  <2>1. CoverOf(n) /\ mon[n].pc \in {"watch", "due"}
        /\ mon' = [mon EXCEPT ![n].pc = "wait_due"]
    BY <1>2 DEF TimeStop, Live
  <2>2. SendSignal(ExitSignal(n, "Protective", mon[n].cost))
    BY <1>2 DEF TimeStop
  <2>3. /\ ExitSignal(n, "Protective", mon[n].cost) \in Signal
        /\ ExitSignal(n, "Protective", mon[n].cost).mint = n
        /\ ExitSignal(n, "Protective", mon[n].cost).amount = mon[n].tokens
    BY <1>c, SignalType DEF ExitSignal
  <2>4. wallet[n] <= mon[n].tokens
    BY <2>1, RestCovered DEF Believed
  <2>5. mon'[n].pc = "wait_due" /\ mon'[n].tokens = mon[n].tokens
    BY <1>t, <2>1 DEF MonType
  <2>6. Owing(mon'[n]) /\ Believed(mon'[n]) = Believed(mon[n])
    BY <2>1, <2>5 DEF Owing, Believed
  <2> QED
    BY <2>1, <2>2, <2>3, <2>4, <2>6, SendCovers
<1>3. CASE Hear(n)
  <2> DEFINE k == mon[n]
             r == Head(inbox[n])
             next == After(k, r)
  <2>1. /\ k.pc = "wait" /\ inbox[n] # << >> /\ Take(n) /\ UNCHANGED unheardVars
        /\ \/ mon' = [mon EXCEPT ![n] = next]
           \/ mon' = [mon EXCEPT ![n] = [next EXCEPT !.pc = "promoted"]]
        /\ givenUp' = IF ~r.ok /\ (r.permanent \/ k.failures + 1 >= MaxFailures)
                      THEN givenUp \cup {n} ELSE givenUp
    BY <1>3 DEF Hear
  <2>2. n \notin givenUp
        /\ (r.ok \/ ~(r.permanent \/ k.failures + 1 >= MaxFailures))
    BY <2>1
  <2>3. CoverOf(n) /\ Owing(k)
    BY <2>1, <2>2 DEF Live, CoverOf
  <2>4. next \in MonType
    BY <1>t, AfterType
  <2>5. mon'[n] = next
    <3>1. ASSUME mon' = [mon EXCEPT ![n] = [next EXCEPT !.pc = "promoted"]]
          PROVE FALSE
      <4>1. mon'[n] = [next EXCEPT !.pc = "promoted"]
        BY <1>m, <3>1
      <4>2. mon'[n].pc = "promoted"
        BY <2>4, <4>1 DEF MonType
      <4> QED
        BY <4>2 DEF Live
    <3>2. mon' = [mon EXCEPT ![n] = next]
      BY <2>1, <3>1
    <3> QED
      BY <1>m, <3>2
  <2>6. /\ r.ok => next.tokens = k.tokens
        /\ ~r.ok => next.pc = "watch" /\ next.tokens = k.asked
        /\ r.ok => ~All(k.reason) \/ k.tokens # 0
    BY <1>t, <2>1, <2>2, <2>5, AfterBelieves DEF Live
  <2>7. next.pc = "watch"
    BY <1>t, <2>1, <2>5, AfterBelieves DEF Live
  <2>8. Believed(k) = k.asked /\ Believed(next) = next.tokens /\ Owing(next)
    BY <2>1, <2>7 DEF Believed, Owing
  <2>9. r.ok => Half(Believed(k)) <= Believed(next)
    <3>1. r.ok => next.tokens = Half(k.asked)
      BY <2>1, <2>3, <2>6 DEF Owing
    <3>2. Half(k.asked) \in Nat
      BY TypeOfMon, HalfType
    <3> QED
      BY <2>8, <3>1, <3>2
  <2>10. ~r.ok => Believed(k) <= Believed(next)
    <3>1. k.asked \in Nat
      BY TypeOfMon
    <3> QED
      BY <2>6, <2>8, <3>1
  <2> HIDE DEF next
  <2> QED
    BY <2>1, <2>3, <2>5, <2>8, <2>9, <2>10, TakeCovers
<1>4. CASE HearDue(n)
  <2> DEFINE r == Head(inbox[n])
  <2>1. /\ mon[n].pc = "wait_due" /\ inbox[n] # << >> /\ Take(n)
           /\ UNCHANGED unheardVars
        /\ mon' = [mon EXCEPT ![n] = IF r.ok \/ r.permanent
                                     THEN Stopped(@) ELSE [@ EXCEPT !.pc = "due"]]
        /\ CoverOf(n)
    BY <1>4 DEF HearDue, Live, unheardVars
  <2>2. mon'[n] = IF r.ok \/ r.permanent THEN Stopped(mon[n])
        ELSE [mon[n] EXCEPT !.pc = "due"]
    BY <1>t, <2>1
  <2>3. ~r.ok /\ mon'[n] = [mon[n] EXCEPT !.pc = "due"]
    <3>1. Stopped(mon[n]).pc = "stopped"
      BY <1>t DEF Stopped, MonType
    <3> QED
      BY <2>2, <3>1 DEF Live
  <2>4. mon'[n].pc = "due" /\ mon'[n].tokens = mon[n].tokens
    BY <1>t, <2>3 DEF MonType
  <2>5. Owing(mon'[n]) /\ Believed(mon'[n]) = mon[n].tokens
        /\ Believed(mon[n]) = mon[n].tokens
    BY <2>1, <2>4 DEF Owing, Believed
  <2>6. Believed(mon[n]) <= Believed(mon'[n])
    BY <1>t, <2>5
  <2> QED
    BY <2>1, <2>3, <2>5, <2>6, TakeCovers
<1>5. CASE WaitTimesOut(n)
  <2>1. SameView(n) /\ n \notin givenUp
    BY <1>5, IdleView DEF WaitTimesOut, vars
  <2>2. CoverOf(n) /\ Believed(mon'[n]) = Believed(mon[n]) /\ Owing(mon'[n])
    <3>1. CASE mon[n].pc = "wait" /\ mon' = [mon EXCEPT ![n] = PutBack(@, @.reason)]
      <4>1. mon'[n] = PutBack(mon[n], mon[n].reason)
        BY <1>t, <3>1
      <4>2. mon'[n].pc = "watch" /\ mon'[n].tokens = mon[n].asked
        BY <1>t, <4>1 DEF PutBack, MonType
      <4> QED
        BY <2>1, <3>1, <4>2 DEF Owing, Believed, Live
    <3>2. CASE mon[n].pc = "wait_due" /\ mon' = [mon EXCEPT ![n].pc = "due"]
      <4>1. mon'[n].pc = "due" /\ mon'[n].tokens = mon[n].tokens
        BY <1>t, <3>2 DEF MonType
      <4> QED
        BY <2>1, <3>2, <4>1 DEF Owing, Believed, Live
    <3> QED
      BY <1>5, <3>1, <3>2 DEF WaitTimesOut
  <2>3. UNCHANGED <<Sigs(n), inbox[n], wallet[n], Polled(n), Jobs(n)>>
    BY <2>1 DEF SameView, SameQueue
  <2> QED
    BY <2>2, <2>3 DEF CoverOf, AnySold, Owing, Believed
<1>6. ASSUME Fire(n) \/ Promote(n) \/ \E d \in Devs : DevDumps(n, d) PROVE FALSE
  <2>1. PICK pc \in {"fired", "promoted",
        "dumped"} : mon' = [mon EXCEPT ![n].pc = pc]
    BY <1>6 DEF Fire, Promote, DevDumps
  <2>2. mon'[n].pc = pc
    BY <1>t, <2>1 DEF MonType
  <2> QED
    BY <2>1, <2>2 DEF Live
<1>9. CASE Watcher(n)
  <2> DEFINE sig == [mint |-> n, amount |-> Lot, all |-> TRUE,
                     reason |-> "Protective", cost |-> Cost]
  <2>1. sig \in Signal /\ sig.mint = n /\ sig.amount = Lot /\ SendSignal(sig)
        /\ UNCHANGED <<mon, givenUp>>
    BY <1>9, <1>c, ExitAssumption DEF Signal, Watcher
  <2> HIDE DEF sig
  <2>2. CoverOf(n) /\ wallet[n] <= Lot
    BY <2>1, ExitAssumption DEF TypeIs, StateIs
  <2>3. Owing(mon'[n]) /\ Believed(mon'[n]) = Believed(mon[n])
    BY <2>1, <2>2 DEF CoverOf
  <2> QED
    BY <2>1, <2>2, <2>3, SendCovers
<1> QED
  BY <1>1, <1>2, <1>3, <1>4, <1>5, <1>6, <1>9 DEF Monitor

-----------------------------------------------------------------------------
AllIs == TypeIs /\ MonIs /\ ClaimInv /\ InboxIs

LEMMA AllInit == MonInit => AllIs
<1>1. MonInit => InboxIs
  BY DEF MonInit, Init, InboxIs
<1> QED
  BY <1>1, MonInitType, ClaimInit DEF MonInit, AllIs

LEMMA AllNext == AllIs /\ [MonNext]_allVars => AllIs'
<1> SUFFICES ASSUME AllIs, [MonNext]_allVars PROVE AllIs'
  OBVIOUS
<1> USE DEF AllIs
<1>1. TypeIs' /\ MonIs' /\ ClaimInv'
  BY MonNextType, MonClaims
<1>2. ASSUME NEW n \in Mints, Monitor(n) \/ Watcher(n) PROVE InboxIs'
  BY <1>2, MonitorView DEF OneMonitor
<1>3. ASSUME Engine PROVE InboxIs'
  BY <1>3, EngineInbox
<1>4. ASSUME UNCHANGED allVars PROVE InboxIs'
  BY <1>4 DEF InboxIs, allVars, vars, exitVars
<1> QED
  BY <1>1, <1>2, <1>3, <1>4 DEF MonNext

LEMMA CoverInit == MonInit => CoverInv
<1> SUFFICES ASSUME MonInit, NEW m \in Mints PROVE CoverOf(m)
  BY DEF CoverInv
<1>1. /\ exitQ = << >> /\ polling = None /\ \A t \in Tasks : task[t] = Free
      /\ inbox[m] = << >> /\ wallet[m] = Lot /\ mon[m] = Watching
  BY DEF MonInit, Init
<1>2. Sigs(m) = {} /\ ~Polled(m) /\ Jobs(m) = {}
  BY <1>1 DEF Sigs, Queued, Polled, Jobs, On, Working, Free
<1>3. Believed(mon[m]) = Lot /\ Owing(mon[m]) /\ ~AnySold(Jobs(m))
  BY <1>1, <1>2 DEF Believed, Owing, Watching, AnySold
<1>4. Lot \in 0 .. Lot /\ << >> \in Seq(Answer)
  BY ExitAssumption
<1>5. Covers(<< >>, Lot, Lot, AnySold(Jobs(m)))
  BY <1>3, <1>4, CoversFirst
<1> QED
  BY <1>1, <1>2, <1>3, <1>5 DEF CoverOf

LEMMA CoverNext ==
  ASSUME "no_fill" \notin Faults
  PROVE  AllIs /\ CoverInv /\ [MonNext]_allVars => CoverInv'
<1> SUFFICES ASSUME AllIs, CoverInv, [MonNext]_allVars, NEW m \in Mints,
                    m \notin givenUp', mon'[m].pc \in Live
             PROVE  CoverOf(m)'
  BY DEF CoverInv
<1>1. TypeIs /\ MonIs /\ ClaimInv /\ InboxIs /\ TypeIs' /\ MonIs'
  BY AllNext DEF AllIs
<1>2. m \notin givenUp /\ mon[m].pc \in Live => CoverOf(m)
  BY DEF CoverInv
<1>3. ASSUME NEW n \in Mints, Monitor(n) \/ Watcher(n) PROVE CoverOf(m)'
  <2>1. CASE m = n
    BY <1>1, <1>2, <1>3, <2>1, OwnMonitorCovers
  <2>2. CASE m # n
    <3>1. UNCHANGED mon[m] /\ m \notin givenUp /\ SameView(m)
      BY <1>1, <1>3, <2>2, MonitorView DEF OneMonitor, Elsewhere
    <3> QED
      BY <1>2, <3>1, SameCover
  <2> QED
    BY <2>1, <2>2
<1>4. CASE Engine /\ UNCHANGED monVars
  BY <1>1, <1>2, <1>4, EngineCovers DEF monVars
<1>5. CASE UNCHANGED allVars
  <2>1. SameView(m) /\ UNCHANGED <<mon, givenUp>>
    BY <1>1, <1>5, IdleView DEF allVars, vars, monVars
  <2> QED
    BY <1>2, <2>1, SameCover
<1> QED
  BY <1>3, <1>4, <1>5 DEF MonNext

(***************************************************************************)
(* While a sell that is confirmed has sold what it was for, the tally of a *)
(* monitor at rest is never less than what the wallet holds, whatever      *)
(* answers it took for its own, and however many of its sells timed out    *)
(* and landed later (monitoring/mod.rs:2024-2120).  The fills are what the *)
(* code does not see: with "no_fill" a sell may leave all there was, and   *)
(* its answer takes the tally down all the same.                           *)
(***************************************************************************)
THEOREM TallyAlwaysCovers ==
  ASSUME "no_fill" \notin Faults
  PROVE  MonSpec => []TallyCovers
<1>1. ASSUME AllIs, CoverInv PROVE TallyCovers
  <2> SUFFICES ASSUME NEW m \in Mints, AtRest(m), m \notin givenUp
               PROVE  mon[m].tokens >= wallet[m]
    BY DEF TallyCovers
  <2>1. CoverOf(m) /\ Believed(mon[m]) = mon[m].tokens
    BY <1>1 DEF CoverInv, AtRest, Live, Believed
  <2>2. wallet[m] <= mon[m].tokens /\ mon[m].tokens \in Nat /\ wallet[m] \in Nat
    BY <1>1, <2>1, RestCovered, TypeOfMon, ExitAssumption DEF AllIs, TypeIs, StateIs
  <2> QED
    BY <2>2
<1>2. MonSpec => [](AllIs /\ CoverInv)
  BY AllInit, AllNext, CoverInit, CoverNext, PTL DEF MonSpec
<1> QED
  BY <1>1, <1>2, PTL

-----------------------------------------------------------------------------
(***************************************************************************)
(* Why the tally is the wallet.  A monitor sends one exit and waits for    *)
(* its answer, so while no watcher has sent another and it has not stopped *)
(* waiting too early, at most one exit of its position is on its way: in   *)
(* the channel, with the loop's poll, at work, or answered.  Where it is   *)
(* says what the wallet holds: what the monitor believes until the sell    *)
(* lands, and after it what the tally was taken down to; or less, where a  *)
(* sell that was given up may land later.                                  *)
(***************************************************************************)

Busy(m) == {j \in Jobs(m) : j.pc # "release"}

\* No exit is on its way.
Calm(m) == inbox[m] = << >> /\ ~Polled(m) /\ Sigs(m) = {} /\ Busy(m) = {}

\* The exit that is waited for sells everything.
Whole(k) == k.pc = "wait" => All(k.reason)

\* What it leaves.
Rest(k) == IF Whole(k) THEN 0 ELSE Believed(k) \div 2

\* What the wallet holds is at most x; exactly x if no sell can land late.
Fits(w, x) == w <= x /\ ("timeout" \notin Faults => w = x)

\* A position given up on is marked, if marking works.
Marked(r, w) == "row_write" \in Faults \/ w = 0 \/ r.status = "exit_failed"

SigIs(k, s) == s.amount = Believed(k) /\ s.all = Whole(k)

JobIs(k, j, w, r) ==
  /\ j.pc = "balance" => Fits(w, Believed(k)) /\ SigIs(k, j.sig)
  /\ j.pc = "attempt" \/ (j.pc = "confirm" /\ j.tx = "flying") =>
       Fits(w, Believed(k)) /\ Fits(w, j.sell + Rest(k))
  /\ j.pc = "confirm" => j.tx \in {"flying", "landed"}
  /\ HasSold(j) => Fits(w, Rest(k))
  /\ j.pc \in {"write", "book"} => j.ok
  /\ j.pc \in {"mark", "reply"} /\ ~j.ok => Fits(w, Believed(k))
  /\ j.pc = "mark" => ~j.ok
  /\ j.pc = "reply" /\ ~j.ok /\ j.permanent => Marked(r, w)

AnswerIs(k, a, w, r) ==
  /\ a.ok => Fits(w, Rest(k))
  /\ ~a.ok => Fits(w, Believed(k))
  /\ ~a.ok /\ a.permanent => Marked(r, w)

\* Where the exit is that monitor m waits for; a duplicate is nowhere.
InChannel(m) ==
  /\ Single(m) /\ inbox[m] = << >> /\ ~Polled(m) /\ Busy(m) = {}
  /\ Fits(wallet[m], Believed(mon[m]))
  /\ \E s \in Signal : Sigs(m) = {s} /\ SigIs(mon[m], s)
InPoll(m) ==
  /\ Polled(m) /\ inbox[m] = << >> /\ Sigs(m) = {} /\ Busy(m) = {}
  /\ Fits(wallet[m], Believed(mon[m])) /\ wallet[m] = 0
BeingSold(m) ==
  /\ inbox[m] = << >> /\ Sigs(m) = {} /\ ~Polled(m)
  /\ \E j \in Busy(m) : Busy(m) = {j} /\ JobIs(mon[m], j, wallet[m], row[m])
Answered(m) ==
  /\ Sigs(m) = {} /\ ~Polled(m) /\ Busy(m) = {}
  /\ \E a \in Answer : inbox[m] = <<a>> /\ AnswerIs(mon[m], a, wallet[m], row[m])
Nowhere(m) == Calm(m) /\ Fits(wallet[m], Believed(mon[m]))

OneExit(m) == InChannel(m) \/ InPoll(m) \/ BeingSold(m) \/ Answered(m) \/ Nowhere(m)

LoneOf(m) ==
  /\ mon[m].pc \in {"watch", "due"} => Calm(m) /\ Fits(wallet[m], mon[m].tokens)
  /\ mon[m].pc = "stopped" => Calm(m) /\ Marked(row[m], wallet[m])
  /\ mon[m].pc \in {"wait", "wait_due"} =>
       /\ Owing(mon[m]) /\ (~Whole(mon[m]) => mon[m].asked % 2 = 0)
       /\ OneExit(m)

LoneInv ==
  /\ "timeout" \notin Faults => late = {}
  /\ \A m \in Mints : m \notin givenUp \cup misled => LoneOf(m)

LEMMA FitsExact == \A w : \A x \in Nat : w = x => Fits(w, x)
  BY DEF Fits

LEMMA RestType ==
  ASSUME NEW k \in MonType
  PROVE  /\ Believed(k) \in Nat /\ Rest(k) \in Nat /\ Rest(k) <= Believed(k)
         /\ Whole(k) \in BOOLEAN
<1>1. Believed(k) \in Nat /\ Whole(k) \in BOOLEAN
  BY ExitAssumption DEF Believed, MonType, Whole, All
<1> QED
  BY <1>1 DEF Rest

\* The amount that a task makes out leaves at most the rest.
LEMMA SizedLeaves ==
  ASSUME NEW k \in MonType, ~Whole(k) => k.asked % 2 = 0,
         NEW w \in Nat, Fits(w, Believed(k)), NEW seen \in {w, 0}, NEW eff,
         eff = IF seen > 0 /\ seen < Believed(k) THEN seen ELSE Believed(k),
         NEW sell, sell = IF Whole(k) THEN eff ELSE eff \div 2
  PROVE  Fits(w, sell + Rest(k))
<1> DEFINE b == Believed(k)
<1>1. b \in Nat /\ Whole(k) \in BOOLEAN /\ w <= b /\ (~Whole(k) => b % 2 = 0)
  BY RestType DEF Fits, Whole, Believed
<1>2. "timeout" \notin Faults => w = b
  BY DEF Fits
<1>3. eff = IF seen > 0 /\ seen < b THEN seen ELSE b
  OBVIOUS
<1>4. Rest(k) = IF Whole(k) THEN 0 ELSE b \div 2
  BY DEF Rest
<1> HIDE DEF b
<1>5. eff \in Nat /\ w <= eff /\ eff <= b /\ (w = b => eff = b)
  BY <1>1, <1>3
<1>6. CASE Whole(k)
  BY <1>1, <1>2, <1>4, <1>5, <1>6 DEF Fits
<1>7. CASE ~Whole(k)
  <2>1. b = b \div 2 + b \div 2
    BY <1>1, <1>7
  <2>2. eff = w \/ eff = b
    BY <1>1, <1>3
  <2>3. w <= eff \div 2 + b \div 2
    <3>1. CASE eff = w
      BY <1>1, <2>1, <3>1
    <3>2. CASE eff = b
      BY <1>1, <2>1, <3>2
    <3> QED
      BY <2>2, <3>1, <3>2
  <2>4. "timeout" \notin Faults => w = eff \div 2 + b \div 2
    BY <1>1, <1>2, <1>5, <2>1
  <2> QED
    BY <1>4, <1>7, <2>3, <2>4 DEF Fits
<1> QED
  BY <1>6, <1>7

\* What a task at work does to the one exit there is.
LEMMA MoveLone ==
  ASSUME "no_fill" \notin Faults,
         NEW k \in MonType, ~Whole(k) => k.asked % 2 = 0,
         NEW j, NEW j2, TaskOK(j), TaskOK(j2), j.sig \in Signal,
         NEW w \in 0 .. Lot, NEW w2 \in 0 .. Lot,
         NEW q2, NEW r, NEW r2,
         Moves(j, j2, w, w2, << >>, q2, r, r2), JobIs(k, j, w, r)
  PROVE  \/ j2.pc # "release" /\ q2 = << >> /\ JobIs(k, j2, w2, r2)
         \/ j2.pc = "release" /\ \E a \in Answer : q2 = <<a>>
           /\ AnswerIs(k, a, w2, r2)
<1>t. /\ Believed(k) \in Nat /\ Rest(k) \in Nat /\ Rest(k) <= Believed(k)
      /\ Whole(k) \in BOOLEAN /\ w \in Nat /\ w2 \in Nat
  BY RestType, ExitAssumption
<1>a. j.sell \in Nat /\ j.sig.amount \in Nat
  BY ExitAssumption DEF TaskOK, TaskType, Signal
<1>v. ASSUME InVain(j) PROVE Fits(w, Believed(k)) /\ Fits(w, j.sell + Rest(k))
  <2>1. CASE j.pc = "confirm" /\ j.tx # "flying"
    <3>1. "timeout" \in Faults /\ w <= Rest(k)
      BY <1>v, <2>1 DEF InVain, JobIs, HasSold, Fits
    <3> QED
      BY <1>t, <1>a, <3>1 DEF Fits
  <2>2. CASE ~(j.pc = "confirm" /\ j.tx # "flying")
    BY <1>v, <2>2 DEF InVain, JobIs
  <2> QED
    BY <2>1, <2>2
<1>1. CASE Sizes(j, j2, w) /\ w2 = w /\ q2 = << >> /\ r2 = r
  <2>1. j.pc = "balance" /\ j2.pc = "attempt" /\ Fits(w, Believed(k))
        /\ SigIs(k, j.sig)
    BY <1>1 DEF Sizes, JobIs
  <2>2. PICK seen \in Reads(w) :
          LET eff == IF seen > 0 /\ seen < j.sig.amount THEN seen ELSE j.sig.amount
          IN  j2.sell = IF j.sig.all THEN eff ELSE eff \div 2
    BY <1>1 DEF Sizes
  <2>3. seen \in {w, 0}
    BY DEF Reads
  <2> DEFINE eff == IF seen > 0 /\ seen < Believed(k) THEN seen ELSE Believed(k)
  <2>4. j2.sell = IF Whole(k) THEN eff ELSE eff \div 2
    BY <2>1, <2>2 DEF SigIs
  <2>5. Fits(w, j2.sell + Rest(k))
    BY <1>t, <2>1, <2>3, <2>4, SizedLeaves
  <2> QED
    BY <1>1, <2>1, <2>5 DEF JobIs, HasSold
<1>2. CASE GivesUp(j, j2, w) /\ w2 = w /\ q2 = << >> /\ r2 = r
  <2>1. Fits(w, Believed(k))
    BY <1>2, <1>v DEF GivesUp, JobIs
  <2>2. /\ ~j2.ok
        /\ (j2.pc = "reply" /\ ~j2.permanent) \/ (j2.pc = "mark" /\ j2.permanent)
    BY <1>2 DEF GivesUp
  <2> QED
    BY <1>2, <2>1, <2>2 DEF JobIs, HasSold
<1>3. CASE Retries(j, j2) /\ w2 = w /\ q2 = << >> /\ r2 = r
  BY <1>3, <1>v DEF Retries, JobIs, HasSold
<1>4. CASE Submits(j, j2) /\ w2 = w /\ q2 = << >> /\ r2 = r
  BY <1>4 DEF Submits, JobIs, HasSold
<1>5. CASE Confirms(j, j2) /\ w2 = w /\ q2 = << >> /\ r2 = r
  BY <1>5 DEF Confirms, JobIs, HasSold
<1>6. CASE Settles(j, j2) /\ w2 = w /\ q2 = << >> /\ r2 = r
  BY <1>6 DEF Settles, JobIs, HasSold
<1>7. CASE Books(j, j2) /\ w2 = w /\ q2 = << >> /\ r2 = r
  BY <1>7 DEF Books, JobIs, HasSold
<1>8. CASE Sells(j, j2, w, w2) /\ q2 = << >> /\ r2 = r
  <2>1. Fits(w, j.sell + Rest(k)) /\ j.sell <= w
    BY <1>8 DEF Sells, JobIs
  <2>2. w2 = w - j.sell /\ j2.pc = "confirm" /\ j2.tx = "landed"
    BY <1>8 DEF Sells
  <2>3. Fits(w2, Rest(k))
    <3>1. w <= j.sell + Rest(k) /\ ("timeout" \notin Faults => w = j.sell + Rest(k))
      BY <2>1 DEF Fits
    <3>2. w2 <= Rest(k) /\ (w = j.sell + Rest(k) => w2 = Rest(k))
      BY <1>t, <1>a, <2>2, <3>1
    <3> QED
      BY <3>1, <3>2 DEF Fits
  <2> QED
    BY <1>8, <2>2, <2>3 DEF JobIs, HasSold
<1>9. CASE Writes(j, j2) /\ w2 = w /\ q2 = << >>
  BY <1>9 DEF Writes, JobIs, HasSold
<1>10. CASE Marks(j, j2, r2) /\ w2 = w /\ q2 = << >>
  BY <1>10 DEF Marks, JobIs, HasSold, Marked
<1>11. CASE Replies(j, j2, << >>, q2) /\ w2 = w /\ r2 = r
  <2> DEFINE a == [ok |-> j.ok, permanent |-> j.permanent, reason |-> j.sig.reason]
  <2>1. j.pc = "reply" /\ j2.pc = "release" /\ q2 = Append(<< >>, a)
    BY <1>11 DEF Replies
  <2>2. a \in Answer /\ a.ok = j.ok /\ a.permanent = j.permanent
    BY DEF Answer, TaskOK, TaskType, Signal
  <2> HIDE DEF a
  <2>3. q2 = <<a>>
    BY <2>1
  <2>4. AnswerIs(k, a, w2, r2)
    BY <1>11, <2>1, <2>2 DEF AnswerIs, JobIs, HasSold
  <2> QED
    BY <2>1, <2>2, <2>3, <2>4
<1> QED
  BY <1>1, <1>2, <1>3, <1>4, <1>5, <1>6, <1>7, <1>8, <1>9, <1>10, <1>11 DEF Moves

LEMMA LoneStill ==
  ASSUME NEW m, UNCHANGED <<mon[m], inbox[m], wallet[m], row[m], Polled(m), Sigs(m),
                            Single(m), Busy(m)>>,
         LoneOf(m)
  PROVE  LoneOf(m)'
<1>1. Calm(m) => Calm(m)'
  BY DEF Calm
<1>2. InChannel(m) => InChannel(m)'
  BY DEF InChannel
<1>3. InPoll(m) => InPoll(m)'
  BY DEF InPoll
<1>4. BeingSold(m) => BeingSold(m)'
  BY DEF BeingSold
<1>5. Answered(m) => Answered(m)'
  BY DEF Answered
<1>6. Nowhere(m) => Nowhere(m)'
  BY <1>1 DEF Nowhere
<1>7. OneExit(m) => OneExit(m)'
  BY <1>2, <1>3, <1>4, <1>5, <1>6 DEF OneExit
<1> QED
  BY <1>1, <1>7 DEF LoneOf, Owing, Whole, Marked

LEMMA SameLone ==
  ASSUME NEW m, SameView(m), UNCHANGED mon[m], LoneOf(m)
  PROVE  LoneOf(m)'
<1>1. UNCHANGED <<Sigs(m), Single(m), inbox[m], wallet[m], row[m], Polled(m),
      Jobs(m)>>
  BY DEF SameView, SameQueue
<1>2. Busy(m)' = Busy(m)
  BY <1>1 DEF Busy
<1> QED
  BY <1>1, <1>2, LoneStill

LEMMA LateStill ==
  ASSUME "timeout" \notin Faults, late = {}, Engine
  PROVE  late' = {}
<1>1. ASSUME NEW t \in Tasks, NEW price, MayLandLate(t, price) PROVE late' = {}
  BY <1>1 DEF MayLandLate
<1>2. ASSUME NEW t \in Tasks, TaskStep(t) PROVE late' = {}
  BY <1>1, <1>2 DEF TaskStep, ReadBalance, QuoteFails, QuoteTooLow, SubmitFails,
    Submit,
     Confirmed, Refused, TimesOut, Settle, Write, Book, MarkFailed, Reply, Release
<1>3. CASE Loop
  BY <1>3 DEF Loop, DropDuplicate, AcceptUnsized, PollGivesUp, Accept, PollResolves
<1>4. CASE Chain
  BY <1>4 DEF Chain, Lands
<1> QED
  BY <1>2, <1>3, <1>4 DEF Engine

LEMMA LocalLone ==
  ASSUME "no_fill" \notin Faults, TypeIs, TypeIs', MonIs, InboxIs, ClaimInv,
         NEW t \in Tasks, Local(t), NEW n, n = task[t].sig.mint,
         UNCHANGED mon[n], LoneOf(n)
  PROVE  LoneOf(n)' \/ mon[n].pc \notin {"watch", "due", "stopped", "wait",
    "wait_due"}
<1> DEFINE j == task[t]
           j2 == task'[t]
           k == mon[n]
           live == {"watch", "due", "stopped", "wait", "wait_due"}
<1> SUFFICES ASSUME mon[n].pc \in live PROVE LoneOf(n)'
  OBVIOUS
<1>1. /\ n \in Mints /\ j.sig \in Signal /\ TaskOK(j) /\ TaskOK(j2)
      /\ Jobs(n) = {j} /\ Jobs(n)' = {j2} /\ ~Polled(n) /\ ~Polled(n)'
      /\ MovesAt(t, n) /\ Sigs(n)' = Sigs(n) /\ InboxIs'
  BY LocalView DEF SameQueue
<1>2. wallet[n] \in 0 .. Lot /\ wallet'[n] \in 0 .. Lot /\ k \in MonType
  BY <1>1 DEF TypeIs, StateIs, MonIs
<1>3. Moves(j, j2, wallet[n], wallet'[n], inbox[n], inbox'[n], row[n], row'[n])
  BY <1>1 DEF MovesAt
<1>4. j.pc # "release"
  BY <1>3 DEF Moves, Sizes, GivesUp, InVain, Retries, Submits, Confirms, Settles,
    Books,
     Sells, Writes, Marks, Replies
<1> HIDE DEF j, j2
<1>5. Busy(n) = {j}
  BY <1>1, <1>4 DEF Busy
<1>6. ~Calm(n)
  BY <1>5 DEF Calm
<1>7. k.pc \in {"wait", "wait_due"} /\ OneExit(n)
      /\ (~Whole(k) => k.asked % 2 = 0) /\ Owing(k)
  BY <1>6 DEF LoneOf
<1>8. inbox[n] = << >> /\ Sigs(n) = {} /\ JobIs(k, j, wallet[n], row[n])
  BY <1>5, <1>7, <1>6 DEF OneExit, InChannel, InPoll, BeingSold, Answered, Nowhere
<1>9. Moves(j, j2, wallet[n], wallet'[n], << >>, inbox'[n], row[n], row'[n])
  BY <1>3, <1>8
<1> HIDE DEF k
<1>10. \/ /\ j2.pc # "release" /\ inbox'[n] = << >>
          /\ JobIs(k, j2, wallet'[n], row'[n])
       \/ /\ j2.pc = "release"
          /\ \E a \in Answer : inbox'[n] = <<a>>
            /\ AnswerIs(k, a, wallet'[n], row'[n])
  BY <1>1, <1>2, <1>7, <1>8, <1>9, MoveLone
<1>11. Sigs(n)' = {}
  BY <1>1, <1>8
<1>12. CASE /\ j2.pc # "release" /\ inbox'[n] = << >>
            /\ JobIs(k, j2, wallet'[n], row'[n])
  <2>1. Busy(n)' = {j2}
    BY <1>1, <1>12 DEF Busy
  <2>2. BeingSold(n)'
    BY <1>1, <1>11, <1>12, <2>1 DEF BeingSold, k
  <2> QED
    BY <1>7, <2>2 DEF LoneOf, OneExit, k, Owing, Whole
<1>13. CASE /\ j2.pc = "release"
            /\ \E a \in Answer : inbox'[n] = <<a>>
              /\ AnswerIs(k, a, wallet'[n], row'[n])
  <2>1. Busy(n)' = {}
    BY <1>1, <1>13 DEF Busy
  <2>2. Answered(n)'
    BY <1>1, <1>11, <1>13, <2>1 DEF Answered, k
  <2> QED
    BY <1>7, <2>2 DEF LoneOf, OneExit, k, Owing, Whole
<1> QED
  BY <1>10, <1>12, <1>13

\* What holds of a position whose monitor is past its exits.
LEMMA LoneElse ==
  ASSUME NEW m, mon'[m].pc \notin {"watch", "due", "stopped", "wait", "wait_due"}
  PROVE  LoneOf(m)'
  BY DEF LoneOf

LEMMA LoopLone ==
  ASSUME TypeIs, MonIs, InboxIs, ClaimInv, Loop, UNCHANGED mon,
         NEW m \in Mints, LoneOf(m), mon[m].pc \in {"watch", "due", "stopped",
           "wait", "wait_due"}
  PROVE  LoneOf(m)'
<1>a. ASSUME NEW n, Elsewhere(n), m # n PROVE LoneOf(m)'
  BY <1>a, SameLone DEF Elsewhere
<1>b. ASSUME OneExit(m), ~Calm(m), OneExit(m)' PROVE LoneOf(m)'
  <2>1. mon[m].pc \in {"wait", "wait_due"}
    BY <1>b DEF LoneOf
  <2> QED
    BY <1>b, <2>1 DEF LoneOf, Owing, Whole
<1>c. ASSUME ~Calm(m) PROVE OneExit(m)
  BY <1>c DEF LoneOf
<1>w. wallet[m] \in 0 .. Lot /\ inbox[m] \in Seq(Answer)
  BY DEF TypeIs, StateIs, InboxIs
<1>1. CASE DropDuplicate
  <2>1. PICK sig, n : sig = Head(exitQ) /\ n = sig.mint
    OBVIOUS
  <2>2. TakesOne(n, sig) /\ UNCHANGED Jobs(n) /\ ~Polled(n)'
    BY <1>1, <2>1, DropView
  <2>3. CASE m = n
    <3>1. /\ UNCHANGED <<inbox[m], wallet[m], Jobs(m)>> /\ ~Polled(m)'
             /\ sig \in Sigs(m)
          /\ Single(m) => Sigs(m)' = {}
      BY <2>2, <2>3 DEF TakesOne, OthersStill
    <3>2. ~Calm(m)
      BY <3>1 DEF Calm
    <3>3. InChannel(m)
      BY <1>c, <3>1, <3>2 DEF OneExit, InPoll, BeingSold, Answered, Nowhere
    <3>4. Busy(m)' = Busy(m)
      BY <3>1 DEF Busy
    <3>5. Nowhere(m)'
      BY <3>1, <3>3, <3>4 DEF InChannel, Nowhere, Calm, Believed
    <3> QED
      BY <1>b, <1>c, <3>2, <3>5 DEF OneExit
  <2> QED
    BY <1>a, <2>2, <2>3 DEF TakesOne
<1>2. ASSUME NEW t \in Tasks, Accept(t) PROVE LoneOf(m)'
  <2>1. PICK sig, n : sig = Head(exitQ) /\ n = sig.mint
    OBVIOUS
  <2>2. /\ TakesOne(n, sig) /\ sig.amount > 0 /\ Jobs(n) = {}
        /\ Jobs(n)' = {Spawned(sig)} /\ ~Polled(n)'
    BY <1>2, <2>1, AcceptView
  <2>3. CASE m = n
    <3>1. /\ UNCHANGED <<inbox[m], wallet[m], row[m]>> /\ ~Polled(m)'
             /\ sig \in Sigs(m)
          /\ Single(m) => Sigs(m)' = {}
          /\ Jobs(m)' = {Spawned(sig)}
      BY <2>2, <2>3 DEF TakesOne, OthersStill
    <3>2. ~Calm(m)
      BY <3>1 DEF Calm
    <3>3. InChannel(m)
      BY <1>c, <3>1, <3>2 DEF OneExit, InPoll, BeingSold, Answered, Nowhere
    <3>4. SigIs(mon[m], sig) /\ Fits(wallet[m], Believed(mon[m]))
          /\ inbox[m] = << >>
      BY <3>1, <3>3 DEF InChannel
    <3>5. Spawned(sig).pc = "balance" /\ Spawned(sig).sig = sig
      BY DEF Spawned, Free
    <3>6. Busy(m)' = {Spawned(sig)}
      BY <3>1, <3>5 DEF Busy
    <3>8. JobIs(mon[m], Spawned(sig), wallet[m], row[m])
      BY <3>4, <3>5 DEF JobIs, HasSold
    <3>9. Sigs(m)' = {}
      BY <3>1, <3>3 DEF InChannel
    <3>10. BeingSold(m)'
      BY <3>1, <3>4, <3>6, <3>8, <3>9 DEF BeingSold
    <3> QED
      BY <1>b, <1>c, <3>2, <3>10 DEF OneExit
  <2> QED
    BY <1>a, <2>2, <2>3 DEF TakesOne
<1>3. CASE AcceptUnsized
  <2>1. PICK sig, n : sig = Head(exitQ) /\ n = sig.mint
    OBVIOUS
  <2>2. TakesOne(n, sig) /\ sig.amount = 0 /\ Jobs(n) = {} /\ Jobs(n)' = {}
    BY <1>3, <2>1, UnsizedView
  <2>3. CASE m = n
    <3>1. /\ UNCHANGED <<inbox[m], wallet[m], Jobs(m)>> /\ sig \in Sigs(m)
          /\ Single(m) => Sigs(m)' = {}
      BY <2>2, <2>3 DEF TakesOne, OthersStill
    <3>p. Polled(m)'
      <4>1. polling' = sig /\ sig \in Signal
        BY <1>3, <2>1, <2>2 DEF AcceptUnsized, TakesOne
      <4> QED
        BY <2>1, <2>3, <4>1, ExitAssumption DEF Polled
    <3>2. ~Calm(m)
      BY <3>1 DEF Calm
    <3>3. InChannel(m)
      BY <1>c, <3>1, <3>2 DEF OneExit, InPoll, BeingSold, Answered, Nowhere
    <3>4. wallet[m] = 0 /\ Fits(wallet[m], Believed(mon[m])) /\ inbox[m] = << >>
      <4>1. Fits(wallet[m], 0) /\ Fits(wallet[m], Believed(mon[m]))
            /\ inbox[m] = << >>
        BY <2>2, <3>1, <3>3 DEF InChannel, SigIs
      <4> QED
        BY <1>w, <4>1, ExitAssumption DEF Fits
    <3>5. Busy(m)' = {} /\ Sigs(m)' = {}
      BY <2>2, <2>3, <3>1, <3>3 DEF Busy, InChannel
    <3>6. InPoll(m)'
      BY <3>1, <3>4, <3>5, <3>p DEF InPoll, Believed
    <3> QED
      BY <1>b, <1>c, <3>2, <3>6 DEF OneExit
  <2> QED
    BY <1>a, <2>2, <2>3 DEF TakesOne
<1>4. ASSUME NEW t \in Tasks, PollResolves(t) PROVE LoneOf(m)'
  <2>1. PICK n : n = polling.mint
    OBVIOUS
  <2>2. Polled(n) /\ wallet[n] > 0 /\ Elsewhere(n)
    BY <1>4, <2>1, ResolveView
  <2>3. ASSUME m = n PROVE FALSE
    <3>1. ~Calm(m) /\ Polled(m)
      BY <2>2, <2>3 DEF Calm
    <3>2. InPoll(m)
      BY <1>c, <3>1 DEF OneExit, InChannel, BeingSold, Answered, Nowhere, Calm
    <3> QED
      BY <2>2, <2>3, <3>2 DEF InPoll
  <2> QED
    BY <1>a, <2>2, <2>3
<1>5. CASE PollGivesUp
  <2>1. PICK n : n = polling.mint
    OBVIOUS
  <2>2. /\ Elsewhere(n) /\ Polled(n) /\ ~Polled(n)' /\ SameQueue(n)
        /\ UNCHANGED <<wallet[n], row[n], Jobs(n)>>
        /\ \E a \in Answer : ~a.ok /\ a.permanent /\ inbox'[n] = Append(inbox[n], a)
    BY <1>5, <2>1, GivesUpView
  <2>3. CASE m = n
    <3>1. ~Calm(m) /\ Polled(m)
      BY <2>2, <2>3 DEF Calm
    <3>2. InPoll(m)
      BY <1>c, <3>1 DEF OneExit, InChannel, BeingSold, Answered, Nowhere, Calm
    <3>3. PICK a \in Answer : ~a.ok /\ a.permanent
          /\ inbox'[m] = Append(inbox[m], a)
      BY <2>2, <2>3
    <3>4. inbox[m] = << >> /\ Sigs(m)' = {} /\ Busy(m)' = {}
          /\ Fits(wallet'[m], Believed(mon[m])) /\ wallet'[m] = 0
      BY <2>2, <2>3, <3>2 DEF InPoll, SameQueue, Busy
    <3>5. inbox'[m] = <<a>>
      BY <3>3, <3>4
    <3>6. AnswerIs(mon[m], a, wallet'[m], row'[m])
      BY <3>3, <3>4 DEF AnswerIs, Marked
    <3>7. Answered(m)'
      BY <2>2, <2>3, <3>4, <3>5, <3>6 DEF Answered
    <3> QED
      BY <1>b, <1>c, <3>1, <3>7 DEF OneExit
  <2> QED
    BY <1>a, <2>2, <2>3
<1> QED
  BY <1>1, <1>2, <1>3, <1>4, <1>5 DEF Loop

\* A sell that lands late leaves less.
LEMMA LateLone ==
  ASSUME TypeIs, InboxIs, MonIs, "timeout" \in Faults, NEW x \in late, LandsLate(x),
         NEW m, m = x.mint, UNCHANGED mon, LoneOf(m)
  PROVE  LoneOf(m)'
<1>1. /\ m \in Mints /\ Sigs(m)' = Sigs(m) /\ Single(m)' = Single(m)
      /\ UNCHANGED <<inbox[m], row[m], Jobs(m), Polled(m)>>
      /\ wallet'[m] \in 0 .. Lot /\ wallet'[m] <= wallet[m]
  BY LateView DEF SameQueue
<1>2. Busy(m)' = Busy(m) /\ wallet[m] \in Nat /\ wallet'[m] \in Nat
      /\ mon[m] \in MonType
  BY <1>1, ExitAssumption DEF Busy, TypeIs, StateIs, MonIs
<1>f. ASSUME NEW y \in Nat, Fits(wallet[m], y) PROVE Fits(wallet'[m], y)
  BY <1>1, <1>2, <1>f DEF Fits
<1>b. Believed(mon[m]) \in Nat /\ Rest(mon[m]) \in Nat /\ mon[m].tokens \in Nat
  BY <1>1, <1>2, RestType, TypeOfMon
<1>m. Marked(row[m], wallet[m]) => Marked(row[m], wallet'[m])
  BY <1>1, <1>2 DEF Marked
<1>3. Calm(m) => Calm(m)'
  BY <1>1, <1>2 DEF Calm
<1>4. InChannel(m) => InChannel(m)'
  BY <1>1, <1>2, <1>f, <1>b DEF InChannel
<1>5. InPoll(m) => InPoll(m)'
  BY <1>1, <1>2, <1>f, <1>b DEF InPoll
<1>6. ASSUME BeingSold(m) PROVE BeingSold(m)'
  <2>1. PICK j \in Busy(m) : Busy(m) = {j} /\ JobIs(mon[m], j, wallet[m], row[m])
    BY <1>6 DEF BeingSold
  <2>2. j.sell \in Nat
    BY ExitAssumption DEF Busy, Jobs, TypeIs, TasksOK, TaskType
  <2>3. j.sell + Rest(mon[m]) \in Nat
    BY <1>b, <2>2
  <2>4. JobIs(mon[m], j, wallet'[m], row[m])
    BY <1>f, <1>b, <1>m, <2>1, <2>3 DEF JobIs
  <2> QED
    BY <1>1, <1>2, <1>6, <2>1, <2>4 DEF BeingSold
<1>7. ASSUME Answered(m) PROVE Answered(m)'
  <2>1. PICK a \in Answer : inbox[m] = <<a>>
        /\ AnswerIs(mon[m], a, wallet[m], row[m])
    BY <1>7 DEF Answered
  <2>2. AnswerIs(mon[m], a, wallet'[m], row[m])
    BY <1>f, <1>b, <1>m, <2>1 DEF AnswerIs
  <2> QED
    BY <1>1, <1>2, <1>7, <2>1, <2>2 DEF Answered
<1>8. Nowhere(m) => Nowhere(m)'
  BY <1>3, <1>f, <1>b DEF Nowhere
<1>9. OneExit(m) => OneExit(m)'
  BY <1>4, <1>5, <1>6, <1>7, <1>8 DEF OneExit
<1>10. Fits(wallet[m], mon[m].tokens) => Fits(wallet'[m], mon[m].tokens)
  BY <1>f, <1>b
<1> QED
  BY <1>1, <1>3, <1>9, <1>10, <1>m DEF LoneOf, Owing, Whole

LEMMA EngineLone ==
  ASSUME "no_fill" \notin Faults, TypeIs, TypeIs', MonIs, InboxIs, ClaimInv,
         "timeout" \notin Faults
           => late = {}, Engine, UNCHANGED mon, NEW m \in Mints, LoneOf(m)
  PROVE  LoneOf(m)'
<1> SUFFICES ASSUME mon[m].pc \in {"watch", "due", "stopped", "wait", "wait_due"}
             PROVE  LoneOf(m)'
  BY LoneElse
<1>a. ASSUME NEW n, Elsewhere(n), m # n PROVE LoneOf(m)'
  BY <1>a, SameLone DEF Elsewhere
<1>1. CASE Loop
  BY <1>1, LoopLone
<1>2. ASSUME NEW t \in Tasks, Local(t) PROVE LoneOf(m)'
  <2>1. PICK n : n = task[t].sig.mint
    OBVIOUS
  <2>2. CASE m = n
    BY <1>2, <2>1, <2>2, LocalLone
  <2>3. CASE m # n
    BY <1>2, <1>a, <2>1, <2>3, LocalView
  <2> QED
    BY <2>2, <2>3
<1>3. ASSUME NEW t \in Tasks, Release(t) PROVE LoneOf(m)'
  <2>1. PICK n : n = task[t].sig.mint
    OBVIOUS
  <2>2. CASE m = n
    <3>1. /\ Jobs(m) = {task[t]} /\ task[t].pc = "release" /\ Jobs(m)' = {}
             /\ SameQueue(m)
          /\ UNCHANGED <<polling, inbox, wallet, row>>
      BY <1>3, <2>1, <2>2, JobEnds
    <3>2. Busy(m) = {} /\ Busy(m)' = {}
      BY <3>1 DEF Busy
    <3>3. UNCHANGED <<mon[m], inbox[m], wallet[m], row[m], Polled(m), Sigs(m),
          Single(m), Busy(m)>>
      BY <3>1, <3>2 DEF SameQueue, Polled
    <3> QED
      BY <3>3, LoneStill
  <2>3. CASE m # n
    BY <1>3, <1>a, <2>1, <2>3, JobEnds
  <2> QED
    BY <2>2, <2>3
<1>4. ASSUME NEW x \in late, LandsLate(x) PROVE LoneOf(m)'
  <2>1. PICK n : n = x.mint
    OBVIOUS
  <2>2. CASE m = n
    BY <1>4, <2>1, <2>2, LateLone
  <2>3. CASE m # n
    BY <1>4, <1>a, <2>1, <2>3, LateView
  <2> QED
    BY <2>2, <2>3
<1> QED
  BY <1>1, <1>2, <1>3, <1>4 DEF Engine, TaskStep, Chain, Local

\* A monitor sends its exit while none is on its way.
LEMMA SendLone ==
  ASSUME TypeIs, InboxIs, NEW sig \in Signal, SendSignal(sig), NEW n, n = sig.mint,
         Calm(n), mon'[n].pc \in {"wait", "wait_due"}, Owing(mon'[n]),
         ~Whole(mon'[n]) => mon'[n].asked % 2 = 0,
         Fits(wallet[n], Believed(mon'[n])), SigIs(mon'[n], sig)
  PROVE  LoneOf(n)'
<1>1. /\ Sigs(n)' = {sig} /\ Single(n)'
      /\ UNCHANGED <<Jobs(n), Polled(n), inbox[n], wallet[n], row[n]>>
  BY SendView DEF OthersStill, Calm
<1>2. Busy(n)' = {} /\ inbox'[n] = << >> /\ ~Polled(n)'
  BY <1>1 DEF Busy, Calm
<1>3. InChannel(n)'
  BY <1>1, <1>2 DEF InChannel, SigIs, Believed, Whole
<1> QED
  BY <1>3 DEF LoneOf, OneExit, Owing, Whole

\* A monitor that has taken the one answer there was.
LEMMA TakeLone ==
  ASSUME TypeIs, InboxIs, NEW n \in Mints, inbox[n] # << >>, Take(n),
         UNCHANGED unheardVars, LoneOf(n), mon[n].pc \in {"wait", "wait_due"}
  PROVE  /\ Calm(n)' /\ UNCHANGED <<wallet[n], row[n]>>
         /\ AnswerIs(mon[n], Head(inbox[n]), wallet[n], row[n])
<1>1. /\ inbox'[n] = Tail(inbox[n]) /\ SameQueue(n)
      /\ UNCHANGED <<wallet[n], row[n], Jobs(n), Polled(n)>>
  BY TakeView
<1>2. Answered(n)
  BY DEF LoneOf, OneExit, InChannel, InPoll, BeingSold, Nowhere, Calm
<1>3. PICK a \in Answer : inbox[n] = <<a>> /\ AnswerIs(mon[n], a, wallet[n], row[n])
  BY <1>2 DEF Answered
<1>4. Head(inbox[n]) = a /\ inbox'[n] = << >>
  BY <1>1, <1>3
<1>5. Sigs(n)' = {} /\ ~Polled(n)' /\ Busy(n)' = {}
  BY <1>1, <1>2 DEF SameQueue, Answered, Busy
<1> QED
  BY <1>1, <1>3, <1>4, <1>5 DEF Calm

\* No answer is on its way, then no exit is.
LEMMA UnansweredIsCalm ==
  ASSUME NEW m, Unanswered(m)
  PROVE  Calm(m)
<1>1. Queued(m) = {}
  BY DEF Unanswered, Queued
<1>2. Sigs(m) = {}
  BY <1>1 DEF Sigs
<1>3. ~Polled(m) /\ inbox[m] = << >>
  BY DEF Unanswered, Polled
<1>4. Busy(m) = {}
  BY DEF Unanswered, Busy, Jobs, At
<1> QED
  BY <1>2, <1>3, <1>4 DEF Calm

LEMMA OwnMonitorLone ==
  ASSUME TypeIs, MonIs, InboxIs, NEW n \in Mints, Monitor(n) \/ Watcher(n),
         n \notin givenUp', n \notin misled',
         n \notin givenUp /\ n \notin misled => LoneOf(n)
  PROVE  LoneOf(n)'
<1>t. mon[n] \in MonType /\ mon \in [Mints -> MonType] /\ mon[n].tokens \in Nat
      /\ mon[n].asked \in Nat
  BY TypeOfMon
<1>c. mon[n].cost \in Nat \cup {NaN} /\ Cost \in Nat \cup {NaN}
      /\ "Protective" \in Reasons
  BY <1>t, ExitAssumption DEF MonType, Reasons
<1>w. wallet[n] \in Nat
  BY ExitAssumption DEF TypeIs, StateIs
<1>m. ASSUME NEW k, mon' = [mon EXCEPT ![n] = k] PROVE mon'[n] = k
  BY <1>m, <1>t
<1>1. ASSUME NEW reason \in Reasons, Trigger(n, reason) PROVE LoneOf(n)'
  <2> DEFINE sig == ExitSignal(n, reason, Cost)
  <2>1. LoneOf(n) /\ mon[n].pc = "watch"
    BY <1>1 DEF Trigger
  <2>2. Calm(n) /\ Fits(wallet[n], mon[n].tokens)
    BY <2>1 DEF LoneOf
  <2>3. SendSignal(sig) /\ sig \in Signal /\ sig.mint = n
        /\ sig.amount = mon[n].tokens /\ sig.all = All(reason)
    BY <1>1, <1>c, <2>2, SignalType DEF Trigger, ExitSignal
  <2> HIDE DEF sig
  <2>4. /\ mon'[n].pc = "wait" /\ mon'[n].asked = mon[n].tokens
           /\ mon'[n].reason = reason
        /\ mon'[n].tokens = IF All(reason) THEN 0 ELSE Half(mon[n].tokens)
        /\ ~All(reason) => mon[n].tokens % 2 = 0
    BY <1>1, TriggerSends
  <2>5. /\ Owing(mon'[n]) /\ (~Whole(mon'[n]) => mon'[n].asked % 2 = 0)
        /\ Fits(wallet[n], Believed(mon'[n])) /\ SigIs(mon'[n], sig)
    <3>1. Whole(mon'[n]) = All(reason) /\ All(reason) \in BOOLEAN
      BY <2>4 DEF Whole, All
    <3> QED
      BY <2>2, <2>3, <2>4, <3>1 DEF Owing, Believed, SigIs
  <2> QED
    BY <2>2, <2>3, <2>4, <2>5, SendLone
<1>2. CASE TimeStop(n)
  <2> DEFINE sig == ExitSignal(n, "Protective", mon[n].cost)
  <2>1. LoneOf(n) /\ mon[n].pc \in {"watch", "due"}
        /\ mon' = [mon EXCEPT ![n].pc = "wait_due"]
    BY <1>2 DEF TimeStop
  <2>2. Calm(n) /\ Fits(wallet[n], mon[n].tokens)
    BY <2>1 DEF LoneOf
  <2>3. SendSignal(sig) /\ sig \in Signal /\ sig.mint = n
        /\ sig.amount = mon[n].tokens /\ sig.all = TRUE
    BY <1>2, <1>c, <2>2, SignalType DEF TimeStop, ExitSignal, All
  <2> HIDE DEF sig
  <2>4. mon'[n].pc = "wait_due" /\ mon'[n].tokens = mon[n].tokens
    BY <1>t, <2>1 DEF MonType
  <2>5. /\ Owing(mon'[n]) /\ Whole(mon'[n]) = TRUE
        /\ Fits(wallet[n], Believed(mon'[n])) /\ SigIs(mon'[n], sig)
    BY <2>2, <2>3, <2>4 DEF Owing, Whole, Believed, SigIs
  <2> QED
    BY <2>2, <2>3, <2>4, <2>5, SendLone
<1>3. CASE Hear(n)
  <2> DEFINE k == mon[n]
             r == Head(inbox[n])
             next == After(k, r)
  <2>1. /\ k.pc = "wait" /\ inbox[n] # << >> /\ Take(n) /\ UNCHANGED unheardVars
        /\ \/ mon' = [mon EXCEPT ![n] = next]
           \/ mon' = [mon EXCEPT ![n] = [next EXCEPT !.pc = "promoted"]]
        /\ givenUp' = IF ~r.ok /\ (r.permanent \/ k.failures + 1 >= MaxFailures)
                      THEN givenUp \cup {n} ELSE givenUp
        /\ UNCHANGED misled
    BY <1>3 DEF Hear
  <2>2. n \notin givenUp
        /\ (r.ok \/ ~(r.permanent \/ k.failures + 1 >= MaxFailures))
    BY <2>1
  <2>3. LoneOf(n) /\ Owing(k) /\ (~Whole(k) => k.asked % 2 = 0)
    BY <2>1, <2>2 DEF LoneOf
  <2>4. Calm(n)' /\ UNCHANGED <<wallet[n], row[n]>>
        /\ AnswerIs(k, r, wallet[n], row[n])
    BY <2>1, <2>3, TakeLone
  <2>5. next \in MonType
    BY <1>t, AfterType
  <2>6. CASE mon' = [mon EXCEPT ![n] = [next EXCEPT !.pc = "promoted"]]
    <3>1. mon'[n] = [next EXCEPT !.pc = "promoted"]
      BY <1>m, <2>6
    <3>2. mon'[n].pc = "promoted"
      BY <2>5, <3>1 DEF MonType
    <3> QED
      BY <3>2, LoneElse
  <2>7. CASE mon' = [mon EXCEPT ![n] = next]
    <3>1. mon'[n] = next
      BY <1>m, <2>7
    <3>2. /\ next.pc \in {"watch", "stopped"}
          /\ r.ok => next.tokens = k.tokens
          /\ ~r.ok => next.pc = "watch" /\ next.tokens = k.asked
          /\ r.ok /\ All(k.reason) /\ k.tokens = 0 => next.pc = "stopped"
          /\ next.pc = "stopped" => r.ok /\ All(k.reason) /\ k.tokens = 0
      BY <1>t, <2>1, <2>2, AfterBelieves
    <3>3. Whole(k) = All(k.reason) /\ Believed(k) = k.asked
          /\ All(k.reason) \in BOOLEAN
      BY <2>1 DEF Whole, Believed, All
    <3> HIDE DEF next
    <3>4. CASE ~r.ok
      <4>1. Fits(wallet[n], next.tokens) /\ next.pc = "watch"
        BY <2>4, <3>2, <3>3, <3>4 DEF AnswerIs
      <4> QED
        BY <2>4, <3>1, <4>1 DEF LoneOf
    <3>5. CASE r.ok /\ All(k.reason)
      <4>1. Fits(wallet[n], 0) /\ k.tokens = 0
        BY <2>1, <2>3, <2>4, <3>3, <3>5 DEF AnswerIs, Rest, Owing
      <4>3. wallet[n] = 0
        BY <1>w, <4>1 DEF Fits
      <4>2. next.pc = "stopped"
        BY <3>2, <3>5, <4>1
      <4> QED
        BY <2>4, <3>1, <4>2, <4>3 DEF LoneOf, Marked
    <3>6. CASE r.ok /\ ~All(k.reason)
      <4>1. next.pc = "watch" /\ next.tokens = Half(k.asked)
        BY <2>1, <2>3, <3>2, <3>6 DEF Owing
      <4>2. k.asked % 2 = 0 /\ Fits(wallet[n], k.asked \div 2)
        BY <2>3, <2>4, <3>3, <3>6 DEF AnswerIs, Rest
      <4>3. k.asked \div 2 = Half(k.asked)
        BY <1>t, <4>2 DEF Half
      <4> QED
        BY <2>4, <3>1, <4>1, <4>2, <4>3 DEF LoneOf
    <3> QED
      BY <3>4, <3>5, <3>6
  <2> QED
    BY <2>1, <2>6, <2>7
<1>4. CASE HearDue(n)
  <2> DEFINE r == Head(inbox[n])
  <2>1. /\ mon[n].pc = "wait_due" /\ inbox[n] # << >> /\ Take(n)
           /\ UNCHANGED unheardVars
        /\ mon' = [mon EXCEPT ![n] = IF r.ok \/ r.permanent
                                     THEN Stopped(@) ELSE [@ EXCEPT !.pc = "due"]]
        /\ LoneOf(n)
    BY <1>4 DEF HearDue, unheardVars
  <2>2. Calm(n)' /\ UNCHANGED <<wallet[n], row[n]>>
        /\ AnswerIs(mon[n], r, wallet[n], row[n])
    BY <2>1, TakeLone
  <2>3. mon'[n] = IF r.ok \/ r.permanent THEN Stopped(mon[n])
        ELSE [mon[n] EXCEPT !.pc = "due"]
    BY <1>t, <2>1
  <2>4. /\ Stopped(mon[n]).pc = "stopped" /\ [mon[n] EXCEPT !.pc = "due"].pc = "due"
        /\ [mon[n] EXCEPT !.pc = "due"].tokens = mon[n].tokens
    BY <1>t DEF Stopped, MonType
  <2>5. Rest(mon[n]) = 0 /\ Believed(mon[n]) = mon[n].tokens
    BY <2>1 DEF Rest, Whole, Believed
  <2>6. CASE r.ok \/ r.permanent
    <3>1. Marked(row[n], wallet[n])
      <4>1. CASE r.ok
        <5>1. wallet[n] = 0
          BY <1>w, <2>2, <2>5, <4>1 DEF AnswerIs, Fits
        <5> QED
          BY <5>1 DEF Marked
      <4>2. CASE ~r.ok
        BY <2>2, <2>6, <4>2 DEF AnswerIs
      <4> QED
        BY <4>1, <4>2
    <3> QED
      BY <2>2, <2>3, <2>4, <2>6, <3>1 DEF LoneOf, Marked
  <2>7. CASE ~(r.ok \/ r.permanent)
    <3>1. Fits(wallet[n], mon[n].tokens)
      BY <2>2, <2>5, <2>7 DEF AnswerIs
    <3> QED
      BY <2>2, <2>3, <2>4, <2>7, <3>1 DEF LoneOf
  <2> QED
    BY <2>6, <2>7
<1>5. CASE WaitTimesOut(n)
  <2>1. SameView(n) /\ n \notin givenUp /\ Unanswered(n) /\ n \notin misled
    BY <1>5, IdleView DEF WaitTimesOut, vars
  <2>2. UNCHANGED <<Sigs(n), inbox[n], wallet[n], row[n], Polled(n), Jobs(n)>>
    BY <2>1 DEF SameView, SameQueue
  <2>3. Calm(n)
    BY <2>1, UnansweredIsCalm
  <2>4. Calm(n)'
    BY <2>2, <2>3 DEF Calm, Busy
  <2>5. ASSUME mon[n].pc \in {"wait", "wait_due"}
        PROVE Fits(wallet[n], Believed(mon[n]))
    BY <2>1, <2>3, <2>5
       DEF LoneOf, OneExit, Calm, InChannel, InPoll, BeingSold, Answered, Nowhere
  <2>6. CASE mon[n].pc = "wait" /\ mon' = [mon EXCEPT ![n] = PutBack(@, @.reason)]
    <3>1. mon'[n] = PutBack(mon[n], mon[n].reason)
      BY <1>t, <2>6
    <3>2. mon'[n].pc = "watch" /\ mon'[n].tokens = mon[n].asked
      BY <1>t, <3>1 DEF PutBack, MonType
    <3> QED
      BY <2>2, <2>4, <2>5, <2>6, <3>2 DEF LoneOf, Believed
  <2>7. CASE mon[n].pc = "wait_due" /\ mon' = [mon EXCEPT ![n].pc = "due"]
    <3>1. mon'[n].pc = "due" /\ mon'[n].tokens = mon[n].tokens
      BY <1>t, <2>7 DEF MonType
    <3> QED
      BY <2>2, <2>4, <2>5, <2>7, <3>1 DEF LoneOf, Believed
  <2> QED
    BY <1>5, <2>6, <2>7 DEF WaitTimesOut
<1>6. CASE Fire(n) \/ Promote(n) \/ \E d \in Devs : DevDumps(n, d)
  <2>1. PICK pc \in {"fired", "promoted",
        "dumped"} : mon' = [mon EXCEPT ![n].pc = pc]
    BY <1>6 DEF Fire, Promote, DevDumps
  <2>2. mon'[n].pc = pc
    BY <1>t, <2>1 DEF MonType
  <2> QED
    BY <2>1, <2>2, LoneElse
<1>7. CASE Watcher(n)
  BY <1>7 DEF Watcher
<1> QED
  BY <1>1, <1>2, <1>3, <1>4, <1>5, <1>6, <1>7 DEF Monitor

\* A position once misled or given up stays so.
LEMMA HistoryGrows ==
  ASSUME [MonNext]_allVars
  PROVE  givenUp \subseteq givenUp' /\ misled \subseteq misled'
<1>1. ASSUME NEW n \in Mints, Monitor(n) \/ Watcher(n)
      PROVE  givenUp \subseteq givenUp' /\ misled \subseteq misled'
  BY <1>1 DEF Monitor, Watcher, Trigger, TimeStop, Hear, HearDue, WaitTimesOut,
    Fire,
     Promote, DevDumps
<1> QED
  BY <1>1 DEF MonNext, monVars, allVars

LEMMA LoneInit == MonInit => LoneInv
<1> SUFFICES ASSUME MonInit PROVE LoneInv
  OBVIOUS
<1>1. late = {}
  BY DEF MonInit, Init
<1>3. Fits(Lot, Lot)
  BY ExitAssumption, FitsExact
<1>2. ASSUME NEW m \in Mints PROVE LoneOf(m)
  <2>1. /\ exitQ = << >> /\ polling = None /\ \A t \in Tasks : task[t] = Free
        /\ inbox[m] = << >> /\ wallet[m] = Lot /\ mon[m] = Watching
    BY DEF MonInit, Init
  <2>2. Calm(m)
    BY <2>1 DEF Calm, Sigs, Queued, Polled, Busy, Jobs, On, Working, Free
  <2> QED
    BY <1>3, <2>1, <2>2 DEF LoneOf, Watching
<1> QED
  BY <1>1, <1>2 DEF LoneInv

LEMMA LoneNext ==
  ASSUME "no_fill" \notin Faults
  PROVE  AllIs /\ LoneInv /\ [MonNext]_allVars => LoneInv'
<1> SUFFICES ASSUME AllIs, LoneInv, [MonNext]_allVars PROVE LoneInv'
  OBVIOUS
<1>t. TypeIs /\ MonIs /\ ClaimInv /\ InboxIs /\ TypeIs' /\ MonIs'
      /\ ("timeout" \notin Faults => late = {})
  BY AllNext DEF AllIs, LoneInv
<1>1. ASSUME "timeout" \notin Faults PROVE late' = {}
  <2>1. ASSUME NEW n \in Mints, Monitor(n) \/ Watcher(n) PROVE UNCHANGED late
    BY <2>1 DEF Monitor, Watcher, Trigger, TimeStop, Hear, HearDue, WaitTimesOut,
      Fire,
       Promote, DevDumps, SendSignal, vars, exitVars, unheardVars
  <2>2. CASE Engine
    BY <1>t, <1>1, <2>2, LateStill
  <2>3. CASE UNCHANGED allVars
    BY <1>t, <1>1, <2>3 DEF allVars, vars, exitVars
  <2> QED
    BY <1>t, <1>1, <2>1, <2>2, <2>3 DEF MonNext
<1>2. ASSUME NEW m \in Mints, m \notin givenUp' \cup misled' PROVE LoneOf(m)'
  <2>h. m \notin givenUp /\ m \notin misled
    BY <1>2, HistoryGrows
  <2>1. LoneOf(m)
    BY <2>h DEF LoneInv
  <2>2. ASSUME NEW n \in Mints, Monitor(n) \/ Watcher(n) PROVE LoneOf(m)'
    <3>1. CASE m = n
      BY <1>t, <1>2, <2>1, <2>2, <3>1, OwnMonitorLone
    <3>2. CASE m # n
      <4>1. UNCHANGED mon[m] /\ SameView(m)
        BY <1>t, <2>2, <3>2, MonitorView DEF OneMonitor, Elsewhere
      <4> QED
        BY <2>1, <4>1, SameLone
    <3> QED
      BY <3>1, <3>2
  <2>3. CASE Engine /\ UNCHANGED monVars
    BY <1>t, <2>1, <2>3, EngineLone DEF monVars
  <2>4. CASE UNCHANGED allVars
    <3>1. SameView(m) /\ UNCHANGED mon
      BY <1>t, <2>4, IdleView DEF allVars, vars, monVars
    <3> QED
      BY <2>1, <3>1, SameLone
  <2> QED
    BY <2>2, <2>3, <2>4 DEF MonNext
<1> QED
  BY <1>1, <1>2 DEF LoneInv

(***************************************************************************)
(* "FIX: only reduce remaining_token_amount in memory AFTER signal sent"   *)
(* and "Restore token amounts so trigger can re-fire" (monitoring/mod.rs:  *)
(* 2024, 2078): with sells that either move what they were for or nothing, *)
(* and none given up that lands later, the tally at rest is the wallet,    *)
(* for any number of take-profits, refusals, retries and time stops.       *)
(***************************************************************************)
THEOREM TallyAlwaysWallet ==
  ASSUME {"no_fill", "timeout"} \cap Faults = {}
  PROVE  MonSpec => []TallyIsWallet
<1>n. "no_fill" \notin Faults /\ "timeout" \notin Faults
  OBVIOUS
<1>1. LoneInv => TallyIsWallet
  BY <1>n DEF LoneInv, TallyIsWallet, AtRest, LoneOf, Fits
<1>2. AllIs /\ LoneInv /\ [MonNext]_allVars => LoneInv'
  BY <1>n, LoneNext
<1> QED
  BY <1>1, <1>2, AllInit, AllNext, LoneInit, PTL DEF MonSpec

(***************************************************************************)
(* "Position closed -- exit monitoring loop" (monitoring/mod.rs:854): a    *)
(* monitor that stops leaves a position that is sold, or marked, or given  *)
(* up, also when its sells time out and land later; the mark needs the     *)
(* row's write to succeed.                                                 *)
(***************************************************************************)
THEOREM StoppedIsSold ==
  ASSUME {"no_fill", "row_write"} \cap Faults = {}
  PROVE  MonSpec => []StoppedMeansSold
<1>n. "no_fill" \notin Faults /\ "row_write" \notin Faults
  OBVIOUS
<1>1. LoneInv => StoppedMeansSold
  BY <1>n DEF LoneInv, StoppedMeansSold, LoneOf, Marked
<1>2. AllIs /\ LoneInv /\ [MonNext]_allVars => LoneInv'
  BY <1>n, LoneNext
<1> QED
  BY <1>1, <1>2, AllInit, AllNext, LoneInit, PTL DEF MonSpec
=============================================================================
