--------------------------- MODULE SessionBilling ---------------------------
(***************************************************************************)
(* One charging session from its creation to its settlement: the handlers  *)
(* of MeterValues, StopTransaction and StatusNotification, the listener    *)
(* for faults, the webhook of a top-up and the worker of the grace period, *)
(* all sharing the session row, the driver's wallet and the grace timer.   *)
(*                                                                         *)
(* Each of them is a chain of awaited database calls; a call is one step,  *)
(* and any other process may run between two steps.  The wallet operations *)
(* are atomic here, which WalletLedger justifies.  The charger is the      *)
(* environment: its register grows, it reports, stops, fails and repeats   *)
(* a message whose answer it did not get.                                  *)
(***************************************************************************)
EXTENDS Money, Sequences, FiniteSets

CONSTANTS
  Call,           \* the charger's messages handled at once: one if it waits for answers
  MaxMeter,       \* bound: the last reading of the register
  MaxResends,     \* bound: messages the charger repeats
  MaxTopUps,      \* bound: top-ups of the driver during the session
  Status,         \* the connector states the charger reports
  MayFault,       \* the charger may report an error
  MayFail,        \* database calls may fail, the process may crash
  SendsData,      \* the charger may report readings it took earlier
  Users, Presets, \* what createSession is given: a user or none, a budget or 0
  MeterStart,     \* reading at the start of the session
  Price,          \* price of a Wh in 1/1000 cent (of a kWh in cents)
  Opening, OtherLock,           \* wallet: balance, reserved for other sessions
  GraceThreshold, LowThreshold, \* cents
  TopUp                         \* cents

ASSUME SessionAssumption ==
  /\ {MaxMeter, MaxResends, MaxTopUps, MeterStart, Price, Opening,
      OtherLock, GraceThreshold, LowThreshold, TopUp} \subseteq Nat
  /\ {MayFault, MayFail, SendsData} \subseteq BOOLEAN
  /\ Users \subseteq BOOLEAN /\ Presets \subseteq Nat
  /\ MeterStart <= MaxMeter
  /\ \A p \in Presets : p + OtherLock <= Opening
  /\ Status \subseteq {"CHARGING", "SUSPENDED", "FINISHING", "FAULTED", "AVAILABLE"}

VARIABLES
  session,    \* the ChargingSession row
  wallet,     \* the driver's wallet: balance and locked
  ledger,     \* ledger entries of this session
  timer,      \* status of the GracePeriodJob row
  job,        \* the BullMQ job of the grace period
  active,     \* the charger state names this transaction
  pc,         \* pc[c]: the call the handler makes next
  msg,        \* msg[c]: the message it handles
  left,       \* left[c]: the readings of the message it has still to bill
  row,        \* row[c]: its copy of the session row
  after,      \* after[c]: wallet balance after its deduction, 0 if it had none
  fault,      \* the listener of session:faulted, with its copy of the row
  webhook,    \* the handler of a paid notification
  worker,     \* the grace worker
  meter, charging, stopAsked,   \* the charger: register, contactor, RemoteStop
  last, resends,                \* the message it may repeat, and how often it did
  charged, repriced, topUps     \* what happened: cents taken, a total written at a fault

tables  == <<session, wallet, ledger, timer, job>>
locals  == <<msg, left, row, after>>
others  == <<fault, webhook, worker>>
charger == <<meter, charging, last, resends>>
history == <<charged, repriced, topUps>>
vars == <<tables, active, pc, locals, others, charger, stopAsked, history>>

SessionRow ==
  [user : BOOLEAN, preset : Nat, ended : BOOLEAN, grace : BOOLEAN,
   status : {"CHARGING", "SUSPENDED", "FINISHING", "COMPLETED", "FAULTED"},
   lastBilled : Nat, energyUsed : Nat, totalCost : Nat, owner : Nat, commission : Nat]

Nothing == [kind |-> "none", readings |-> <<>>, status |-> "AVAILABLE", error |-> FALSE]

Message ==
  [kind : {"none", "MeterValues", "StopTransaction", "StatusNotification"},
   readings : Seq(0..MaxMeter),
   status : Status \cup {"AVAILABLE"}, error : BOOLEAN]

BillingStep == {"read", "stats", "deduct", "update", "startGrace", "markGrace",
                "cancelGrace", "preset"}
SettleStep  == {"settle", "settleCancel", "clearGrace", "postUser", "createUser",
                "postOwner", "postCommission", "unlock"}
Step == {"idle", "meter", "find", "status", "setStatus", "finalize", "close", "reset"}
          \cup BillingStep \cup SettleStep

TypeOK ==
  /\ session \in SessionRow
  /\ wallet \in [balance : Nat, locked : Nat]
  /\ ledger \subseteq [key : {"user", "owner", "commission"}, amount : Nat]
  /\ timer \in {"NONE", "ACTIVE", "CANCELLED", "EXECUTED"}
  /\ job \in {"none", "delayed", "taken"}
  /\ active \in BOOLEAN
  /\ pc \in [Call -> Step]
  /\ msg \in [Call -> Message]
  /\ left \in [Call -> Seq(0..MaxMeter)]
  /\ row \in [Call -> SessionRow]
  /\ after \in [Call -> Nat]
  /\ fault \in [pc : {"idle", "read", "refund", "close"}, row : SessionRow]
  /\ webhook \in {"idle", "find", "cancel", "clear"}
  /\ worker \in {"idle", "check", "stop", "end", "executed"}
  /\ meter \in MeterStart..MaxMeter
  /\ charging \in BOOLEAN /\ stopAsked \in BOOLEAN
  /\ last \in Message
  /\ resends \in 0..MaxResends
  /\ charged \in Nat /\ repriced \in BOOLEAN /\ topUps \in 0..MaxTopUps

-----------------------------------------------------------------------------
\* Amounts

Max0(x) == IF x > 0 THEN x ELSE 0

\* x/d cents as toFixed(2) stores it, for x >= 0.
Cents(x, d) == (2 * x + d) \div (2 * d)

\* calculateEnergyCost, stored; and before it is rounded, in 1/1000 cent.
EnergyCost(wh) == Cents(wh * Price, 1000)
ExactCost(wh) == wh * Price

\* calculateEarningsSplit of the unrounded cost.
CommissionOf(wh) == Cents(wh * Price * CommissionRate, 10000000)
OwnerOf(wh) == Cents(wh * Price * (10000 - CommissionRate), 10000000)

\* Mutant: every reading is billed from the start of the session.
LastBilledNever(s) == MeterStart

\* session.lastBilledWh || session.meterStartWh
LastBilled(s) == IF s.lastBilled # 0 THEN s.lastBilled ELSE MeterStart

KeyUsed(key) == \E e \in ledger : e.key = key

Post(key, amount) == ledger' = ledger \cup {[key |-> key, amount |-> amount]}

-----------------------------------------------------------------------------
\* Handlers

Goto(c, step) == pc' = [pc EXCEPT ![c] = step]

Blank == [user |-> FALSE, preset |-> 0, ended |-> FALSE, grace |-> FALSE,
          status |-> "CHARGING", lastBilled |-> 0, energyUsed |-> 0,
          totalCost |-> 0, owner |-> 0, commission |-> 0]

\* The handler answers the charger.
Reply(c) ==
  /\ Goto(c, "idle")
  /\ msg' = [msg EXCEPT ![c] = Nothing]
  /\ left' = [left EXCEPT ![c] = <<>>]
  /\ row' = [row EXCEPT ![c] = Blank]
  /\ after' = [after EXCEPT ![c] = 0]

\* processMeterValuesBilling returns: on to the next reading, to
\* finalizeSession, or to the answer.
BillingReturns(c) ==
  IF Len(left[c]) > 1
  THEN /\ Goto(c, "read")
       /\ left' = [left EXCEPT ![c] = Tail(@)]
       /\ after' = [after EXCEPT ![c] = 0]
       /\ UNCHANGED <<msg, row>>
  ELSE IF msg[c].kind = "StopTransaction"
  THEN /\ Goto(c, "finalize")
       /\ after' = [after EXCEPT ![c] = 0]
       /\ UNCHANGED <<msg, left, row>>
  ELSE Reply(c)

\* c copies the row and goes on.
ReadRow(c, step) ==
  /\ row' = [row EXCEPT ![c] = session]
  /\ Goto(c, step)
  /\ UNCHANGED <<msg, left, after>>

Continue(c, step) == Goto(c, step) /\ UNCHANGED locals

-----------------------------------------------------------------------------
\* The grace timer.  startGracePeriod does nothing if one is active; a job that
\* is already running cannot be removed, and its id is taken.
StartTimer ==
  /\ timer' = "ACTIVE"
  /\ job' = IF timer # "ACTIVE" /\ job = "none" THEN "delayed" ELSE job

CancelTimer ==
  /\ timer' = IF timer = "ACTIVE" THEN "CANCELLED" ELSE timer
  /\ job' = IF timer = "ACTIVE" /\ job = "delayed" THEN "none" ELSE job

-----------------------------------------------------------------------------
\* The charger sends a message

FirstStep(m) ==
  CASE m.kind = "MeterValues"     -> IF active THEN "meter" ELSE "idle"
    [] m.kind = "StopTransaction" -> "read"
    [] m.kind = "StatusNotification" ->
         IF m.status = "FAULTED" \/ m.error THEN "find" ELSE "status"

Deliver(c, m) ==
  /\ pc[c] = "idle"
  /\ Goto(c, FirstStep(m))
  /\ IF FirstStep(m) = "idle" THEN UNCHANGED <<msg, left>>
     ELSE /\ msg' = [msg EXCEPT ![c] = m]
          /\ left' = [left EXCEPT ![c] = m.readings]
  /\ UNCHANGED <<tables, active, row, after, others, stopAsked, history>>

Charge ==
  /\ charging /\ meter < MaxMeter
  /\ meter' = meter + 1
  /\ UNCHANGED <<tables, active, pc, locals, others, charging, last, resends, stopAsked, history>>

\* Only a message that may still be repeated is remembered.
Remember(m) == last' = IF resends' < MaxResends THEN m ELSE Nothing

Earlier == IF SendsData THEN MeterStart..meter ELSE {}

SendMeterValues(c) ==
  /\ charging /\ UNCHANGED resends
  /\ \E w \in {meter} \cup Earlier :
       LET m == [Nothing EXCEPT !.kind = "MeterValues", !.readings = <<w>>]
       IN Deliver(c, m) /\ Remember(m)
  /\ UNCHANGED <<meter, charging>>

SendStop(c) ==
  /\ charging /\ UNCHANGED resends
  /\ charging' = FALSE
  /\ \E data \in {<<>>} \cup {<<w>> : w \in Earlier} :
       LET m == [Nothing EXCEPT !.kind = "StopTransaction", !.readings = Append(data, meter)]
       IN Deliver(c, m) /\ Remember(m)
  /\ UNCHANGED meter

SendStatus(c) ==
  /\ \E s \in Status, e \in BOOLEAN :
       /\ s = "FAULTED" => e
       /\ e => MayFault
       /\ Deliver(c, [Nothing EXCEPT !.kind = "StatusNotification", !.status = s, !.error = e])
  /\ UNCHANGED charger

\* No answer came: the message is sent again, on this connection or the next.
Resend(c) ==
  /\ resends < MaxResends /\ last # Nothing
  /\ Deliver(c, last)
  /\ resends' = resends + 1
  /\ Remember(last)
  /\ UNCHANGED <<meter, charging>>

-----------------------------------------------------------------------------
\* MeterValues and the billing of a reading

Reading(c) == Head(left[c])
NewEnergy(c) == Reading(c) - LastBilled(row[c])

\* updateSessionMeter
UpdateSessionMeter(c) ==
  /\ pc[c] = "meter"
  /\ session' = [session EXCEPT !.energyUsed = Max0(Reading(c) - MeterStart)]
  /\ Continue(c, "read")
  /\ UNCHANGED <<wallet, ledger, timer, job, active, others, charger, stopAsked, history>>

BillingRead(c) ==
  LET wh == Reading(c) - LastBilled(session)
  IN /\ pc[c] = "read"
     /\ IF wh <= 0 \/ (session.user /\ ExactCost(wh) = 0) THEN BillingReturns(c)
        ELSE ReadRow(c, IF session.user THEN "deduct" ELSE "stats")
     /\ UNCHANGED <<tables, active, others, charger, stopAsked, history>>

\* A session without a user is metered and priced, not charged.
BillingStats(c) ==
  /\ pc[c] = "stats"
  /\ session' = [session EXCEPT
         !.lastBilled = Reading(c),
         !.energyUsed = Reading(c) - MeterStart,
         !.totalCost  = row[c].totalCost + EnergyCost(NewEnergy(c))]
  /\ BillingReturns(c)
  /\ UNCHANGED <<wallet, ledger, timer, job, active, others, charger, stopAsked, history>>

\* Mutant: reserved funds are counted twice.
CanPayLocked(cost) == wallet.balance + wallet.locked >= cost

CanPay(cost) == wallet.balance >= cost

\* Mutant: what the wallet could not pay is recorded as billed all the same.
DeductOnCredit(c) ==
  LET cost == EnergyCost(NewEnergy(c))
  IN /\ pc[c] = "deduct"
     /\ IF wallet.balance >= cost
        THEN wallet' = [wallet EXCEPT !.balance = @ - cost] /\ charged' = charged + cost
        ELSE UNCHANGED <<wallet, charged>>
     /\ Continue(c, "update")
     /\ UNCHANGED <<session, ledger, timer, job, active, others, charger, stopAsked, repriced, topUps>>

\* deductForCharging.  It can throw without an effect, and after the commit.
Deduct(c) ==
  LET cost == EnergyCost(NewEnergy(c))
  IN /\ pc[c] = "deduct"
     /\ \/ /\ cost = 0
           /\ Continue(c, "update")
           /\ UNCHANGED <<wallet, charged>>
        \/ /\ cost > 0 /\ CanPay(cost)
           /\ wallet' = [wallet EXCEPT !.balance = @ - cost]
           /\ charged' = charged + cost
           /\ \/ /\ Goto(c, "update")
                 /\ after' = [after EXCEPT ![c] = wallet.balance - cost]
                 /\ UNCHANGED <<msg, left, row>>
              \/ MayFail /\ BillingReturns(c)
        \/ /\ ~CanPay(cost)
           /\ IF row[c].grace THEN BillingReturns(c) ELSE Continue(c, "startGrace")
           /\ UNCHANGED <<wallet, charged>>
        \/ BillingReturns(c) /\ UNCHANGED <<wallet, charged>>
     /\ UNCHANGED <<session, ledger, timer, job, active, others, charger, stopAsked, repriced, topUps>>

\* Mutant: the total is incremented in the table, the rest comes from the copy.
BillingUpdateIncrement(c) ==
  LET wh == NewEnergy(c)
  IN /\ pc[c] = "update"
     /\ session' = [session EXCEPT
            !.lastBilled = Reading(c),
            !.energyUsed = Reading(c) - MeterStart,
            !.totalCost  = @ + EnergyCost(wh),
            !.owner      = row[c].owner + OwnerOf(wh),
            !.commission = row[c].commission + CommissionOf(wh)]
     /\ BillingReturns(c)
     /\ UNCHANGED <<wallet, ledger, timer, job, active, others, charger, stopAsked, history>>

\* The row is written from the copy, and the new balance is compared with the
\* thresholds.  When nothing was deducted there is no balance to compare.
BillingUpdate(c) ==
  LET wh  == NewEnergy(c)
      bal == after[c]
  IN /\ pc[c] = "update"
     /\ session' = [session EXCEPT
            !.lastBilled = Reading(c),
            !.energyUsed = Reading(c) - MeterStart,
            !.totalCost  = row[c].totalCost + EnergyCost(wh),
            !.owner      = row[c].owner + OwnerOf(wh),
            !.commission = row[c].commission + CommissionOf(wh)]
     /\ IF EnergyCost(wh) = 0 THEN BillingReturns(c)
        ELSE Continue(c,
               IF bal > 0 /\ bal <= GraceThreshold /\ ~row[c].grace THEN "startGrace"
               ELSE IF bal > GraceThreshold /\ bal > LowThreshold THEN "cancelGrace"
               ELSE "preset")
     /\ UNCHANGED <<wallet, ledger, timer, job, active, others, charger, stopAsked, history>>

StartGrace(c) ==
  /\ pc[c] = "startGrace"
  /\ StartTimer
  /\ Continue(c, "markGrace")
  /\ UNCHANGED <<session, wallet, ledger, active, others, charger, stopAsked, history>>

\* handleInsufficientFunds ends here.
MarkGrace(c) ==
  /\ pc[c] = "markGrace"
  /\ session' = [session EXCEPT !.grace = TRUE]
  /\ IF after[c] = 0 THEN BillingReturns(c) ELSE Continue(c, "preset")
  /\ UNCHANGED <<wallet, ledger, timer, job, active, others, charger, stopAsked, history>>

CancelGrace(c) ==
  /\ pc[c] = "cancelGrace"
  /\ CancelTimer
  /\ Continue(c, "preset")
  /\ UNCHANGED <<session, wallet, ledger, active, others, charger, stopAsked, history>>

\* RemoteStopTransaction, not awaited; the charger may be offline or refuse.
PresetCheck(c) ==
  /\ pc[c] = "preset"
  /\ IF /\ row[c].preset > 0 /\ charging
        /\ 1000 * row[c].totalCost + ExactCost(NewEnergy(c)) >= 1000 * row[c].preset
     THEN stopAsked' \in {stopAsked, TRUE}
     ELSE UNCHANGED stopAsked
  /\ BillingReturns(c)
  /\ UNCHANGED <<tables, active, others, charger, history>>

-----------------------------------------------------------------------------
\* StopTransaction

MeterStop(c) == msg[c].readings[Len(msg[c].readings)]

\* Mutant: a session that has ended is taken to be settled.
FinalizeReadOnce(c) ==
  /\ pc[c] = "finalize"
  /\ Continue(c, IF session.ended THEN "reset" ELSE "close")
  /\ UNCHANGED <<tables, active, others, charger, stopAsked, history>>

\* finalizeSession
FinalizeRead(c) ==
  /\ pc[c] = "finalize"
  /\ Continue(c, IF session.ended THEN "settle" ELSE "close")
  /\ UNCHANGED <<tables, active, others, charger, stopAsked, history>>

FinalizeClose(c) ==
  /\ pc[c] = "close"
  /\ session' = [session EXCEPT !.ended = TRUE, !.status = "COMPLETED",
                                !.energyUsed = Max0(MeterStop(c) - MeterStart)]
  /\ Continue(c, "settle")
  /\ UNCHANGED <<wallet, ledger, timer, job, active, others, charger, stopAsked, history>>

\* finalizeSessionBilling
Settle(c) ==
  /\ pc[c] = "settle"
  /\ ReadRow(c, "settleCancel")
  /\ UNCHANGED <<tables, active, others, charger, stopAsked, history>>

SettleCancel(c) ==
  /\ pc[c] = "settleCancel"
  /\ CancelTimer
  /\ Continue(c, "clearGrace")
  /\ UNCHANGED <<session, wallet, ledger, active, others, charger, stopAsked, history>>

ClearGrace(c) ==
  /\ pc[c] = "clearGrace"
  /\ session' = [session EXCEPT !.grace = FALSE]
  /\ Continue(c, IF row[c].totalCost > 0 /\ row[c].user THEN "postUser" ELSE "unlock")
  /\ UNCHANGED <<wallet, ledger, timer, job, active, others, charger, stopAsked, history>>

PostUser(c) ==
  /\ pc[c] = "postUser"
  /\ Continue(c, IF KeyUsed("user") THEN "postOwner" ELSE "createUser")
  /\ UNCHANGED <<tables, active, others, charger, stopAsked, history>>

\* The key is unique: a second insert throws and ends finalizeSessionBilling.
CreateUser(c) ==
  /\ pc[c] = "createUser"
  /\ IF KeyUsed("user")
     THEN Continue(c, "reset") /\ UNCHANGED ledger
     ELSE Continue(c, "postOwner") /\ Post("user", row[c].totalCost)
  /\ UNCHANGED <<session, wallet, timer, job, active, others, charger, stopAsked, history>>

\* recordOwnerEarning and recordCommission look their key up themselves.
PostShare(c, step, key, amount, next) ==
  /\ pc[c] = step
  /\ IF amount > 0 /\ ~KeyUsed(key) THEN Post(key, amount) ELSE UNCHANGED ledger
  /\ Continue(c, next)
  /\ UNCHANGED <<session, wallet, timer, job, active, others, charger, stopAsked, history>>

PostOwner(c) == PostShare(c, "postOwner", "owner", row[c].owner, "postCommission")
PostCommission(c) == PostShare(c, "postCommission", "commission", row[c].commission, "unlock")

\* Mutant: what the session has spent stays locked.
UnlockUnspent(c) ==
  /\ pc[c] = "unlock"
  /\ wallet' = IF row[c].user
               THEN [wallet EXCEPT !.locked = Max0(@ - Max0(row[c].preset - row[c].totalCost))]
               ELSE wallet
  /\ Continue(c, "reset")
  /\ UNCHANGED <<session, ledger, timer, job, active, others, charger, stopAsked, history>>

\* unlockFunds of the whole budget
Unlock(c) ==
  /\ pc[c] = "unlock"
  /\ wallet' = IF row[c].user THEN [wallet EXCEPT !.locked = Max0(@ - row[c].preset)]
               ELSE wallet
  /\ Continue(c, "reset")
  /\ UNCHANGED <<session, ledger, timer, job, active, others, charger, stopAsked, history>>

ResetState(c) ==
  /\ pc[c] = "reset"
  /\ active' = FALSE
  /\ Reply(c)
  /\ UNCHANGED <<tables, others, charger, stopAsked, history>>

-----------------------------------------------------------------------------
\* StatusNotification

\* handleFault; the listener runs on its own.  Bound: one listener at a time.
FindFaulted(c) ==
  /\ pc[c] = "find"
  /\ IF session.ended THEN UNCHANGED fault
     ELSE fault.pc = "idle" /\ fault' = [fault EXCEPT !.pc = "read"]
  /\ Continue(c, "status")
  /\ UNCHANGED <<tables, active, webhook, worker, charger, stopAsked, history>>

\* getActiveSession and the check of updateSessionStatus
StatusRead(c) ==
  /\ pc[c] = "status"
  /\ IF session.ended \/ msg[c].status = "AVAILABLE" \/ session.status \in {"COMPLETED", "FAULTED"}
     THEN Reply(c)
     ELSE Continue(c, "setStatus")
  /\ UNCHANGED <<tables, active, others, charger, stopAsked, history>>

SetStatus(c) ==
  /\ pc[c] = "setStatus"
  /\ session' = [session EXCEPT !.status = msg[c].status]
  /\ Reply(c)
  /\ UNCHANGED <<wallet, ledger, timer, job, active, others, charger, stopAsked, history>>

-----------------------------------------------------------------------------
\* handleSessionFault

\* In 1/1000 cent.
Overcharge(s) == 1000 * s.totalCost - ExactCost(s.energyUsed)

FaultRead ==
  /\ fault.pc = "read"
  /\ fault' = IF session.ended THEN [pc |-> "idle", row |-> Blank]
              ELSE [pc |-> IF Overcharge(session) > 0 /\ session.user THEN "refund" ELSE "close",
                    row |-> session]
  /\ UNCHANGED <<tables, active, pc, locals, webhook, worker, charger, stopAsked, history>>

\* processRefund always throws: it writes transactionId, a number, into referenceId
\* of the ledger, a string, which the client of the database refuses, and the update
\* of the wallet is rolled back.  The listener ends.
FaultRefund ==
  /\ fault.pc = "refund"
  /\ fault' = [pc |-> "idle", row |-> Blank]
  /\ UNCHANGED <<tables, active, pc, locals, webhook, worker, charger, stopAsked, history>>

FaultClose ==
  /\ fault.pc = "close"
  /\ session' = [session EXCEPT !.ended = TRUE, !.status = "FAULTED",
                                !.totalCost = EnergyCost(fault.row.energyUsed)]
  /\ repriced' = TRUE
  /\ fault' = [pc |-> "idle", row |-> Blank]
  /\ UNCHANGED <<wallet, ledger, timer, job, active, pc, locals, webhook, worker, charger, stopAsked, charged, topUps>>

-----------------------------------------------------------------------------
\* The webhook of a payment: topUp, then handleWalletTopUpDuringSession.

WebhookTopUp ==
  /\ webhook = "idle" /\ session.user /\ topUps < MaxTopUps
  /\ wallet' = [wallet EXCEPT !.balance = @ + TopUp]
  /\ topUps' = topUps + 1
  /\ webhook' = "find"
  /\ UNCHANGED <<session, ledger, timer, job, active, pc, locals, fault, worker, charger, stopAsked, charged, repriced>>

WebhookFind ==
  /\ webhook = "find"
  /\ webhook' = IF ~session.ended /\ session.grace THEN "cancel" ELSE "idle"
  /\ UNCHANGED <<tables, active, pc, locals, fault, worker, charger, stopAsked, history>>

WebhookCancel ==
  /\ webhook = "cancel"
  /\ CancelTimer
  /\ webhook' = "clear"
  /\ UNCHANGED <<session, wallet, ledger, active, pc, locals, fault, worker, charger, stopAsked, history>>

WebhookClear ==
  /\ webhook = "clear"
  /\ session' = [session EXCEPT !.grace = FALSE]
  /\ webhook' = "idle"
  /\ UNCHANGED <<wallet, ledger, timer, job, active, pc, locals, fault, worker, charger, stopAsked, history>>

-----------------------------------------------------------------------------
\* The grace worker

WorkerTake ==
  /\ job = "delayed" /\ worker = "idle"
  /\ IF session.ended THEN job' = "none" /\ UNCHANGED worker
     ELSE job' = "taken" /\ worker' = "check"
  /\ UNCHANGED <<session, wallet, ledger, timer, active, pc, locals, fault, webhook, charger, stopAsked, history>>

WorkerCheck ==
  /\ worker = "check"
  /\ IF timer = "CANCELLED" THEN job' = "none" /\ worker' = "idle"
     ELSE worker' = "stop" /\ UNCHANGED job
  /\ UNCHANGED <<session, wallet, ledger, timer, active, pc, locals, fault, webhook, charger, stopAsked, history>>

\* forceStopForGrace: the charger accepts, or refuses or is offline.
WorkerStop ==
  /\ worker = "stop"
  /\ \/ charging /\ stopAsked' = TRUE /\ worker' = "end"
     \/ worker' = "executed" /\ UNCHANGED stopAsked
  /\ UNCHANGED <<tables, active, pc, locals, fault, webhook, charger, history>>

WorkerEnd ==
  /\ worker = "end"
  /\ session' = [session EXCEPT !.ended = TRUE]
  /\ worker' = "executed"
  /\ UNCHANGED <<wallet, ledger, timer, job, active, pc, locals, fault, webhook, charger, stopAsked, history>>

\* markGraceExecuted, and the job completes.
WorkerExecuted ==
  /\ worker = "executed"
  /\ timer' = "EXECUTED"
  /\ job' = "none"
  /\ worker' = "idle"
  /\ UNCHANGED <<session, wallet, ledger, active, pc, locals, fault, webhook, charger, stopAsked, history>>

-----------------------------------------------------------------------------
\* Failures

\* A database call of the handler throws.  Every part of it has its own catch:
\* the live meter and billing are logged and left, an error of finalizeSession
\* resets the charger state, one of finalizeSessionBilling skips what is left
\* of it, and a status update is given up.
Throws(c) ==
  /\ MayFail
  /\ \/ pc[c] = "meter" /\ Continue(c, "read") /\ UNCHANGED active
     \/ pc[c] \in BillingStep /\ BillingReturns(c) /\ UNCHANGED active
     \/ pc[c] \in {"finalize", "close"} /\ Reply(c) /\ active' = FALSE
     \/ pc[c] \in SettleStep /\ Continue(c, "reset") /\ UNCHANGED active
     \/ pc[c] \in {"find", "status", "setStatus"} /\ Reply(c) /\ UNCHANGED active
  /\ UNCHANGED <<tables, others, charger, stopAsked, history>>

\* The listener and the webhook log the error; the worker's job is retried.
OtherThrows ==
  /\ MayFail
  /\ \/ /\ fault.pc # "idle" /\ fault' = [pc |-> "idle", row |-> Blank]
        /\ UNCHANGED <<webhook, worker, job>>
     \/ /\ webhook # "idle" /\ webhook' = "idle"
        /\ UNCHANGED <<fault, worker, job>>
     \/ /\ worker # "idle" /\ worker' = "idle" /\ job' = "delayed"
        /\ UNCHANGED <<fault, webhook>>
  /\ UNCHANGED <<session, wallet, ledger, timer, active, pc, locals, charger, stopAsked, history>>

\* The process dies: what was running is lost, the tables and the charger state
\* are kept, and BullMQ hands a job that was being processed out again.
Crash ==
  /\ MayFail
  /\ pc' = [c \in Call |-> "idle"]
  /\ msg' = [c \in Call |-> Nothing]
  /\ left' = [c \in Call |-> <<>>]
  /\ row' = [c \in Call |-> Blank]
  /\ after' = [c \in Call |-> 0]
  /\ fault' = [pc |-> "idle", row |-> Blank]
  /\ webhook' = "idle"
  /\ worker' = "idle"
  /\ job' = IF job = "taken" THEN "delayed" ELSE job
  /\ UNCHANGED <<session, wallet, ledger, timer, active, charger, stopAsked, history>>

-----------------------------------------------------------------------------
Init ==
  /\ \E u \in Users, p \in Presets :
       /\ u \/ p = 0
       /\ session = [user |-> u, preset |-> p, ended |-> FALSE, grace |-> FALSE,
                     status |-> "CHARGING", lastBilled |-> MeterStart, energyUsed |-> 0,
                     totalCost |-> 0, owner |-> 0, commission |-> 0]
       /\ wallet = [balance |-> Opening, locked |-> OtherLock + p]
  /\ ledger = {}
  /\ timer = "NONE" /\ job = "none"
  /\ active = TRUE
  /\ pc = [c \in Call |-> "idle"]
  /\ msg = [c \in Call |-> Nothing]
  /\ left = [c \in Call |-> <<>>]
  /\ row = [c \in Call |-> Blank]
  /\ after = [c \in Call |-> 0]
  /\ fault = [pc |-> "idle", row |-> Blank]
  /\ webhook = "idle" /\ worker = "idle"
  /\ meter = MeterStart /\ charging = TRUE /\ stopAsked = FALSE
  /\ last = Nothing /\ resends = 0
  /\ charged = 0 /\ repriced = FALSE /\ topUps = 0

Billing(c) ==
  \/ UpdateSessionMeter(c) \/ BillingRead(c) \/ BillingStats(c) \/ Deduct(c) \/ BillingUpdate(c)
  \/ StartGrace(c) \/ MarkGrace(c) \/ CancelGrace(c) \/ PresetCheck(c)

Stopping(c) ==
  \/ FinalizeRead(c) \/ FinalizeClose(c) \/ Settle(c) \/ SettleCancel(c) \/ ClearGrace(c)
  \/ PostUser(c) \/ CreateUser(c) \/ PostOwner(c) \/ PostCommission(c) \/ Unlock(c) \/ ResetState(c)

Notified(c) == FindFaulted(c) \/ StatusRead(c) \/ SetStatus(c)

Proceed(c) == Billing(c) \/ Stopping(c) \/ Notified(c)

Send(c) == SendMeterValues(c) \/ SendStop(c) \/ SendStatus(c) \/ Resend(c)

Listener == FaultRead \/ FaultRefund \/ FaultClose

Webhook == WebhookTopUp \/ WebhookFind \/ WebhookCancel \/ WebhookClear

GraceWorker == WorkerTake \/ WorkerCheck \/ WorkerStop \/ WorkerEnd \/ WorkerExecuted

Next ==
  \/ \E c \in Call : Send(c) \/ Proceed(c) \/ Throws(c)
  \/ Charge \/ Listener \/ Webhook \/ GraceWorker \/ OtherThrows \/ Crash

Spec == Init /\ [][Next]_vars

FairSpec == Spec /\ WF_vars(Listener) /\ \A c \in Call : WF_vars(Proceed(c))

-----------------------------------------------------------------------------
\* Properties

\* Under the request/response discipline billing is a meter that bills every
\* interval once and at its price: the deduction is the moment of billing, and
\* the row that still has to be written is already decided.  (billing.service.js,
\* "Duplicate billing is prevented by the lastBilledWh check".)
Deducted == {c \in Call : pc[c] = "update" /\ left[c] # <<>>}

Meter == INSTANCE Tariff WITH
  billed <- IF Deducted = {} THEN session.lastBilled ELSE Reading(CHOOSE c \in Deducted : TRUE),
  taken  <- charged

ImplementsTariff == Meter!Spec

\* Nothing is on record that was not taken: the total of the session and its
\* consolidated debit are covered by deductions, with any number of handlers at
\* once and whatever calls fail, until handleSessionFault writes a total of its own.
RecordedWasTaken ==
  session.user /\ ~repriced =>
    /\ session.totalCost <= charged
    /\ \A e \in ledger : e.key = "user" => e.amount <= charged

\* The total is the price of what the row says is billed, although both are
\* written from a copy that may be stale, until a fault ends the session with the
\* price of what was delivered.
TotalIsPriced == ~repriced => 1000 * session.totalCost = ExactCost(session.lastBilled - MeterStart)

\* The charger has stopped and was answered, and nothing is running.
Settled ==
  /\ ~charging /\ ~active
  /\ \A c \in Call : pc[c] = "idle"
  /\ fault.pc = "idle"

\* The consolidated debit is what was taken from the wallet while charging, unless a
\* fault has written a total of its own.
SettledRecordsMoney ==
  Settled /\ session.user /\ ~repriced /\ charged > 0 =>
    [key |-> "user", amount |-> charged] \in ledger

\* A settled session holds no reservation, and takes none of another session.
ReservationReleased == Settled => wallet.locked = OtherLock

\* What handleSessionFault documents ("1. Stop the session ... 3. Refund any overcharged
\* amount"): a listener that took up a fault ends the session.
FaultsEndTheSession ==
  [][fault.pc # "idle" /\ fault'.pc = "idle" => session'.ended]_vars

\* A StopTransaction is handled to its end: the session is over and, if it cost
\* anything, on the books, unless a fault wrote the cost while it was handled.
StopsAreSettled ==
  \A c \in Call : msg[c].kind = "StopTransaction" ~>
    /\ session.ended
    /\ session.user /\ ~repriced /\ session.totalCost > 0 => KeyUsed("user")
=============================================================================
