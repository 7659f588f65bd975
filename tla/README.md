# Verification of the LANKA-EV+ backend

TLA+ models of the charging backend under `src/`, the TLC runs that check them,
and theorems about them proved with TLAPS.  File names below are relative to
the repository root; `services/` stands for `src/services/`.

## 1. The system

One Node.js process serves an HTTP API (Express), an OCPP 1.6 WebSocket server
for the chargers, and BullMQ workers; state lives in MySQL (through Prisma), in
Redis (locks, slots, job queues) and in process memory (charger states, calls
in flight).  JavaScript runs one callback at a time, so a handler is atomic
between two `await`s and everything else can happen at each `await`.  The
WebSocket callback is `async`: two messages of the same charger are handled
concurrently.

| component | state | operations | interacts with |
|---|---|---|---|
| wallet and ledger (`services/wallet.service.js`, `services/ledger.service.js`) | `Wallet` rows (balance, lockedBalance, version), append-only `Ledger` rows with unique keys | top-up, deduct, refund, release, lock, unlock, compensate, owner earning, commission | called by billing, payment, booking, session, charger API |
| session and billing (`services/session.service.js`, `services/billing.service.js`, `src/ocpp/handlers/*`) | `ChargingSession` rows (lastBilledWh, totals, status, endedAt, graceStartedAt) | create, meter update and billing, finalise, fault, offline replay | wallet, grace period, OCPP commands |
| grace period (`services/gracePeriod.service.js`, `src/workers/graceWorker.js`) | `GracePeriodJob` rows, delayed BullMQ jobs | start, cancel, worker fires | billing, remote stop |
| connector locks and slots (`services/connectorLock.service.js`) | Redis keys with TTL | acquire, release, reserve slots, mark charging | booking, charger API, OCPP handlers |
| bookings (`services/booking.service.js`, `services/bookingQueue.service.js`, `src/workers/bookingWorker.js`) | `Booking` rows, delayed jobs | create, cancel, use, expire with penalty, activation/expiry jobs | slots, wallet, OCPP ReserveNow |
| OCPP calls (`src/ocpp/messageQueue.js`, `src/ocpp/ocppServer.js`) | pending call map with timers, map of connected chargers | send call, result, error, timeout, connect, disconnect | commands, handlers |
| charger state and session start (`services/chargerStore.service.js`, `services/chargerRuntime.service.js`, `src/utils/generateTransactionId.js`) | in-memory state per charger, persisted copy, transaction counter | update, persist, generate id; StartTransaction, MeterValues, StopTransaction, start and stop by the app | all OCPP handlers |
| sign-in (`src/middleware/auth.middleware.js`) | `User` rows, the wallet of a new user | verify a token: find, link or make the user | every request of the app |
| payments (`services/payhere.service.js`, `src/api/payment.controller.js`) | `Payment` rows | initiate, webhook, cancel page | wallet top-up |
| settlement (`services/settlement.service.js`, `src/workers/settlementWorker.js`) | `Settlement` rows and their items | generate by cron or by an admin, mark paid or failed, record a payment | ledger |
| HTTP controllers, routes, administration, notification, Firebase, configuration | none of their own, or a third party's | validation, formatting, delivery | everything |

What makes each of them correct, and what is hard about it:

* **Wallet and ledger.** No update may be lost when two handlers write one
  wallet, a request delivered twice moves money once, a multi-wallet transfer
  is all or nothing, drivers stay prepaid, reservations are covered.  Hard
  because the code relies on a `version` in a WHERE clause and on a unique
  column rather than on locks.
* **Session and billing.** Each watt-hour is billed once, whatever the order
  of MeterValues, StopTransaction, faults and reconnections; the recorded
  totals equal what was taken from the wallet.  Hard because the session row is
  read, several awaited calls are made, and the row is written from the copy.
* **Grace period.** The grace timer stops charging when the money has run out
  and never after it was topped up; the stop eventually happens.  Hard because
  of the race between the worker and the cancel.
* **Connector locks, bookings.** A connector and a slot have one holder; an
  expired or cancelled booking gives its slots back; a penalty is taken once.
  Hard because of Redis TTLs, rollbacks of partly made reservations and jobs
  that race with the user.
* **OCPP calls.** Each call ends exactly once (answer, error, timeout or
  disconnect); an old socket's close does not remove a newer connection.
* **Charger state, session start.** A transaction id is used once, a reading
  and a stop concern the session the charger means, a lock follows its session.
  Hard because the state holds one transaction per charger, is updated by
  handlers that nobody waits for, and is kept twice.
* **Payments.** A paid notification credits the wallet once, however often it
  is delivered and wherever the process stops.
* **Settlement.** An owner is paid once for each period.

The full list of hazards, each at its line, is in `PROJECT.json`.

## 2. Plan

Modules in the order they were written; the most important first.

1. `Money`, `AccountBook`, `WalletLedger` - the fintech core: model, refinement
   of the atomic account book, proofs.
2. `Tariff`, `SessionBilling` - meter readings, stop, fault, top-up and grace
   worker of one session, over atomic wallet operations (which 1 justifies):
   model, refinement of the tariff, proofs.
3. `GracePeriod` - timer, cancel, worker, retried jobs; liveness of the stop.
4. `ConnectorSlots`, `Booking` - the keys in Redis; the life of a booking.
5. `OcppCalls` - pending calls, timeouts, the registry of connections.
6. `SignIn`, `Payment` - the first request of a user and the notifications of the
   gateway, with proofs.
7. `Settlement` - weekly jobs, clicks of admins, paid and failed.
8. `ChargerState`, `ChargingStart` - the charger's state kept twice, the start
   and the stop of a session, transaction ids, the lock of a connector.

All eight are done.  Each component has one module (two where one part is used by
another component), an `MC` module that gives its constants values, a `.cfg` for
each run, and `_proofs` modules for the theorems.

Which composes which: 2 uses the arithmetic of 1 and takes its operations as
atomic; 3 refines the timer and the job that 2 has as one step each; `Booking`
extends `ConnectorSlots`, `ChargingStart` extends `ChargerState` and `Payment`
extends `SignIn`, so that the steps of the two interleave; 4 and 8 meet in
StartTransaction, where each leaves to the other what it does not track; 6 and 7
stand on the account book of 1.

Each of the eight has theorems, and each safety property that a run checks is
one of them.  The liveness properties stay with TLC (section 12).  Left to do: an
abstract specification of a connector's lock, of which `LockFollows` is a part, and
of a booking, of which `NoDoubleBooking` and `PenaltyForNoShow` are.

## 3. The wallet and ledger model

`Money.tla` has the arithmetic of amounts: integers of cents, rates in basis
points, and the rounding `toFixed(2)` does under `ROUND_HALF_UP`.

`WalletLedger.tla` models the nine operations.  `wallet` and `ledger` are the
two tables; for each invocation `c`, `request[c]` holds its arguments, `pc[c]`
the database call it makes next or how it ended, `snap[c]` the wallet rows its
transaction has read, `attempts[c]` the transactions it began.  An operation
takes these steps, with any step of any other operation in between:

| step | code |
|---|---|
| `Receive` | validation of the amount, before the first `await` |
| `LookUpKey` | `ledger.findUnique({ where: { idempotencyKey } })`, outside the transaction; a duplicate is answered with the wallet (created if missing) |
| `CheckSufficientBalance` | the check of `releaseChargingAmount` outside its transaction |
| `<Operation>Read` | the reads inside the transaction and the refusals computed from them |
| `<Operation>Commit` | the versioned updates and the inserts, and the commit |
| `VersionConflict` | P2025; `deductForCharging`, `lockFunds` and `unlockFunds` retry up to `MAX_RETRIES`, the others throw |
| `DuplicateKey` | P2002 on the unique key |
| `DatabaseError` | any other error of a database call, at any point |

A commit whose answer is lost ends as `unknown`: the money moved and the caller
sees an error.

`AccountBook.tla` is the abstract specification: balances, locks and a book of
entries, and one atomic action per operation.  `WalletLedger!Book` maps the
tables to it and `ImplementsAccountBook` says that `WalletLedger` implements it.

Assumptions about what is outside `src/`:

* A Prisma `update` whose `where` repeats the version is a compare-and-set: it
  changes the row if the version still matches and throws P2025 otherwise.
  All updates and inserts of a `$transaction` take effect together or not at
  all, and its reads come from one snapshot (InnoDB REPEATABLE READ).
* The transaction inserts a wallet that does not exist yet.  Two transactions
  that both find it missing collide on the unique `userId`; the model sees the
  collision as a version conflict (the row's existence changed) and ends the
  second as `failed`, as the error P2002 does.
* Amounts are cents.  `toFixed` of a tie on a *negative* balance rounds away
  from zero, one cent below what the model gives; only the platform's own
  wallet (or one that was charged back) is ever negative.
* `Opening` stands for the history before the run begins; an opening balance
  is not negative.  An admin user exists; when it does not, the operations that
  need one throw, which is `DatabaseError`.
* `createCompensatingEntry` has no caller in `src/`; it is modelled because it
  is exported as the only way to correct the ledger.
* `processRefund` is modelled for the string its comment asks for as
  `transactionId`.  Its one caller passes a number, with which it always throws:
  that is `FaultRefund` of section 4.

## 4. The session and billing model

`SessionBilling.tla` models one session from its creation to its settlement.
The handlers of the charger's messages (`Call`), the listener of
`session:faulted`, the webhook of a top-up and the grace worker each run at
their own pace over the shared tables; a step is one awaited database call.

| state | code |
|---|---|
| `session` | the `ChargingSession` row; `user` says that it has one, `grace` that `graceStartedAt` is set, `ended` that `endedAt` is |
| `wallet`, `ledger` | the driver's wallet and the entries of this session |
| `timer`, `job` | the `GracePeriodJob` row and the BullMQ job |
| `active` | the charger state names this transaction |
| `pc`, `msg`, `left`, `row`, `after` | of each handler: the next call, the message, the readings still to bill, its copy of the row, the balance its deduction left |
| `fault`, `webhook`, `worker` | the other processes; the listener has a copy of the row too |
| `meter`, `charging`, `last`, `resends`, `stopAsked` | the charger |
| `charged`, `repriced`, `topUps` | what happened, for the properties: what was taken, whether a fault wrote a total of its own |

| steps | code |
|---|---|
| `SendMeterValues`, `SendStop`, `SendStatus`, `Resend` (`Deliver`) | a message arrives and its handler is started by `handleOcppMessage` |
| `UpdateSessionMeter`, `BillingRead`, `BillingStats`, `Deduct`, `BillingUpdate` | `updateSessionMeter`, and `processMeterValuesBilling` up to the update of the row |
| `StartGrace`, `MarkGrace`, `CancelGrace`, `PresetCheck` | the thresholds, `handleInsufficientFunds`, the preset budget |
| `FinalizeRead`, `FinalizeClose` | `finalizeSession` |
| `Settle` ... `Unlock` | `finalizeSessionBilling`, one step per call |
| `ResetState` | the `finally` of `stopTransaction` |
| `FindFaulted`, `StatusRead`, `SetStatus` | `handleStatusChange`, `updateSessionStatus` |
| `FaultRead`, `FaultRefund`, `FaultClose` | `handleSessionFault`: the comparison of total and actual cost, the refund, which always throws, and the end of the session where nothing is due |
| `WebhookTopUp` ... `WebhookClear` | the paid notification and `handleWalletTopUpDuringSession` |
| `WorkerTake` ... `WorkerExecuted` | the grace worker |
| `Throws`, `OtherThrows`, `Crash` | a failing call and the `catch` it meets, a lost process |

Units.  Energy is in Wh, money in cents, and `Price` in 1/1000 cent per Wh
(cents per kWh), so that an interval costs `wh * Price` before rounding.
All runs use a price of whole cents per unit of energy, so that every cost is
exact; the theorems but `TotalsArePriced` hold for any price.

The refund of a fault.  `handleSessionFault` passes the `transactionId` of the row,
an `Int`, as `referenceId` (`services/session.service.js:246`), which `processRefund`
writes as it is (`services/wallet.service.js:400`) into `Ledger.referenceId String?`
(`prisma/schema.prisma:91`).  The client refuses a number there, the update of the
wallet is rolled back with the entry, and the exception ends the listener: nothing is
refunded and the session stays open.  Where nothing is due, because the total is at
most the price of what was delivered, `FaultClose` ends the session and writes that
price as its total, which may be more than was taken.  The properties about totals
except what follows (`repriced`).

Assumptions.

* The wallet operations are atomic: `Implementation` (section 12) is the reason.
  `deductForCharging` may be refused without an effect (lost retries, an
  error) and may throw after its commit.
* The charger state is one Boolean.  One session is modelled; what a second
  connector or a session that starts before the last has ended does to the
  charger state belongs to `ChargingStart`.
* A reading is at most the register.  With `SendsData` the charger also reports
  readings it took earlier, as MeterValues or in the `transactionData` of a
  StopTransaction, in any order.
* A message is repeated `MaxResends` times at most, and only the last one is:
  a charger keeps one request in flight.  A resend may meet its first copy
  still being handled if `Call` has two elements.
* A job whose processing throws is retried without the limit of three attempts
  (an over-approximation: only safety is checked of the worker).
* One fault listener runs at a time.
* The notifications and emitted events change nothing; the socket's outcome of
  RemoteStopTransaction is a choice of the environment.

`Tariff.tla` is the abstract specification: a register billed up to a reading,
and a step that moves it up and takes the price of the interval.
`SessionBilling!Meter` maps the model to it.  The moment of billing is the
deduction, not the update of the row: between the two, what is billed is read
from the handler that has deducted (`Deducted`).  `ImplementsTariff` therefore
says that no interval is skipped, billed twice or priced otherwise.  It holds for
one message at a time and calls that do not fail; section 11 says what happens
otherwise.

## 5. The grace period

`GracePeriod.tla` takes apart what `SessionBilling` has as single steps: the row
`GracePeriodJob`, the job in Redis and the mark `graceStartedAt`, which are written
one by one by the billing of a reading, by a top-up and by the worker.

| state | code |
|---|---|
| `funds` | the balance, in readings it pays for |
| `mark`, `ended` | `graceStartedAt`, `endedAt` of the session |
| `timer` | the status of the row |
| `job` | the delayed job: its state and its failed attempts |
| `pc`, `copy` | the steps of billing and of the top-up; the mark as billing read it |
| `worker` | the step of `graceWorker` |
| `charging`, `stopAsked`, `named` | the charger; whether its state names this transaction |
| `lapsed`, `missed` | history: the timer was given up; a top-up the timer was not told of |

| steps | code |
|---|---|
| `ReadSession`, `Deduct` | `processMeterValuesBilling` and its thresholds |
| `FindTimer`, `AddJob`, `UpsertTimer`, `Mark` | `startGracePeriod`, `handleInsufficientFunds` |
| `FindActive`, `RemoveJob`, `CancelTimer`, `ClearMark` | `cancelGracePeriod` and its callers |
| `TopUp`, `FindMarked` | `handleWalletTopUpDuringSession` |
| `Fire`, `CheckSession`, `CheckTimer`, `ForceStop`, `StopRefused`, `EndSession`, `MarkGraceExecuted` | the worker, `markGraceExecuted` |
| `...Fails` | the failing call, and the `catch` it meets |

`lapsed` and `missed` mark the ways the code gives up a timer or does not hear of
a top-up; they are set at the very step that does, and the two properties hold
for every other behaviour.

## 6. Slots and bookings

`ConnectorSlots.tla` has the Redis keys of one connector, one for each hour that
is taken; a command of Redis is a step.  `Booking.tla` is the life of the
bookings of that connector.

| state | code |
|---|---|
| `slot` | the keys of `BOOKING_PREFIX` and who holds them |
| `booking`, `balance` | the rows of `Booking`, the wallets |
| `pc`, `left` | for each booking: where `createBooking`, `cancelBooking` and its two jobs are, and the slots they have still to delete |
| `attempt` | the attempts made of the expiry job |
| `start` | the StartTransaction that is admitted |
| `reserved` | the reservations the charger holds |
| `charged`, `early`, `disturbed`, `wiped`, `missed` | history |

| steps | code |
|---|---|
| `CreateCheck` ... `CreateLater` | `createBooking`: check, row, slots, roll-back, ReserveNow, the jobs |
| `CancelRead`, `CancelWrite`, `ReleaseGet`, `ReleaseDel`, `Withdraw` | `cancelBooking`, `releaseTimeSlots`, CancelReservation |
| `ExpireRead`, `ExpireWrite`, `PenaltyCheck`, `PenaltyDeduct` | `handleBookingExpiry`, `applyNoShowPenalty` |
| `SendRead`, `Send` | the job `send-reservation` |
| `StartFind`, `StartUse`, `StartAuthorise` | `validateBookingForStart`, `markBookingUsed`, `checkUserAuthorization` |
| `RequestDies`, `JobFails`, `Spend`, `Tick` | crashes and exceptions, the retry of a job, charging elsewhere, time |

Time is counted in units of `Hour`.  An HTTP request may ask for each booking
once; a charger may be offline, refuse, or not answer (one `Fault`).

## 7. Charger state and the start of a session

`ChargerState.tla` models what the server knows of a charger, which it keeps
twice: `row`, of the table `ChargerRuntimeState`, and `cache`, in memory, which is
preferred.  `write[w]` is an update under way: `Upsert` writes the row, `Merge`
copies the answer over the memory; other updates come in between.  Only the
fields that decide something are kept.

`ChargingStart.tla` is one charger with its connectors, from the tag to the stop.

| state | code |
|---|---|
| `plug`, `calling` | what the charger does at each connector, and the call it waits for |
| `run` | the handlers under way: `startTransaction`, `meterValues`, `stopTransaction` |
| `session` | the rows of `ChargingSession`, by their key; the field `stopped` is history: a StopTransaction ended the session, or was handled after something else had |
| `txCounter` | of `generateTransactionId`; null until the table has been read |
| `lock` | the key of `LOCK_PREFIX` |
| `exposed`, `lost`, `misled`, `astray` | history |

The steps carry the names of the functions they are: `StartTransaction`,
`Authorise`, `MarkChargingActive`, `CreateSessionFind`, `CreateSession`,
`UpdateState`, `ConfirmSession`; `MeterValues`, `Bill`; `StopTransaction`,
`Finalise`, `ReleaseLock`, `DeleteLock`, `Reset`; `Heartbeat`, `BootNotification`,
`StatusNotification`; `StartCharging`, `StopCharging` of the app and
`AdminRemoteStart`, `AdminRemoteStop`; `TimeOut`, `Dies`, `Restart`,
`InitTransactionCounter`, `LockExpires`.  `FaultEnds` and `GraceEnds` are the two other
writers of `endedAt`, `handleSessionFault` where no refund is due
(`services/session.service.js:254`) and the worker of the grace period
(`src/workers/graceWorker.js:66`).  Neither releases the lock of the connector: it
stays until the StopTransaction of the charger, or its time to live.

What is left to others: which bookings and balances refuse a start is a choice
here (`Refuse`) and modelled in `Booking`; the budget that is locked and unlocked
is in `WalletLedger` and `SessionBilling`; the price of a reading, what
StatusNotification does to the status of a session, and when a fault or the grace
period ends one, is in `SessionBilling` and `GracePeriod`: here either may happen to
any open session at any time (the bound on faults counts both).  The status that
`ConfirmSession` sets to CHARGING is not tracked.
What is merged: a read that misses the memory and the copy it makes are one step,
as are the two calls of `updateSessionStatus`, and the lock and the choice of the
user in `MarkChargingActive`.  The effect of RemoteStart at the charger is
decided when it is sent.  A BootNotification updates the same state as a
Heartbeat.

`exposed` collects the transactions for which the code gives no promise: two
connectors are in use, a call is repeated while its first copy runs, a handler
dies, the server restarts, two updates overtake each other, a session ends before
the charger has the answer to its start, or a start is
handed the session another left open: a start that dies leaves its session open, its
lock runs out, and `CreateSessionFind` gives that session to the next start, whose own
id is then that of no session and whose lock nobody releases.  `astray` has those
whose stop was told the wrong connector.  `NoMixUp` and `LockFollows` are about
all others; of a session that ended early `LockFollows` says that its lock stays while
the charger at its connector has still to stop it.

## 8. Calls and connections

`OcppCalls.tla` models the sockets of the chargers, the registry `chargers`, the
column `connectionState`, and the calls that go either way.

| state | code |
|---|---|
| `peer`, `ready`, `listening`, `isAlive` | of each socket: whether the charger is at the other end, `readyState` and how far the close has got, whether the listeners are attached, the mark of the heartbeat timer |
| `chargers`, `connectionState` | the registry, the table |
| `call` | a call of the server: `pendingMessages`, and what is on the way |
| `request` | a call of a charger |
| `crossed`, `blanked` | history: an older socket closed after its newest came; an entry without a status was copied since the charger was last told to be there |

The steps: `Connect`, `Attach`, `CloseEvent`, `Leave` (the handlers of a
connection), `Tick`, `Pong` (the heartbeat), `Break`, `Reset` (the network),
`Command`, `Resolve` (the four commands; RemoteStop asks the database first),
`Execute` (the charger), `Answer`, `Timer`, and `Send`, `Receive`, `Handle`
(`routeOcppMessage`).  Sending on a socket that has closed does not throw: the
call is pending and nothing is on the way.  What is on the way when a connection
breaks is lost.  `connectionState` has four writers: `Attach`, the close of a socket,
the handlers of a charger's messages (`Handle`), and `syncChargerToDb`, which a timer
of 60 seconds calls for each charger in memory (`src/server.js:89`,
`services/chargerPersistence.service.js:14`).  What it copies is DISCONNECTED for an
entry without a `connectionStatus`, which a start by the app after a restart of the
server makes, and the charger may be connected all along; it is CONNECTED for any
other, and the charger may be gone.  Entries of either kind are made and merged at any
time, so that what `SyncChargerToDb` writes is a choice.  A charger in `Silent` is on one socket all along and neither
answers nor leaves, so that only the timer ends its calls.

## 9. Signing in and paying

`SignIn.tla` is `verifyToken`: the row of the user is found, linked or made, and
then the wallet is looked for and made; other first requests of the same person
run beside it.  `Payment.tla` extends it with `topUpWallet`, the page of the
gateway, its notifications and the handler of these: `Receive`, `Find`,
`UpdatePayment`, `FindLedger`, `LookUpKey`, `TopUp`, `TellSession`.  `row` is the
`Payment` row, `ledger` the TOP_UP entries with key and reference, `sent` and
`answered` the notifications, `run` the handlers.

The gateway is external: it takes the money of an order once, gives an attempt an
id or none, sends the notifications of an attempt in any order and repeats what
is not answered 200.  A signature that is wrong is answered without any effect
and left out.  While the payment is made the other requests of the person have
ended (`TopUpWallet`).

`lost` has the orders the code gives up: an exception is answered 200, and a
process that dies between the SUCCESS of the row and the top-up leaves a row that
makes the next notification a repeated one.

## 10. Settlement

`Settlement.tla` models one owner.  Weeks are counted, and money in sessions.
`charging` has for each session the week that its start names and the week in which
its end was written, `active` says whether the job takes the owner up, `settlements`
are the rows with their items, `payouts` the SETTLEMENT_PAYOUT entries, `run` the
admins and the worker at work; `missed` is history, the weeks whose job was refused,
failed, was removed or left the owner out.

| steps | code |
|---|---|
| `GenerateByJob`, `GenerateByAdmin`, `CreateByAdmin` | `generateBiWeeklySettlements`, `createSettlement` |
| `FindExisting`, `FindSessions`, `CreateSettlement` | `createSettlement`, one step per call |
| `RecordOwnerPayment` | `recordOwnerPayment` |
| `ReadToPay`, `MarkPaid`, `FindKey`, `Post` | `markSettlementAsPaid`, `createLedgerEntry` |
| `ReadToFail`, `MarkFailed` | `markSettlementAsFailed` |
| `StartSession`, `EndSession` | `createSession`, `finalizeSession`, of messages that may name any week and come at any time |
| `UpdateUserStatus`, `SkipOwner` | `updateUserStatus`, and the owners that `generateBiWeeklySettlements` does not find: not active, or without an active station |
| `WeekPasses`, `Reschedule`, `Fails` | the repeated job of the queue, a server that starts while it waits, exceptions and crashes |

`startedAt` and `endedAt` are timestamps of the charger.  The query of a settlement
compares `startedAt` with the period and asks of `endedAt` only whether it is set, so
that of an end the model keeps when it was written.

`getOwnerEarningsSummary` subtracts the sum of the amounts, which is the number of
`Units` of all settlements that are owed.  Periods begin and end with a week; an
admin who generates in the middle of one is not modelled.  The running balance of `createLedgerEntry` (a read and an insert)
is left out: nothing is decided by it.

## 11. Runs

| run | instance | what it shows |
|---|---|---|
| `wallet_mixed` | 3 handlers, 12 possible requests, 3 users, 3 keys; symmetric in the handlers | `TypeOK`, `PrepaidOnly`, `AppliedOnce`, `ReleaseOffByACent`, `LocksAreCovered`, `EntriesRecordTheChange`, `ImplementsAccountBook` |
| `wallet_ends` | 3 handlers on one wallet, 2 retries, weak fairness of each | `DefeatedByCommits`: the retry loop loses only against commits; `CallsEnd`: every started operation ends |
| `session_discipline` | one message at a time, a repeat, old readings, faults, one top-up, grace worker | `TypeOK`, `RecordedWasTaken`, `ImplementsTariff` |
| `session_fault` | as `session_discipline`, with the handlers treated fairly | a violation of `FaultsEndTheSession`: the refund throws and the session stays open |
| `session_settled` | sessions with and without a user and a budget, faults, fairness of the handlers | `SettledRecordsMoney`, `ReservationReleased`, `StopsAreSettled` |
| `session_failures` | two messages at once, a repeat, failing calls, crashes; symmetric in the handlers | `RecordedWasTaken`, `TotalIsPriced` |
| `bookings` | two users, one booking of two hours and one of the second hour, one fault | `TypeOK`, `NoDoubleBooking`, `PenaltyForNoShow`, `FirstHourReturned`, `ReservationWithdrawn`, `QueuedBookingEnds` |
| `charging_start` | two connectors, the app and a user's tag at the first, cards at the second, two handlers, one update nobody waits for, one trouble: a fault, or a session that ends before its stop | `FreshId`, `NoMixUp`, `LockFollows` |
| `ocpp_calls` | a charger that connects twice and one that stays, a call to each, one call of a charger, copies of what is in memory at any time | `ToldTheTruth`, `CancelledByItsOwn`, `ConnectedIsOnline`, `CallEnds`, `DeadSocketCloses`, `RequestAnswered` |
| `payment` | one order, two kinds of attempt and of notification, two handlers, two first requests, one fault | `CreditedOnce`, `PaidIsCredited` |
| `grace_period` | a balance of at most three readings, top-ups of three, two attempts of a job, two failing calls | `StoppedWhenUnpaid`, `UnpaidStops` |
| `settlement` | one session that names the first week and whose messages come in any, four weeks, an owner turned off and on, an admin and the job, three settlements, one fault | `NotOverpaid`, `PaidIsPosted`, `NothingForgotten` |

Bounds of the wallet runs.  Three handlers are enough for each pair of
operations to interleave with a third that makes the pair conflict twice; with
two retries three handlers exhaust the loop.  The requests include two
deliveries with one key, an owner whose wallet does not exist, zero amounts,
amounts that fit once but not twice, and releases of 30 and 25 cents whose two
shares round to the total and to one cent more.

Bounds of the session runs.  The register counts two or three units (`MaxMeter`
minus `MeterStart`), which gives two intervals and an older reading to come
back between them; the opening balance pays for all or all but one of them, so
that each run meets the refused deduction or the threshold of the grace period.
One repeated message and one top-up are enough to hit each handler at each of
its calls; `Status` lists only the states a run needs, since the others take the
same steps.

Bounds of the others.  The two bookings overlap in one of two slots, which makes
the roll-back of `reserveTimeSlots` delete a foreign slot; `MaxNow` lets both
expire.  Two transactions (`MaxId`) are what it takes to mix two up, two handlers
what a repeated call needs, and one fault is a restart, a timeout, an exception or
an expired lock at any step, or the end of a session before its stop.  Two sockets of a
charger are what reconnecting needs.  One fault at any call of paying finds each place where the credit is
given up; two handlers and two kinds of attempt race, overtake and repeat.  In
`grace_period` two faults make a job fail and be retried, or fail for good.  Three
settlements and four weeks give a session the chance to be in the windows of two
jobs, to run past the first, and to be settled by the second or by nobody.  The
theorems about `Settlement` are for any number of each.

No run checks for deadlock: handlers end, and a program waits for its users.
`TypeOK` of `ChargingStart`, `OcppCalls`, `Payment`, `GracePeriod` and `Settlement` is
not an invariant of their runs.  It holds on these instances, and it is proved.

Fairness.  `WalletLedger!FairSpec` asks weak fairness of `Proceed(c)`, the
handler's own next step: a handler that started is run to its end by the event
loop, and the database answers or the call fails.  Nothing is assumed of
`Receive` (a request need not come) or of `DatabaseError` (an error need not
happen).  `SessionBilling!FairSpec` asks the same of each handler and of the
fault listener; nothing is assumed of the charger, of the webhook, of the
worker or of failures.  `Booking!FairSpec` asks that time passes and that the
queue runs the expiry job when it is due (BullMQ keeps it in Redis).
`OcppCalls` asks weak fairness of the timers, the events and the queries of the
server, and nothing of the network or the chargers.  `Payment` asks that a handler
goes on and that the gateway repeats what was not answered (strong, since other
handlers may keep the process busy).  `GracePeriod` asks that readings come while
energy is delivered, that the queue delivers, and that a charger that accepted to
stop does stop.  `ChargingStart` and `Settlement` are checked for safety only.

### Departures of the code from its comments

Met while modelling.  The properties are stated so that they hold of the code, and
their comments name the exception; only `FaultsEndTheSession` states what a comment of
the code says and the code does not do, and its run expects the violation.

Wallet:

* `createCompensatingEntry` can make a wallet negative, against "No negative
  balance (prepaid only)" (`services/wallet.service.js:19`).
* The type of an entry does not determine its direction, as
  `prisma/schema.prisma:84` says: COMMISSION is a credit in
  `releaseChargingAmount` and a debit in `recordCommission`.
* The documented identity "Owner Earning = amount - commission"
  (`RELEASE_CHARGING_API_README.md:149`) does not hold of the stored values, at
  25 cents and two percent for instance: both parts are rounded half up
  independently.  `ReleaseOffByACent` bounds the difference.

Session and billing:

* A StopTransaction repeated on a new connection while the first copy is still
  handled bills the same interval twice; the check of `lastBilledWh` that line
  217 of `services/billing.service.js` relies on is made on a copy.
* The deduction has committed and the update of the row fails: the next reading
  bills the interval again.
* `handleSessionFault` says that it stops the session, computes what was delivered and
  refunds what was charged above it (`services/session.service.js:198`).  It refunds
  nobody: wherever something is due the refund throws (section 4), before the session
  is ended.  The run `session_fault` shows it.
* A repeated StopTransaction unlocks the budget a second time, out of the
  reservations of other sessions (`services/billing.service.js:545`), and posts no
  second consolidated debit, whatever was billed in between (line 485).
* Where nothing is due a fault sets `totalCost` to the price of the energy in its copy of
  the row (line 259): of a reading that was never charged, if it comes between the
  live meter update and the deduction, or of an older one that came late and lowered
  `energyUsedWh` (line 141).  A StopTransaction that follows settles that total.
  `RecordedWasTaken`, `TotalIsPriced`, `SettledRecordsMoney` and the second half of
  `StopsAreSettled` say nothing of a session from then on.
* `updateSessionStatus` checks the terminal status on a copy and writes by
  `transactionId` alone, so COMPLETED can be overwritten
  (`services/session.service.js:311-316`).  No decision of the code reads the
  status of an ended session.

Grace period:

* Cancelling after a reading (`services/billing.service.js:307`) leaves the mark set:
  the next time the money runs out no timer is started.
* The job is EXECUTED also when the charger refused or was offline; nobody tries
  again.  The worker's stop prefers the transaction in the charger state, so that
  after a session on another connector has begun it stops that one, and ends ours.
* The job's id is that of the transaction: where an old one still runs or has
  failed, none is added; one that could not be removed fires into a new period.
  A row that could not be cancelled stays ACTIVE without a job.  Once Redis was
  found unavailable, no job is ever added.

Bookings:

* The roll-back of `reserveTimeSlots` deletes every slot of the range, also those
  of others (`services/connectorLock.service.js:400`); a slot is released in two
  calls (445).
* Cancelling and expiring release the first hour only ("assume 1 hour",
  `services/booking.service.js:260`); the others wait for their time to live.
* A start that is refused after the booking was marked USED leaves it USED.

Charger state and start:

* `pendingUserId: null`, "Clear after session created"
  (`src/ocpp/handlers/startTransaction.js:127`), is dropped by the whitelist of the
  runtime table and the merge keeps the old value: the next start on the charger
  is billed to the previous user of the app.
* The worker of the grace period and a fault end a session without releasing the lock
  of its connector (`src/workers/graceWorker.js:66`, `services/session.service.js:254`).
  It is released by the StopTransaction of the charger, if that comes, or after a day.
* An update that is not waited for may overtake another
  (`services/chargerStore.service.js:26`): the memory then names an ended transaction.
* A repeated StopTransaction, whose first copy was handled, ends the session of
  another connector (`src/ocpp/handlers/stopTransaction.js:49`); a repeated
  StartTransaction of a user's tag is refused for the session its own first copy
  made (`src/ocpp/handlers/startTransaction.js:296`).
* When RemoteStart is not answered the budget is unlocked; the charger may start
  all the same (`src/api/charger.controller.js:315`), and `ToldTheTruth` names that
  outcome.

Connections: the copy of what is in memory, made every minute, writes DISCONNECTED for a
connected charger whose entry has no status, and CONNECTED for one that has gone; the
close of an old socket removes the new connection from the
registry, and messages that come before the listeners are attached are dropped
(`src/ocpp/ocppServer.js:80`, `330`).

Payments: an error is answered 200 and a crash between SUCCESS and the top-up is
taken for a repeated notification, so that the credit is lost; the look-up of the
ledger goes by the order and does not find an entry made with a payment id; a late
notification or the cancel page moves a row back from SUCCESS.

Settlement:

* "Runs every 2 weeks on Sunday at midnight" (`src/workers/settlementWorker.js:42`)
  stands over a weekly cron (line 60): consecutive windows overlap, and a session is in
  two settlements.
* The job takes up active owners with an active station only
  (`services/settlement.service.js:251`): who is turned off on that day is left out
  without an error, and after the second job no other looks for his sessions.
* A session is placed by the time its charger names (`services/session.service.js:107`,
  `178`), and taken up if its end has been written.  One whose StopTransaction comes
  after the second job has a time of end within the period, and is in no settlement.
* A payment recorded by hand within the window, or an earlier settlement inside
  it, blocks the job for the whole window.  The sessions of a FAILED settlement
  are not settled again.
* A crash between the status and the entry leaves a payment without its payout;
  the payout is not taken from the wallet, whose `balanceAfter` jumps.

## 12. Proofs

`WalletLedger_proofs.tla` proves, for any set of users, requests, opening
balances, number of handlers, retry bound and commission rate:

* `TypeCorrect`: `Spec => []TypeOK`.
* `Invariance`: `Spec => []IInv`, the inductive invariant.  `TypeOK` is not
  inductive by itself: `attempts` stays within its bound only because a
  transaction is begun with attempts left (`AttemptsLeft`).  The heart is
  `SnapOfWallet`: a row that still has the version a transaction read *is* the
  row it read.  It holds because every write increments the version
  (`WalletGrows`), and makes the versioned update as good as a lock.
  `ReadAllowed` carries the checks made while reading to the commit.
* `Implementation`: `Spec => ImplementsAccountBook`.  By `SnapOfWallet` the rows
  computed from the snapshot are rows computed from the table (`OverlayUpdate`,
  `OverlayRead`), so each commit is one step of the account book
  (`CommitImplements`); every other step leaves it unchanged (`OthersStutter`).
* `LocksCovered`, `EntriesAreHistory`: `Spec => LocksAreCovered` and
  `Spec => EntriesRecordTheChange`, the two action properties.  A lock was checked
  against the row that was read, which by `SnapOfWallet` is the row that is written.
* `Prepaid`: `Spec => []PrepaidOnly`, by the same argument for every operation that
  takes money; the entry of a chargeback stays in the ledger.
* `OffByACent`: `Spec => []ReleaseOffByACent`.  The property is about any three entries
  with the keys of a release, and an entry's key does not say which operation posted
  it; `Parts` adds that entries that share a key come from one transaction.
* `OnceApplied`: `Spec => []AppliedOnce`.  `Told` adds that who was told that money
  moved finds the key in the ledger, where no second commit can put it.
* `RetriesAreDefeats`: `Spec => []DefeatedByCommits`.  `Versioned` counts the attempts of
  a handler against the version of the row, also while it holds an old copy.

`StepOfOne` factors the induction: a step of one handler keeps the invariant of
the others because rows only grow.  The assumptions are those of the constants
(`CommissionRateAssumption`, `AdminAssumption`, `RequestAssumption`,
`OpeningAssumption`, `RetriesAssumption`), which every run evaluates.

`SessionBilling_proofs.tla` proves, for any readings, prices, thresholds,
balances and bounds, and any set of handlers unless said otherwise:

* `Inductive`: `Spec => []IInv`.  `TypeOK` alone is not inductive: that an
  amount is never negative depends on where the handler is.  `IInv` adds, for
  each handler (`Handling`), that one that bills has a reading above what its
  copy of the row says is billed, that one that ends a session holds the
  StopTransaction it ends it for, and that the charger repeats only messages
  with a reading (`Repeatable`).
* `TypeCorrect`: `Spec => []TypeOK`, from `Inductive`.
* `RecordIsBacked`: `Spec => []RecordedWasTaken`, without conditions.  The
  strengthening is `Covered`: the total in every handler's copy, and the total a
  handler that has deducted is about to write, is covered by what was taken.  Handlers
  overwrite each other's rows, but only with totals that were covered, and the amount
  taken only grows.  `Backed` adds the consolidated debit.  All of it holds until a
  fault has written a total of its own.
* `TotalsArePriced`: `Spec => []TotalIsPriced` if a Wh costs whole cents, with or without
  faults.  `RowsPriced` asks the same of every copy that is still to be
  written: an old copy may lower what is billed, but its total goes with it.  At
  other prices each interval is rounded by itself, by up to half a cent.
* `ReservationIsReleased`: `Spec => []ReservationReleased` if no call fails and no message
  is repeated, for any number of handlers.  `Phases` has the life of a reservation:
  held while the charger charges, held until the one handler of the StopTransaction
  has unlocked it, given back.
* `SettledIsRecorded`: `Spec => []SettledRecordsMoney` for one message at a time that
  is not repeated, and while no call fails, with or without faults.  `Books` adds to
  `Phases` that the total is exactly what was taken, not only covered by it, that
  the copy which ends the session has it, and that its debit is posted from then on,
  unless a fault has written a total of its own.
* `BillsByTariff`: `Spec => ImplementsTariff` for one handler at a time, sessions
  with a user, and calls that do not fail, which is the request/response
  discipline; readings may still come in any order, and faults, top-ups and the
  grace worker may run between any two calls.  The strengthening is `Metered`:
  `lastBilledWh` is moved by the one handler only, so its copy is not stale.
  Without one of these conditions it is false (section 11).

The conditions are those of the runs that check the properties; section 11 lists
what happens without them.  The proofs rest on
`SessionAssumption` and `CommissionRateAssumption`, which every session run evaluates.

`Payment_proofs.tla` proves, for any orders, payment ids, codes, requests and
handlers and any number of faults:

* `Inductive`: `Spec => []IInv`.  `CreditedOnce` needs to know where a credit comes
  from: an entry, and a handler on the way to the commit, has a notification of
  success that the gateway sent (`Backed`), and an order has one such
  notification (`PaidOnce`), so that two handlers of one order carry the same key,
  and the unique column admits it once.
* `TypeCorrect`: `Spec => []TypeOK`.
* `CreditedAtMostOnce`: `Spec => []CreditedOnce`.

They rest on `PaymentAssumption`, which the run evaluates, and on the guard of
`Notify`: that the gateway takes the money of an order once is an assumption about
the gateway.

`OcppCalls_proofs.tla` proves, for any chargers, sockets, calls of the server and
calls of the chargers:

* `Inductive`: `Spec => []IInv`.  `Honest` says of each call that what its caller
  was told, what is on the way and what the charger did agree; `Named`, that the
  registry and the calls name sockets of the charger that is meant; `Left`, that
  a charger on a socket has left those before it, without which the late close of
  an old socket could end a call on a socket that is in use.
* `TypeCorrect`: `Spec => []TypeOK`.
* `CallersAreToldTheTruth`: `Spec => []ToldTheTruth`.
* `DisconnectedByItsOwn`: `Spec => []CancelledByItsOwn`.
* `ConnectedMeansOnline`: `Spec => []ConnectedIsOnline`.  `Online` adds only that a socket
  that has not been connected has no listeners.  The work is in the close events, of
  which the late one of an older socket is the case the property excepts, and in the
  four writers of the table (`Told`), of which the copy of an entry without a status is
  the other.

They rest on `CallsAssumption`, which the run evaluates.

`ChargingStart_proofs.tla` proves, for any connectors, tags, handlers, updates
under way and bounds:

* `Inductive`: `Spec => []FreshInv`.  That the id of a start is not in the table
  (`Unused`) is not inductive: it needs that starts have different ids
  (`Distinct`) and that the counter, once it has been read, is above every id in
  the table and in a handler (`Below`).  The step that matters is
  `InitTransactionCounter` after a restart: no handler survives, and the greatest
  id in the table is above all others (`Greatest`, from the well-foundedness of
  the strict subsets of finite sets).
* `IdsAreFresh`: `Spec => []FreshId`.
* `StopsTheRightSession`: `Spec => []NoMixUp`.  The inductive invariant is `Calm`, and its
  heart `OneAtWork`: a session that nothing touched is the only one that has still to be
  stopped, whether it is open or a fault or the grace worker has ended it; the
  row and the copy in memory name it, wherever the charger names a transaction it is
  this one, and so does each handler that has found a session.  Two handlers run at
  once only for a transaction that is touched (`Apart`), and the charger waits for a
  start (`Awaited`), so that no other can begin beside it.  Every step either keeps
  this for a session or puts its transaction among the `exposed`.
* `LockIsHeld`: `Spec => []LockFollows`.  `Held` names the holder of a lock: a start
  between taking it and making its session, the open session, a session that ended
  early and that the charger at this connector has still to stop, or a stop between
  ending the session and deleting the lock.  It needs from `Calm` that such a session
  is still the one the charger names (`Plugged`), and that ids are in the table once
  (`OwnIds`), which by the pigeonhole principle leaves room for the session of a start
  that has its id (`KeyHasRoom`).  The proof found a way to leave a lock behind that
  an instance with one fault does not reach (section 7, the start that is handed the
  session of another); with two faults TLC finds it too.
* `TypeCorrect`: `Spec => []TypeOK`.  `Typed` is not inductive alone: that the row a
  start is about to make is one of the table needs `KeyHasRoom`, and that the charger
  stops a transaction it has a key of needs the shapes of `Calm`.

They rest on `StartAssumption` and `ChargerAssumption`, which the run evaluates, and
on handlers being of one process: a second server with a counter of its own would
give ids again.

`GracePeriod_proofs.tla` proves, for any thresholds, balances, amounts of a top-up,
attempts of the job and faults:

* `Inductive`: `Spec => []IInv`.  The heart is `QuietWhenPaid`: while a driver has
  money, and no top-up is on its way to the timer, nothing is under way that ends
  in a stop: no worker past its checks, no billing about to start a timer, no job
  whose row is not CANCELLED.  It needs to know where a mark comes from
  (`Unmarked`), that the row of a job is ACTIVE or CANCELLED wherever there is a
  mark (`Recorded`), that a top-up that cancels found one (`Cancelling`), and that
  a worker which overtook the cancellation is among the `missed` (`Overtaken`).
* `TypeCorrect`: `Spec => []TypeOK`.
* `PaidIsNotStopped`: `Spec => StoppedWhenUnpaid`, the action property.

They rest on `GraceAssumption`, which the run evaluates.

`Booking_proofs.tla` proves, for any bookings, users, slots, requests, times,
attempts and faults:

* `Inductive`: `Spec => []IInv`.  `Progress` ties the row of a booking to its four
  handlers, which write it by its id long after they read it: one that is ACTIVE
  has no handler that releases its slots.  With that, `Holds` says that an active
  booking that got its slots holds them until it expires or another handler
  deletes one, and `Penalised` that the penalty is taken by a job that found the
  booking active after its end, which one used or cancelled before cannot be.
  The least slot of a set of naturals exists by a well-founded induction (`Least`).
* `TypeCorrect`: `Spec => []TypeOK`.
* `HoursAreGivenOnce`: `Spec => []NoDoubleBooking`.
* `PenaltyIsForNoShow`: `Spec => []PenaltyForNoShow`.
* `FirstHourIsReturned`: `Spec => []FirstHourReturned`.  `Returns` follows the slots of a
  booking that is over: one it still holds in its first hour is in the hands of a
  handler that has still to release it, and a roll-back has all that it got in hand.
* `ReservationIsWithdrawn`: `Spec => []ReservationWithdrawn`.  By `Withdraws`, a cancelled
  booking that the charger holds, and missed nothing of, is one that `cancelBooking`
  is about to withdraw.  Both are parts of one inductive invariant, `Back`.

They rest on `SlotAssumption` and `BookingAssumption`, which the run evaluates.

`Settlement_proofs.tla` proves, for any finite set of sessions and any admins,
periods, weeks, settlements and faults:

* `Inductive`: `Spec => []IInv`.  `AllSquared` says of each settlement that no two
  admins marked at once that it is PAID when its payout is in the ledger or
  somebody is about to post it, and only then.  `Remembered` follows a session
  through the weeks: if its end was written by the week after the one its start names,
  then in the week of the second job it is settled already, the job is still to run or
  has it on the way, or the job was refused, failed, was removed or left the owner out;
  it rests on the job having the period of this week (`JobsPeriod`).
* `TypeCorrect`: `Spec => []TypeOK`.
* `PaymentsArePosted`: `Spec => []PaidIsPosted`.
* `SessionsAreSettled`: `Spec => []NothingForgotten`.
* `OwnersAreNotOverpaid`: `Spec => []NotOverpaid`.  The strengthening is `Earned`: items are
  sessions that ended, a settlement pays its items, and a settlement made beside one
  that lies within its period is among the `crossed`.  The items of any two
  settlements are then apart, and counting what is paid is counting subsets of the
  sessions that are apart (`ApartFit`).

They rest on `SettlementAssumption`, which the run evaluates.

Only model-checked: the liveness properties (`CallsEnd`, `StopsAreSettled`,
`QueuedBookingEnds`, `CallEnds`, `DeadSocketCloses`, `RequestAnswered`, `PaidIsCredited`,
`UnpaidStops`), which are out of the prover's reach, as they need ENABLED under
fairness.  Every other property of a run is a theorem, under the conditions stated.

## 13. Not modelled

* **Administration** (`services/admin.service.js`, most of
  `src/api/admin.controller.js`): lists, reports, and writes of single rows without
  a protocol between them.  Of its tools, remote start and stop are in
  `ChargingStart`, settlements and `updateUserStatus` in `Settlement`.  Left out are
  `adminSetWalletBalance`, a debugging tool that writes a balance read outside its
  transaction; `forceStopSession`, which ends a row without settling it;
  `deleteAccount`, which records a balance read earlier; and `createOwner`, which
  calls `crypto.randomBytes` without importing `crypto`.
* **Charging API** beyond start and stop, **HTTP API**: queries and formatting.
* **Notifications and Firebase**: delivery by third parties; nothing is decided by
  their outcome, and their errors are caught.
* **Configuration and schema**: values of constants here; the parts of the schema
  that constrain a component (unique columns) are in its module.
* Functions that nothing calls, except `createCompensatingEntry`.
* Liveness of `Settlement` and of `ChargingStart`: an admin need not click, and a
  charger need not stop.
