---------------------------- MODULE ChargingStart ----------------------------
(***************************************************************************)
(* How a charge begins, is measured and ends, on one charger: the calls    *)
(* startTransaction, meterValues, stopTransaction, statusNotification,     *)
(* heartbeat and bootNotification of the charger, startCharging and        *)
(* stopCharging of the app, the lock of a connector, the transaction       *)
(* counter and a restart of the server.  The charger has one call under    *)
(* way, but gives up waiting and repeats it, so that two handlers of the   *)
(* server may run; updates of the charger's state that nobody waits for    *)
(* run beside them.  What a charge costs is the subject of SessionBilling, *)
(* which bookings admit a driver that of Booking.                          *)
(***************************************************************************)
EXTENDS ChargerState, FiniteSets

CONSTANTS
  Handler,          \* the handlers of calls that may run at a time
  Late,             \* the updates nobody waits for that may run at a time
  Comes,            \* Comes[c]: the tags drivers use at connector c
  Reported,         \* the connectors the charger reports a status of
  MaxId,            \* bound: sessions and transaction ids
  MaxFaults         \* bound: time-outs, exceptions, restarts, keys that expire

ASSUME StartAssumption ==
  /\ Handler \subseteq Nat /\ Nobody \notin Handler
  /\ Handler \cap Late = {} /\ Writer = Handler \cup Late
  /\ {MaxId, MaxFaults} \subseteq Nat
  /\ Comes \in [Connector -> SUBSET ({"app", "card"} \cup User)]
  /\ Reported \subseteq Connector \cup {0}

VARIABLES
  plug,             \* plug[c]: what the charger does at connector c
  calling,          \* the handler of the call the charger waits for, or Nobody
  run,              \* run[h]: where handler h is, and its local variables
  session,          \* session[i]: the rows of ChargingSession, i their key; the
                    \* field stopped is history: whether a stop of it was handled
  txCounter,        \* the next transaction id; Null until it has been read
  lock,             \* lock[c]: the transaction that holds connector c, or Null
  faults,
  exposed,          \* history: transactions a fault, or another one, touched
  lost, misled,     \* history: whose stop ended another; ended or billed for another
  astray            \* history: whose stop was told the wrong connector

state   == <<row, cache, write>>
charger == <<plug, calling>>
history == <<exposed, lost, misled, astray>>
vars == <<state, charger, run, session, txCounter, lock, faults, history>>

Tag == {"app", "card"} \cup User      \* a truncated user id, an RFID, a user id
Id  == 0..MaxId
Kind == {"start", "meter", "stop"}
Step == {"authorise", "lock", "find", "create", "update", "status",
         "reply", "bill", "finalise", "release", "delete", "reset"}

Unplugged == [at |-> "free", tag |-> "card", id |-> Null]
NoRun == [kind |-> "none", pc |-> "none", c |-> Null, tag |-> "card",
          tx |-> Null, id |-> Null, user |-> Nobody, at |-> Null]
NoSession == [c |-> Null, tx |-> Null, user |-> Nobody, ended |-> FALSE, stopped |-> FALSE]

TypeOK ==
  /\ ChargerStateTypeOK
  /\ plug \in [Connector -> [at : {"free", "starting", "on", "stopping"}, tag : Tag, id : Id]]
  /\ calling \in Handler \cup {Nobody}
  /\ run \in [Handler -> [kind : Kind \cup {"none"}, pc : Step \cup {"none"}, c : Nat, tag : Tag,
                          tx : Nat, id : Id, user : User \cup {Nobody}, at : Nat]]
  /\ session \in [1..MaxId -> [c : Nat, tx : Nat, user : User \cup {Nobody},
                               ended : BOOLEAN, stopped : BOOLEAN]]
  /\ txCounter \in Nat
  /\ lock \in [Connector -> Nat]
  /\ faults \in 0..MaxFaults
  /\ exposed \subseteq Nat /\ lost \subseteq Nat /\ misled \subseteq Nat /\ astray \subseteq Nat

-----------------------------------------------------------------------------
Rows     == {i \in 1..MaxId : session[i].tx # Null}
Open     == {i \in Rows : ~session[i].ended}
Live     == {i \in Rows : ~session[i].stopped}    \* open, or ended before their stop
OpenOn(c) == {i \in Open : session[i].c = c}
TxOf(ids) == {session[i].tx : i \in ids}
WithTx(tx) == {i \in Rows : session[i].tx = tx}

At(h, step) == run[h].pc = step
Goto(h, step) == run' = [run EXCEPT ![h].pc = step]

Expose(txs) == exposed' = exposed \cup txs /\ UNCHANGED <<lost, misled, astray>>

Running == {g \in Handler : run[g] # NoRun}

\* The charger sends a call and waits for the answer.  If it gave up waiting for
\* another whose handler still runs, the two touch each other.
Call(h, call) ==
  /\ calling = Nobody /\ run[h] = NoRun
  /\ \A g \in Handler : g < h => run[g] # NoRun
  /\ calling' = h
  /\ run' = [run EXCEPT ![h] = call]
  /\ IF Running = {} THEN UNCHANGED history
     ELSE Expose({call.tx} \cup {run[g].tx : g \in Running})

\* The handler ends; its answer counts if the charger still waits for it.
Answer(h, c, then) ==
  /\ run' = [run EXCEPT ![h] = NoRun]
  /\ calling' = IF calling = h THEN Nobody ELSE calling
  /\ plug' = IF calling = h THEN [plug EXCEPT ![c] = then] ELSE plug

Fault == faults < MaxFaults /\ faults' = faults + 1

-----------------------------------------------------------------------------
\* The driver and the app.  Nobody presents an RFID or his own id at the charger.

PresentTag(c, tag) ==
  /\ plug[c].at = "free"
  /\ plug' = [plug EXCEPT ![c] = [at |-> "starting", tag |-> tag, id |-> Null]]
  /\ UNCHANGED <<state, calling, run, session, txCounter, lock, faults, history>>

\* startCharging, and startChargingForUser once the budget is locked, which may
\* be refused: no transaction may be known; the pending user is noted and
\* RemoteStartTransaction is sent.  The charger takes it up, with the truncated
\* user id as tag, or does not: it is busy, offline or says no.
StartCharging(user, c) ==
  /\ cache.transactionId = Null
  /\ SetPending(user)
  /\ \/ /\ plug[c].at = "free"
        /\ plug' = [plug EXCEPT ![c] = [at |-> "starting", tag |-> "app", id |-> Null]]
     \/ UNCHANGED plug
  /\ UNCHANGED <<row, write, calling, run, session, txCounter, lock, faults, history>>

\* stopCharging sends the id of the state, if that is a transaction of the charger.
StopCharging(c) ==
  /\ plug[c].at = "on"
  /\ LET s == Loaded IN
       plug[c].id = IF s.ocppTransactionId # Null THEN s.ocppTransactionId ELSE s.transactionId
  /\ cache.transactionId # Null \/ cache.ocppTransactionId # Null
  /\ plug' = [plug EXCEPT ![c].at = "stopping"]
  /\ UNCHANGED <<state, calling, run, session, txCounter, lock, faults, history>>

\* adminRemoteStart: with no session open, the charger takes up a tag nobody has.
AdminRemoteStart(c) == Open = {} /\ PresentTag(c, "card")

\* adminRemoteStop means the session started last; the id in the state is preferred.
AdminRemoteStop(c) ==
  /\ plug[c].at = "on"
  /\ \E i \in Open :
       /\ \A j \in Open : j <= i
       /\ plug[c].id = IF Loaded.ocppTransactionId # Null THEN Loaded.ocppTransactionId ELSE i
  /\ cache' = Loaded
  /\ plug' = [plug EXCEPT ![c].at = "stopping"]
  /\ UNCHANGED <<row, write, calling, run, session, txCounter, lock, faults, history>>

\* The driver unplugs.
Unplug(c) ==
  /\ plug[c].at = "on"
  /\ plug' = [plug EXCEPT ![c].at = "stopping"]
  /\ UNCHANGED <<state, calling, run, session, txCounter, lock, faults, history>>

-----------------------------------------------------------------------------
\* StartTransaction

\* generateTransactionId; it throws before the counter has been read.
GenerateTransactionId(tx) ==
  /\ txCounter # Null /\ tx = txCounter /\ tx <= MaxId
  /\ txCounter' = txCounter + 1

StartTransaction(h, c) ==
  \E tx \in 1..MaxId :
    /\ plug[c].at = "starting"
    /\ GenerateTransactionId(tx)
    /\ Call(h, [kind |-> "start", pc |-> "authorise", c |-> c, tag |-> plug[c].tag, tx |-> tx,
                id |-> Null, user |-> Nobody, at |-> Null])
    /\ UNCHANGED <<state, plug, session, lock, faults>>

\* A tag that is a user's id must have no open session; a tag that is not known
\* is accepted.
MayStart(tag) == \A i \in Open : session[i].user # tag \/ tag \notin User

Authorise(h) ==
  /\ At(h, "authorise") /\ MayStart(run[h].tag)
  /\ Goto(h, "lock")
  /\ UNCHANGED <<state, charger, session, txCounter, lock, faults, history>>

\* A booking, an open session or an empty wallet is in the way; which of the
\* first and the last is not told apart here.
Refuse(h) ==
  /\ At(h, "authorise")
  /\ Answer(h, run[h].c, Unplugged)
  /\ UNCHANGED <<state, session, txCounter, lock, faults, history>>

\* The user is the pending one of the copy in memory, else the one whose id the tag is.
ResolvedUser(tag) ==
  IF cache.pendingUserId # Nobody THEN cache.pendingUserId
  ELSE IF tag \in User THEN tag ELSE Nobody

\* SET NX: a holder stays.
AcquireLock(c, tx) == lock' = IF lock[c] = Null THEN [lock EXCEPT ![c] = tx] ELSE lock

\* The start goes on when another holds the connector.
MarkChargingActive(h) ==
  /\ At(h, "lock")
  /\ AcquireLock(run[h].c, run[h].tx)
  /\ run' = [run EXCEPT ![h].pc = "find", ![h].tag = "card", ![h].user = ResolvedUser(run[h].tag)]
  /\ UNCHANGED <<state, charger, session, txCounter, faults, history>>

Found(r, i) == [r EXCEPT !.pc = "update", !.id = i, !.user = Nobody]

\* A session with this id, or an open one of the connector, is returned instead.
CreateSessionFind(h) ==
  /\ At(h, "find")
  /\ LET known == WithTx(run[h].tx)
         there == IF known # {} THEN known ELSE OpenOn(run[h].c)
     IN IF there = {} THEN Goto(h, "create") /\ UNCHANGED history
        ELSE /\ \E i \in there : run' = [run EXCEPT ![h] = Found(run[h], i)]
             /\ Expose({run[h].tx})
  /\ UNCHANGED <<state, charger, session, txCounter, lock, faults>>

\* The sessions that the charger has still to stop.
Others(c) == Live \cup ({plug[d].id : d \in Connector \ {c}} \ {Null})

\* Sessions of two connectors touch each other.
CreateSession(h) ==
  /\ At(h, "create")
  /\ LET i == Cardinality(Rows) + 1 IN
       /\ session' = [session EXCEPT ![i] = [c |-> run[h].c, tx |-> run[h].tx, user |-> run[h].user,
                        ended |-> FALSE, stopped |-> FALSE]]
       /\ run' = [run EXCEPT ![h] = Found(run[h], i)]
  /\ IF Others(run[h].c) = {} THEN UNCHANGED history
     ELSE Expose(TxOf(Others(run[h].c)) \cup {run[h].tx})
  /\ UNCHANGED <<state, charger, txCounter, lock, faults>>

\* updateChargerState; the pending user is not among the keys it writes.
UpdateState(h) ==
  /\ At(h, "update")
  /\ Issue(h, [connector |-> run[h].c, transactionId |-> session[run[h].id].tx,
               ocppTransactionId |-> run[h].id, pendingUserId |-> Null])
  /\ Goto(h, "status")
  /\ UNCHANGED <<row, cache, charger, session, txCounter, lock, faults, history>>

\* updateSessionStatus, once the update is done; nothing here depends on the status.
ConfirmSession(h) ==
  /\ At(h, "status") /\ Idle(h)
  /\ Goto(h, "reply")
  /\ UNCHANGED <<state, charger, session, txCounter, lock, faults, history>>

\* The answer names the key of the session, and the charger begins.
Reply(h) ==
  /\ At(h, "reply")
  /\ Answer(h, run[h].c, [Unplugged EXCEPT !.at = "on", !.id = run[h].id])
  /\ UNCHANGED <<state, session, txCounter, lock, faults, history>>

-----------------------------------------------------------------------------
\* MeterValues

\* The reading is that of the transaction the state names; its key is taken for
\* it if there is none.
MeterValues(h, c) ==
  LET s  == Loaded
      tx == IF s.transactionId # Null THEN s.transactionId ELSE s.ocppTransactionId
  IN /\ plug[c].at = "on" /\ s.ocppTransactionId # Null
     /\ Call(h, [NoRun EXCEPT !.kind = "meter", !.pc = "bill", !.c = c, !.tx = tx, !.id = plug[c].id])
     /\ Issue(h, << >>)
     /\ cache' = s
     /\ UNCHANGED <<row, plug, session, txCounter, lock, faults>>

\* processMeterValuesBilling, after the update; an ended session is not billed.
Bill(h) ==
  /\ At(h, "bill") /\ Idle(h)
  /\ misled' = misled \cup {session[i].tx : i \in (WithTx(run[h].tx) \cap Open) \ {run[h].id}}
  /\ Answer(h, run[h].c, plug[run[h].c])
  /\ UNCHANGED <<state, session, txCounter, lock, faults, exposed, lost, astray>>

-----------------------------------------------------------------------------
\* StopTransaction

\* The transaction of the state, or the one the charger names.
ActiveTransaction(s, id) ==
  IF s.transactionId # Null THEN s.transactionId ELSE session[id].tx

StopTransaction(h, c) ==
  LET s == Loaded IN
  /\ plug[c].at = "stopping"
  /\ Call(h, [NoRun EXCEPT !.kind = "stop", !.pc = "finalise", !.c = c, !.at = s.connector,
                           !.tx = ActiveTransaction(s, plug[c].id), !.id = plug[c].id])
  /\ cache' = s
  /\ UNCHANGED <<row, write, plug, session, txCounter, lock, faults>>

Finalise(h) ==
  /\ At(h, "finalise")
  /\ session' = [i \in 1..MaxId |-> IF i \in WithTx(run[h].tx)
                   THEN [session[i] EXCEPT !.ended = TRUE, !.stopped = TRUE]
                   ELSE session[i]]
  /\ Goto(h, "release")
  /\ misled' = misled \cup (TxOf(WithTx(run[h].tx) \cap Live) \ TxOf({run[h].id}))
  /\ UNCHANGED <<state, charger, txCounter, lock, faults, exposed, lost, astray>>

\* An exception: the state keeps the key of the session.
FinaliseFails(h, l) ==
  /\ At(h, "finalise") /\ Fault
  /\ Idle(l) /\ Issue(l, [transactionId |-> Null])
  /\ Answer(h, run[h].c, Unplugged)
  /\ Expose({run[h].tx})
  /\ UNCHANGED <<row, cache, session, txCounter, lock>>

\* Mutant: the holder is compared with the key of the session.
ReleaseLockOfKey(h) ==
  /\ At(h, "release")
  /\ Goto(h, IF run[h].at \in Connector /\ lock[run[h].at] = run[h].id THEN "delete" ELSE "reset")
  /\ astray' = IF run[h].at = run[h].c THEN astray ELSE astray \cup {run[h].tx}
  /\ UNCHANGED <<state, charger, session, txCounter, lock, faults, exposed, lost, misled>>

\* releaseLock, for the connector the state named: GET and, if it is the holder, DEL.
ReleaseLock(h) ==
  /\ At(h, "release")
  /\ Goto(h, IF run[h].at \in Connector /\ lock[run[h].at] = run[h].tx THEN "delete" ELSE "reset")
  /\ astray' = IF run[h].at = run[h].c THEN astray ELSE astray \cup {run[h].tx}
  /\ UNCHANGED <<state, charger, session, txCounter, lock, faults, exposed, lost, misled>>

DeleteLock(h) ==
  /\ At(h, "delete")
  /\ lock' = [lock EXCEPT ![run[h].at] = Null]
  /\ Goto(h, "reset")
  /\ UNCHANGED <<state, charger, session, txCounter, faults, history>>

\* The state is reset without waiting, and the charger is answered.
Reset(h, l) ==
  /\ At(h, "reset")
  /\ Idle(l) /\ Issue(l, [transactionId |-> Null, ocppTransactionId |-> Null])
  /\ lost' = lost \cup (TxOf({run[h].id}) \cap TxOf(Live))
  /\ Answer(h, run[h].c, Unplugged)
  /\ UNCHANGED <<row, cache, session, txCounter, lock, faults, exposed, misled, astray>>

-----------------------------------------------------------------------------
\* Heartbeat, BootNotification and StatusNotification: an update nobody waits for.

Heartbeat(l) ==
  /\ calling = Nobody
  /\ Idle(l) /\ Issue(l, << >>)
  /\ UNCHANGED <<row, cache, charger, run, session, txCounter, lock, faults, history>>

\* The state of a charger that boots is not reset, whatever it was doing.
BootNotification(l) == Heartbeat(l)

\* The update names the connector, 0 for the charger itself.  That of a fault may
\* end a session, see FaultEnds.
StatusNotification(l, c) ==
  /\ calling = Nobody
  /\ Idle(l) /\ Issue(l, [connector |-> c])
  /\ UNCHANGED <<row, cache, charger, run, session, txCounter, lock, faults, history>>

-----------------------------------------------------------------------------
\* Sessions that end before their stop.  The lock of the connector is left to it;
\* a session whose start the charger has no answer to is touched.  Bound: they are
\* counted with the faults.

EndEarly(i) ==
  /\ i \in Open /\ Fault
  /\ session' = [session EXCEPT ![i].ended = TRUE]
  /\ Expose(TxOf({i} \ {plug[c].id : c \in Connector}))
  /\ UNCHANGED <<state, charger, run, txCounter, lock>>

\* The listener of session:faulted, which runs on after the notification that
\* emitted the event, where no refund is due: i was the session started last when
\* the notification looked, and open when the listener did.
FaultEnds(i) == EndEarly(i)

\* The worker of the grace period, once the charger agreed to stop what the state
\* names, as it may at any time by Unplug.
GraceEnds(i) == EndEarly(i)

-----------------------------------------------------------------------------
\* What goes on beside the calls, and what goes wrong.

\* The database carries an update out.  One that takes the transaction from the
\* row of a session touches it.
WriteRow(w) ==
  /\ Upsert(w)
  /\ IF row'.transactionId # row.transactionId
     THEN Expose({row.transactionId} \cap TxOf(Live)) ELSE UNCHANGED history
  /\ UNCHANGED <<charger, run, session, txCounter, lock, faults>>

\* The answer is copied; one that another update has overtaken touches them all.
WriteCache(w) ==
  /\ Merge(w)
  /\ IF write[w].fields # row THEN Expose(TxOf(Live)) ELSE UNCHANGED history
  /\ UNCHANGED <<charger, run, session, txCounter, lock, faults>>

\* The charger waits no longer, and will repeat a start or a stop.
TimeOut ==
  /\ calling # Nobody /\ Fault
  /\ calling' = Nobody
  /\ UNCHANGED <<state, plug, run, session, txCounter, lock, history>>

\* An exception ends the handler; the charger is answered an error.
Dies(h) ==
  /\ run[h].kind \in {"start", "meter"} /\ Idle(h) /\ Fault
  /\ Answer(h, run[h].c, plug[run[h].c])
  /\ Expose({run[h].tx})
  /\ UNCHANGED <<state, session, txCounter, lock>>

Restart ==
  /\ txCounter # Null /\ Fault
  /\ cache' = Blank /\ write' = [w \in Writer |-> NoWrite]
  /\ calling' = Nobody /\ run' = [h \in Handler |-> NoRun]
  /\ txCounter' = Null
  /\ Expose(TxOf(Live) \cup {run[h].tx : h \in Handler})
  /\ UNCHANGED <<row, plug, session, lock>>

Max0(S) == IF S = {} THEN 0 ELSE CHOOSE x \in S : \A y \in S : y <= x

\* Mutant: the counter starts at the highest id.
InitTransactionCounterAtMax ==
  /\ txCounter = Null
  /\ txCounter' = IF Rows = {} THEN 1 ELSE Max0(TxOf(Rows))
  /\ UNCHANGED <<state, charger, run, session, lock, faults, history>>

\* Calls of chargers may arrive before it.
InitTransactionCounter ==
  /\ txCounter = Null
  /\ txCounter' = Max0(TxOf(Rows)) + 1
  /\ UNCHANGED <<state, charger, run, session, lock, faults, history>>

\* The key of the lock lives for a day.
LockExpires(c) ==
  /\ lock[c] # Null /\ Fault
  /\ lock' = [lock EXCEPT ![c] = Null]
  /\ UNCHANGED <<state, charger, run, session, txCounter, history>>

-----------------------------------------------------------------------------
Init ==
  /\ ChargerStateInit
  /\ plug = [c \in Connector |-> Unplugged] /\ calling = Nobody
  /\ run = [h \in Handler |-> NoRun]
  /\ session = [i \in 1..MaxId |-> NoSession]
  /\ txCounter = Null
  /\ lock = [c \in Connector |-> Null]
  /\ faults = 0
  /\ exposed = {} /\ lost = {} /\ misled = {} /\ astray = {}

Driver == \E c \in Connector :
  \/ \E tag \in Comes[c] \ {"app"} : PresentTag(c, tag)
  \/ "app" \in Comes[c] /\ \E user \in User : StartCharging(user, c)
  \/ "card" \in Comes[c] /\ AdminRemoteStart(c)
  \/ StopCharging(c) \/ AdminRemoteStop(c) \/ Unplug(c)

Calls == \E h \in Handler, c \in Connector :
  StartTransaction(h, c) \/ MeterValues(h, c) \/ StopTransaction(h, c)

Notices == \E l \in Late :
  \/ Heartbeat(l) \/ BootNotification(l)
  \/ \E c \in Reported : StatusNotification(l, c)

HandlerStep(h) ==
  \/ Authorise(h) \/ Refuse(h) \/ MarkChargingActive(h)
  \/ CreateSessionFind(h) \/ CreateSession(h) \/ UpdateState(h)
  \/ ConfirmSession(h) \/ Reply(h) \/ Bill(h)
  \/ Finalise(h) \/ ReleaseLock(h) \/ DeleteLock(h)
  \/ \E l \in Late : Reset(h, l)

EarlyEnds == \E i \in Open : FaultEnds(i) \/ GraceEnds(i)

Progress == (\E h \in Handler : HandlerStep(h)) \/ (\E w \in Writer : WriteRow(w) \/ WriteCache(w))

Trouble ==
  \/ TimeOut \/ Restart
  \/ \E h \in Handler : Dies(h) \/ \E l \in Late : FinaliseFails(h, l)
  \/ \E c \in Connector : LockExpires(c)

Next == Driver \/ Calls \/ Notices \/ EarlyEnds \/ Progress \/ InitTransactionCounter \/ Trouble

Spec == Init /\ [][Next]_vars

-----------------------------------------------------------------------------
\* A start is given an id that no session and no other start has, also after a
\* restart of the server, which reads the counter from the table: createSession
\* never takes the session of another for its own.
FreshId == \A h \in Handler : run[h].kind = "start" /\ run[h].pc \in {"authorise", "lock", "find", "create"} =>
  /\ WithTx(run[h].tx) = {}
  /\ \A g \in Handler \ {h} : run[g].kind = "start" => run[g].tx # run[h].tx

\* A stop that is answered was that of the session the charger names, and a session
\* is ended by no stop, and billed for no reading, of another: except where two
\* connectors are in use at a time, the charger repeats a call whose handler still
\* runs, a start is given the session another had left open, or one that ends
\* before the charger has the answer, a handler dies or the server restarts, or the
\* answers of the database to two updates overtake each other.
NoMixUp == lost \cup misled \subseteq exposed

\* The lock of a connector is held by a start or stop that is running, by the open
\* session of the connector or by one that a fault or the worker of the grace
\* period has ended and the charger there has still to stop; besides the cases
\* above, it is left behind, for a day, by a start that was given the session
\* another had left open, and where the state named another connector when the
\* session was stopped, which every heartbeat on a charger with two makes it do.
LockFollows == \A c \in Connector :
  lock[c] # Null =>
    lock[c] \in {run[h].tx : h \in Handler} \cup TxOf(OpenOn(c))
               \cup TxOf({plug[c].id} \cap Rows) \cup exposed \cup astray
=============================================================================
