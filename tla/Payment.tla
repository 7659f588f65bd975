------------------------------- MODULE Payment -------------------------------
(***************************************************************************)
(* Topping up a wallet through PayHere.  The app asks for a payment, the   *)
(* driver pays on the gateway's page, perhaps at the second attempt, and   *)
(* the gateway sends notifications, which may be delayed, repeated and     *)
(* overtake one another, until one is answered 200.  The handler writes    *)
(* the status into the row of the payment and then credits the wallet; in  *)
(* between, other handlers run, calls fail and the process may die.        *)
(***************************************************************************)
EXTENDS SignIn, Naturals

CONSTANTS
  Order,
  PaymentId,   \* one per attempt to pay: payment_id
  NoId,        \* the payment_id of an attempt the gateway gives none
  Code,        \* the status codes the gateway sends
  Handler,     \* requests the process may be at work on at once, numbered
  MaxFaults    \* errors of a call and crashes

ASSUME PaymentAssumption ==
  /\ NoId \in PaymentId /\ Order \cap PaymentId = {}
  /\ "2" \in Code /\ Handler \subseteq Nat /\ MaxFaults \in Nat

VARIABLES
  row,         \* row[o]: status and payherePaymentId of the Payment row
  checkout,    \* the orders whose page the driver was sent to
  ledger,      \* the TOP_UP entries
  sent,        \* the notifications there are
  answered,    \* those that were answered 200
  run,         \* run[h]: the step of a handler and its notification
  faults,
  lost         \* history: orders whose credit was given up, see below

vars == <<account, row, checkout, ledger, sent, answered, run, faults, lost>>

Status == {"PENDING", "PROCESSING", "SUCCESS", "FAILED", "CANCELLED", "EXPIRED"}
Notification == [order : Order, payment : PaymentId, code : Code]

NoRow  == [status |-> "none", payment |-> NoId]
Idle   == [at |-> "idle", msg |-> <<>>]

\* statusMap
StatusOf(code) ==
  CASE code = "0"  -> "PENDING"   [] code = "1"  -> "PROCESSING" [] code = "2"  -> "SUCCESS"
    [] code = "-1" -> "CANCELLED" [] code = "-3" -> "EXPIRED"    [] OTHER      -> "FAILED"

\* topUp is given the payment's id or, if there is none, the order's.
Reference(o, p) == IF p = NoId THEN o ELSE p

Entry(o, p) == [key |-> <<o, p>>, reference |-> Reference(o, p)]

TypeOK ==
  /\ SignInTypeOK
  /\ row \in [Order -> [status : Status \cup {"none"}, payment : PaymentId]]
  /\ checkout \subseteq Order
  /\ ledger \subseteq [key : Order \X PaymentId, reference : Order \cup PaymentId]
  /\ sent \subseteq Notification
  /\ answered \subseteq sent
  /\ run \in [Handler -> [at : {"find", "update", "check", "key", "commit", "session"}, msg : sent] \cup {Idle}]
  /\ faults \in 0..MaxFaults
  /\ lost \subseteq Order

-----------------------------------------------------------------------------
\* The app and the gateway

\* initiatePayment writes the row, and again with the hash of the form.
NewPayment == [status |-> "PENDING", payment |-> NoId]

\* topUpWallet, when verifyToken is through; what another request of the person is
\* still at makes no difference then, and is left out.
TopUpWallet(o, q) ==
  /\ row[o] = NoRow /\ Proceed(q, "served", "idle")
  /\ \A r \in Request \ {q} : request[r] = "idle"
  /\ row' = [row EXCEPT ![o] = NewPayment]
  /\ UNCHANGED <<user, wallet, checkout, ledger, sent, answered, run, faults, lost>>

\* The first requests of a person: another page, or the payment.
FirstRequest(q) ==
  /\ \E o \in Order : row[o] = NoRow
  /\ \/ VerifyToken(q) \/ SignInStep(q)
     \/ Proceed(q, "served", "idle") /\ UNCHANGED <<user, wallet>>
  /\ UNCHANGED <<row, checkout, ledger, sent, answered, run, faults, lost>>

SendToCheckout(o) ==
  /\ row[o] # NoRow /\ o \notin checkout
  /\ checkout' = checkout \cup {o}
  /\ UNCHANGED <<account, row, ledger, sent, answered, run, faults, lost>>

Paid(o) == \E n \in sent : n.order = o /\ n.code = "2"

\* An attempt comes to something.  The gateway takes the money of an order once,
\* and has nothing more to say about an attempt that succeeded.
Notify(o, p, code) ==
  /\ o \in checkout
  /\ code = "2" => ~Paid(o)
  /\ [order |-> o, payment |-> p, code |-> "2"] \notin sent
  /\ sent' = sent \cup {[order |-> o, payment |-> p, code |-> code]}
  /\ UNCHANGED <<account, row, checkout, ledger, answered, run, faults, lost>>

\* handlePaymentCancel: the driver comes back from the gateway's page.
HandlePaymentCancel(o) ==
  /\ o \in checkout
  /\ row' = [row EXCEPT ![o].status = "CANCELLED"]
  /\ UNCHANGED <<account, checkout, ledger, sent, answered, run, faults, lost>>

-----------------------------------------------------------------------------
\* handlePayHereWebhook

At(h, step) == run[h].at = step

Goto(h, step) == run' = [run EXCEPT ![h].at = step]

\* 200, whatever was done.
Answer(h) ==
  /\ answered' = answered \cup {run[h].msg}
  /\ run' = [run EXCEPT ![h] = Idle]

\* The signature is right.  Handlers are numbered; the first idle one is taken.
Receive(h, n) ==
  /\ At(h, "idle") /\ n \in sent
  /\ \A g \in Handler : g < h => ~At(g, "idle")
  /\ run' = [run EXCEPT ![h] = [at |-> "find", msg |-> n]]
  /\ UNCHANGED <<account, row, checkout, ledger, sent, answered, faults, lost>>

\* A repeated success.
Processed(h) == row[run[h].msg.order].status = "SUCCESS" /\ run[h].msg.code = "2"

Find(h) ==
  /\ At(h, "find")
  /\ \/ Processed(h) /\ Answer(h)
     \/ ~Processed(h) /\ Goto(h, "update") /\ UNCHANGED answered
  /\ UNCHANGED <<account, row, checkout, ledger, sent, faults, lost>>

\* The row is written, whatever it holds by now.
UpdatePayment(h) ==
  LET n == run[h].msg IN
  /\ At(h, "update")
  /\ row' = [row EXCEPT ![n.order] = [status |-> StatusOf(n.code), payment |-> n.payment]]
  /\ \/ StatusOf(n.code) = "SUCCESS" /\ Goto(h, "check") /\ UNCHANGED answered
     \/ StatusOf(n.code) # "SUCCESS" /\ Answer(h)
  /\ UNCHANGED <<account, checkout, ledger, sent, faults, lost>>

\* existingLedger: an entry whose reference is the order.
FindLedger(h) ==
  /\ At(h, "check")
  /\ \/ (\E e \in ledger : e.reference = run[h].msg.order) /\ Answer(h)
     \/ (\A e \in ledger : e.reference # run[h].msg.order) /\ Goto(h, "key") /\ UNCHANGED answered
  /\ UNCHANGED <<account, row, checkout, ledger, sent, faults, lost>>

\* Mutant: the row is read again for the id of the payment.
CreditOfRow(h) == Entry(run[h].msg.order, row[run[h].msg.order].payment)

\* The payment as the update of this handler returned it.
Credit(h) == Entry(run[h].msg.order, run[h].msg.payment)

KeyUsed(key) == \E e \in ledger : e.key = key

\* topUp looks the key up before its transaction.
LookUpKey(h) ==
  /\ At(h, "key")
  /\ Goto(h, IF KeyUsed(Credit(h).key) THEN "session" ELSE "commit")
  /\ UNCHANGED <<account, row, checkout, ledger, sent, answered, faults, lost>>

\* topUp
TopUp(h) ==
  /\ At(h, "commit") /\ wallet /\ ~KeyUsed(Credit(h).key)
  /\ ledger' = ledger \cup {Credit(h)}
  /\ Goto(h, "session")
  /\ UNCHANGED <<account, row, checkout, sent, answered, faults, lost>>

\* The session of the driver is told, see GracePeriod.
TellSession(h) ==
  /\ At(h, "session")
  /\ Answer(h)
  /\ UNCHANGED <<account, row, checkout, ledger, sent, faults, lost>>

\* The order whose credit is given up when a handler stops here.
GivenUp(h) == IF At(h, "idle") \/ At(h, "session") \/ run[h].msg.code # "2" THEN {} ELSE {run[h].msg.order}

\* Without a wallet, or with the key taken by now, topUp throws.
TopUpRefused(h) ==
  /\ At(h, "commit") /\ (~wallet \/ KeyUsed(Credit(h).key))
  /\ Answer(h)
  /\ UNCHANGED <<account, row, checkout, ledger, sent, faults, lost>>

-----------------------------------------------------------------------------
\* Failures

\* A call of the handler throws, a conflict with another writer of the wallet
\* included: 200 is answered, and the gateway does not send it again.
Throws(h) ==
  /\ ~At(h, "idle") /\ faults < MaxFaults
  /\ faults' = faults + 1
  /\ Answer(h)
  /\ lost' = lost \cup GivenUp(h)
  /\ UNCHANGED <<account, row, checkout, ledger, sent>>

\* A call of verifyToken throws.
RequestFails(q) ==
  /\ faults < MaxFaults
  /\ faults' = faults + 1
  /\ SignInFails(q)
  /\ UNCHANGED <<row, checkout, ledger, sent, answered, run, lost>>

\* Nobody is answered, so the gateway sends it again; where the row says SUCCESS
\* already that will be taken for a repeated one.
Crash ==
  /\ faults < MaxFaults
  /\ faults' = faults + 1
  /\ run' = [h \in Handler |-> Idle] /\ SignInCrash
  /\ lost' = lost \cup UNION {IF At(h, "find") \/ At(h, "update") THEN {} ELSE GivenUp(h) : h \in Handler}
  /\ UNCHANGED <<row, checkout, ledger, sent, answered>>

-----------------------------------------------------------------------------
Init ==
  /\ SignInInit
  /\ row = [o \in Order |-> NoRow]
  /\ checkout = {}
  /\ ledger = {} /\ sent = {} /\ answered = {}
  /\ run = [h \in Handler |-> Idle]
  /\ faults = 0 /\ lost = {}

HandlerStep(h) ==
  \/ Find(h) \/ UpdatePayment(h) \/ FindLedger(h) \/ LookUpKey(h)
  \/ TopUp(h) \/ TopUpRefused(h) \/ TellSession(h)

Next ==
  \/ \E q \in Request : FirstRequest(q) \/ RequestFails(q)
  \/ \E o \in Order, q \in Request : TopUpWallet(o, q)
  \/ \E o \in Order : SendToCheckout(o) \/ HandlePaymentCancel(o)
  \/ \E o \in Order, p \in PaymentId, code \in Code : Notify(o, p, code)
  \/ \E h \in Handler, n \in sent : Receive(h, n)
  \/ \E h \in Handler : HandlerStep(h) \/ Throws(h)
  \/ Crash

\* A notification that was not answered is sent again, and a handler goes on.
Fairness ==
  /\ \A n \in Notification : SF_vars(n \notin answered /\ \E h \in Handler : Receive(h, n))
  /\ \A h \in Handler : WF_vars(HandlerStep(h))

Spec == Init /\ [][Next]_vars /\ Fairness

-----------------------------------------------------------------------------
\* Money is put into a wallet only for a payment the gateway took, and once for
\* it, however its notifications are repeated, reordered and handled at once
\* (payment.controller: the look-up of the ledger and the idempotency key).
CreditedOnce ==
  \A e \in ledger :
    /\ [order |-> e.key[1], payment |-> e.key[2], code |-> "2"] \in sent
    /\ \A f \in ledger : f.key[1] = e.key[1] => f = e

Credited(o) == \E e \in ledger : e.key[1] = o

\* A payment the gateway took is credited, also when the notifications of its
\* other attempts come later and when the driver came back through the cancel
\* page, and whatever failed when the driver signed in first (verifyToken sees to
\* the wallet).  The exceptions are those the code accepts: a handler that failed
\* answers 200 "for manual investigation", and one that dies
\* between the SUCCESS of the row and the credit leaves a row that makes the
\* next notification a duplicate (payment.controller:40-95).
PaidIsCredited == \A o \in Order : Paid(o) ~> (Credited(o) \/ o \in lost)
=============================================================================
