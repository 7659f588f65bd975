---------------------------- MODULE Payment_proofs ----------------------------
(***************************************************************************)
(* Theorems about Payment, for any orders, attempts, status codes, number  *)
(* of requests and handlers at once, and errors and crashes.               *)
(***************************************************************************)
EXTENDS Payment, TLAPS

-----------------------------------------------------------------------------
\* The inductive invariant

Success(o, p) == [order |-> o, payment |-> p, code |-> "2"]

\* The gateway takes the money of an order once.
PaidOnce == \A m, n \in sent : m.code = "2" /\ n.code = "2" /\ m.order = n.order => m = n

\* A handler that is past the row has a success in hand.
HasSuccess == \A h \in Handler :
  run[h].at \in {"check", "key", "commit", "session"} => run[h].msg.code = "2"

\* An entry of the ledger stems from a success and follows from its key.
Backed == \A e \in ledger :
  /\ Success(e.key[1], e.key[2]) \in sent
  /\ e = Entry(e.key[1], e.key[2])

IInv == TypeOK /\ PaidOnce /\ HasSuccess /\ Backed

-----------------------------------------------------------------------------
\* The parts of the state that most steps leave alone

RunType == run \in [Handler -> [at : {"find", "update", "check", "key", "commit", "session"}, msg : sent] \cup {Idle}]

TablesType ==
  /\ row \in [Order -> [status : Status \cup {"none"}, payment : PaymentId]]
  /\ checkout \subseteq Order
  /\ ledger \subseteq [key : Order \X PaymentId, reference : Order \cup PaymentId]
  /\ sent \subseteq Notification
  /\ lost \subseteq Order

LEMMA TypeParts ==
  TypeOK <=> SignInTypeOK /\ TablesType /\ RunType /\ answered \subseteq sent /\ faults \in 0..MaxFaults
BY DEF TypeOK, TablesType, RunType

LEMMA NextTypeParts ==
  ASSUME SignInTypeOK', TablesType', RunType', (answered \subseteq sent)', (faults \in 0..MaxFaults)'
  PROVE  TypeOK'
BY DEF TypeOK, TablesType, RunType

\* A handler at work has a notification in hand.
LEMMA InHand ==
  ASSUME RunType, NEW h \in Handler, run[h].at # "idle"
  PROVE  run[h] \in [at : {"find", "update", "check", "key", "commit", "session"}, msg : sent]
BY DEF RunType, Idle

LEMMA MovesOn ==
  ASSUME RunType, NEW h \in Handler, run[h].at # "idle", sent' = sent,
         NEW step \in {"find", "update", "check", "key", "commit", "session"}, Goto(h, step)
  PROVE  /\ RunType'
         /\ \A g \in Handler : run'[g].msg = run[g].msg
         /\ \A g \in Handler : run'[g].at = IF g = h THEN step ELSE run[g].at
<1>1. run[h] \in [at : {"find", "update", "check", "key", "commit", "session"}, msg : sent]
  BY InHand
<1>2. run' = [run EXCEPT ![h] = [run[h] EXCEPT !.at = step]]
  BY DEF Goto
<1>3. [run[h] EXCEPT !.at = step] \in [at : {"find", "update", "check", "key", "commit", "session"}, msg : sent]
  BY <1>1
<1> QED BY <1>1, <1>2, <1>3 DEF RunType

\* The end of a handler.
LEMMA Answers ==
  ASSUME RunType, answered \subseteq sent, HasSuccess, NEW h \in Handler, run[h].at # "idle",
         sent' = sent, Answer(h)
  PROVE  RunType' /\ (answered \subseteq sent)' /\ HasSuccess'
<1>1. run[h].msg \in sent
  BY InHand
<1>2. run' \in [Handler -> [at : {"find", "update", "check", "key", "commit", "session"}, msg : sent] \cup {Idle}]
  BY DEF Answer, RunType
<1>3. \A g \in Handler : run'[g] = run[g] \/ run'[g] = Idle
  BY DEF Answer, RunType
<1>4. HasSuccess'
  BY <1>3 DEF HasSuccess, Idle
<1> QED BY <1>1, <1>2, <1>4 DEF Answer, RunType

LEMMA SuccessCode ==
  ASSUME NEW code, StatusOf(code) = "SUCCESS"
  PROVE  code = "2"
BY DEF StatusOf

LEMMA StatusOfType ==
  ASSUME NEW code
  PROVE  StatusOf(code) \in Status
BY DEF StatusOf, Status

\* Nobody is given a right by a request of the app.
LEMMA SignInKeepsType ==
  ASSUME SignInTypeOK, NEW q \in Request,
         \/ VerifyToken(q) \/ SignInStep(q) \/ SignInFails(q) \/ SignInCrash
         \/ Proceed(q, "served", "idle") /\ UNCHANGED <<user, wallet>>
  PROVE  SignInTypeOK'
<1> USE DEF SignInTypeOK, Proceed
<1>1. CASE VerifyToken(q)
  BY <1>1 DEF VerifyToken
<1>2. CASE FindUser(q)
  BY <1>2 DEF FindUser
<1>3. CASE FindByEmail(q)
  BY <1>3 DEF FindByEmail
<1>4. CASE LinkUser(q)
  BY <1>4 DEF LinkUser
<1>5. CASE CreateUser(q)
  BY <1>5 DEF CreateUser
<1>6. CASE FindWallet(q)
  BY <1>6 DEF FindWallet
<1>7. CASE CreateWallet(q)
  BY <1>7 DEF CreateWallet
<1>8. CASE SignInFails(q)
  BY <1>8 DEF SignInFails
<1>9. CASE SignInCrash
  BY <1>9 DEF SignInCrash
<1>10. CASE Proceed(q, "served", "idle") /\ UNCHANGED <<user, wallet>>
  BY <1>10
<1> QED BY <1>1, <1>2, <1>3, <1>4, <1>5, <1>6, <1>7, <1>8, <1>9, <1>10 DEF SignInStep

-----------------------------------------------------------------------------
\* The steps

LEMMA InitEstablishes == Init => IInv
<1> SUFFICES ASSUME Init PROVE IInv
  OBVIOUS
<1>1. NoId \in PaymentId /\ 0 \in 0..MaxFaults
  BY PaymentAssumption
<1>2. SignInTypeOK
  BY DEF Init, SignInInit, SignInTypeOK
<1>3. RunType
  BY DEF Init, RunType
<1>4. TablesType /\ answered \subseteq sent /\ faults \in 0..MaxFaults
  BY <1>1 DEF Init, TablesType, NoRow
<1>5. PaidOnce /\ HasSuccess /\ Backed
  BY DEF Init, PaidOnce, HasSuccess, Backed, Idle
<1> QED BY <1>2, <1>3, <1>4, <1>5, TypeParts DEF IInv

\* What the app does, and its requests.
LEMMA AppStep ==
  ASSUME IInv,
         \/ \E q \in Request : FirstRequest(q) \/ RequestFails(q)
         \/ \E o \in Order, q \in Request : TopUpWallet(o, q)
         \/ \E o \in Order : SendToCheckout(o) \/ HandlePaymentCancel(o)
  PROVE  IInv'
<1>1. SignInTypeOK /\ TablesType /\ RunType /\ answered \subseteq sent /\ faults \in 0..MaxFaults
  BY TypeParts DEF IInv
<1>2. UNCHANGED <<ledger, sent, answered, run, lost>>
  BY DEF FirstRequest, RequestFails, TopUpWallet, SendToCheckout, HandlePaymentCancel
<1>3. PaidOnce' /\ HasSuccess' /\ Backed' /\ RunType' /\ (answered \subseteq sent)'
  BY <1>1, <1>2 DEF IInv, PaidOnce, HasSuccess, Backed, RunType
<1>4. SignInTypeOK'
  <2>1. ASSUME NEW q \in Request, FirstRequest(q) PROVE SignInTypeOK'
    BY <1>1, <2>1, SignInKeepsType DEF FirstRequest
  <2>2. ASSUME NEW q \in Request, RequestFails(q) PROVE SignInTypeOK'
    BY <1>1, <2>2, SignInKeepsType DEF RequestFails
  <2>3. ASSUME NEW o \in Order, NEW q \in Request, TopUpWallet(o, q) PROVE SignInTypeOK'
    BY <1>1, <2>3, SignInKeepsType DEF TopUpWallet
  <2>4. ASSUME NEW o \in Order, SendToCheckout(o) \/ HandlePaymentCancel(o) PROVE SignInTypeOK'
    BY <1>1, <2>4 DEF SendToCheckout, HandlePaymentCancel, SignInTypeOK, account
  <2> QED BY <2>1, <2>2, <2>3, <2>4
<1>5. (faults \in 0..MaxFaults)'
  BY <1>1, PaymentAssumption DEF FirstRequest, RequestFails, TopUpWallet, SendToCheckout, HandlePaymentCancel
<1>6. TablesType'
  <2>1. NewPayment \in [status : Status \cup {"none"}, payment : PaymentId]
    BY PaymentAssumption DEF NewPayment, Status
  <2>2. row' \in [Order -> [status : Status \cup {"none"}, payment : PaymentId]]
    BY <1>1, <2>1 DEF TablesType, Status, FirstRequest, RequestFails, TopUpWallet, SendToCheckout, HandlePaymentCancel
  <2>3. checkout' \subseteq Order
    BY <1>1 DEF TablesType, FirstRequest, RequestFails, TopUpWallet, SendToCheckout, HandlePaymentCancel
  <2> QED BY <1>1, <1>2, <2>2, <2>3 DEF TablesType
<1> QED BY <1>3, <1>4, <1>5, <1>6, NextTypeParts DEF IInv

\* The gateway says something new; a second success of an order is not among it.
LEMMA NotifyStep ==
  ASSUME IInv, NEW o \in Order, NEW p \in PaymentId, NEW code \in Code, Notify(o, p, code)
  PROVE  IInv'
<1>1. SignInTypeOK /\ TablesType /\ RunType /\ answered \subseteq sent /\ faults \in 0..MaxFaults
  BY TypeParts DEF IInv
<1> DEFINE new == [order |-> o, payment |-> p, code |-> code]
<1>2. sent' = sent \cup {new} /\ new \in Notification
  BY DEF Notify, Notification
<1>3. PaidOnce'
  BY <1>2 DEF IInv, PaidOnce, Notify, Paid
<1>4. UNCHANGED <<account, row, checkout, ledger, answered, run, faults, lost>>
  BY DEF Notify
<1>5. HasSuccess' /\ Backed'
  BY <1>2, <1>4 DEF IInv, HasSuccess, Backed
<1>6. SignInTypeOK' /\ (faults \in 0..MaxFaults)' /\ (answered \subseteq sent)'
  BY <1>1, <1>2, <1>4 DEF SignInTypeOK, account
<1>7. TablesType'
  BY <1>1, <1>2, <1>4 DEF TablesType
<1>8. RunType'
  BY <1>1, <1>2, <1>4 DEF RunType
<1> QED BY <1>3, <1>5, <1>6, <1>7, <1>8, NextTypeParts DEF IInv

LEMMA ReceiveStep ==
  ASSUME IInv, NEW h \in Handler, NEW n \in sent, Receive(h, n)
  PROVE  IInv'
<1>1. SignInTypeOK /\ TablesType /\ RunType /\ answered \subseteq sent /\ faults \in 0..MaxFaults
  BY TypeParts DEF IInv
<1>2. UNCHANGED <<account, row, checkout, ledger, sent, answered, faults, lost>>
  BY DEF Receive
<1>3. run' = [run EXCEPT ![h] = [at |-> "find", msg |-> n]]
  BY DEF Receive
<1>4. RunType' /\ HasSuccess'
  BY <1>1, <1>2, <1>3 DEF RunType, HasSuccess, IInv
<1>5. SignInTypeOK' /\ TablesType' /\ PaidOnce' /\ Backed'
  BY <1>1, <1>2 DEF IInv, SignInTypeOK, account, TablesType, PaidOnce, Backed
<1>6. (faults \in 0..MaxFaults)' /\ (answered \subseteq sent)'
  BY <1>1, <1>2
<1> QED BY <1>4, <1>5, <1>6, NextTypeParts DEF IInv

\* A step of a handler that writes neither table.
LEMMA LookStep ==
  ASSUME IInv, NEW h \in Handler,
         UNCHANGED <<account, row, checkout, ledger, sent, lost>>,
         faults' \in 0..MaxFaults,
         \/ Answer(h)
         \/ /\ UNCHANGED answered
            /\ \/ Goto(h, "update")
               \/ run[h].msg.code = "2" /\ \E step \in {"check", "key", "commit", "session"} : Goto(h, step),
         run[h].at # "idle"
  PROVE  IInv'
<1>1. SignInTypeOK /\ TablesType /\ RunType /\ answered \subseteq sent /\ HasSuccess
  BY TypeParts DEF IInv
<1>2. SignInTypeOK' /\ TablesType' /\ PaidOnce' /\ Backed'
  BY <1>1 DEF IInv, SignInTypeOK, account, TablesType, PaidOnce, Backed
<1>3. RunType' /\ (answered \subseteq sent)' /\ HasSuccess'
  <2>1. CASE Answer(h)
    BY <1>1, <2>1, Answers
  <2>2. CASE UNCHANGED answered /\ Goto(h, "update")
    BY <1>1, <2>2, MovesOn DEF HasSuccess
  <2>3. CASE UNCHANGED answered /\ run[h].msg.code = "2" /\ \E step \in {"check", "key", "commit", "session"} : Goto(h, step)
    <3>1. PICK step \in {"check", "key", "commit", "session"} : Goto(h, step)
      BY <2>3
    <3> QED BY <1>1, <2>3, <3>1, MovesOn DEF HasSuccess
  <2> QED BY <2>1, <2>2, <2>3
<1> QED BY <1>2, <1>3, NextTypeParts DEF IInv

LEMMA UpdateStep ==
  ASSUME IInv, NEW h \in Handler, UpdatePayment(h)
  PROVE  IInv'
<1>1. SignInTypeOK /\ TablesType /\ RunType /\ answered \subseteq sent /\ faults \in 0..MaxFaults /\ HasSuccess
  BY TypeParts DEF IInv
<1> DEFINE n == run[h].msg
<1>2. UNCHANGED <<account, checkout, ledger, sent, faults, lost>> /\ run[h].at = "update" /\ n \in sent
  BY <1>1, InHand DEF UpdatePayment, At
<1>3. TablesType'
  <2>1. n.order \in Order /\ n.payment \in PaymentId
    BY <1>1, <1>2 DEF TablesType, Notification
  <2>2. [status |-> StatusOf(n.code), payment |-> n.payment] \in [status : Status \cup {"none"}, payment : PaymentId]
    BY <2>1, StatusOfType
  <2>3. row' = [row EXCEPT ![n.order] = [status |-> StatusOf(n.code), payment |-> n.payment]]
    BY DEF UpdatePayment
  <2> QED BY <1>1, <1>2, <2>1, <2>2, <2>3 DEF TablesType
<1>4. RunType' /\ (answered \subseteq sent)' /\ HasSuccess'
  <2>1. CASE Answer(h)
    BY <1>1, <1>2, <2>1, Answers
  <2>2. CASE StatusOf(n.code) = "SUCCESS" /\ Goto(h, "check") /\ UNCHANGED answered
    <3>1. n.code = "2"
      BY <2>2, SuccessCode
    <3> QED BY <1>1, <1>2, <2>2, <3>1, MovesOn DEF HasSuccess
  <2> QED BY <2>1, <2>2 DEF UpdatePayment
<1>5. SignInTypeOK' /\ PaidOnce' /\ Backed' /\ (faults \in 0..MaxFaults)'
  BY <1>1, <1>2 DEF IInv, SignInTypeOK, account, PaidOnce, Backed
<1> QED BY <1>3, <1>4, <1>5, NextTypeParts DEF IInv

\* The entry is that of a success the gateway sent.
LEMMA TopUpStep ==
  ASSUME IInv, NEW h \in Handler, TopUp(h)
  PROVE  IInv'
<1>1. SignInTypeOK /\ TablesType /\ RunType /\ answered \subseteq sent /\ faults \in 0..MaxFaults /\ HasSuccess
  BY TypeParts DEF IInv
<1>2. UNCHANGED <<account, row, checkout, sent, answered, faults, lost>> /\ run[h].at = "commit"
  BY DEF TopUp, At
<1> DEFINE o == run[h].msg.order
           p == run[h].msg.payment
<1>3. run[h].msg \in sent /\ run[h].msg.code = "2"
  BY <1>1, <1>2, InHand DEF HasSuccess
<1>4. o \in Order /\ p \in PaymentId /\ Success(o, p) = run[h].msg
  BY <1>1, <1>3 DEF TablesType, Notification, Success
<1>5. ledger' = ledger \cup {Entry(o, p)}
  BY DEF TopUp, Credit
<1>6. Backed'
  <2>1. Entry(o, p).key = <<o, p>>
    BY DEF Entry
  <2>2. Entry(o, p) = Entry(Entry(o, p).key[1], Entry(o, p).key[2]) /\ Success(Entry(o, p).key[1], Entry(o, p).key[2]) \in sent
    BY <1>3, <1>4, <2>1
  <2> QED BY <1>2, <1>5, <2>2 DEF IInv, Backed
<1>7. TablesType'
  <2>1. Entry(o, p) \in [key : Order \X PaymentId, reference : Order \cup PaymentId]
    BY <1>4 DEF Entry, Reference
  <2> QED BY <1>1, <1>2, <1>5, <2>1 DEF TablesType
<1>8. RunType' /\ HasSuccess'
  <2>1. Goto(h, "session")
    BY DEF TopUp
  <2> QED BY <1>1, <1>2, <1>3, <2>1, MovesOn DEF HasSuccess
<1>9. SignInTypeOK' /\ PaidOnce' /\ (answered \subseteq sent)' /\ (faults \in 0..MaxFaults)'
  BY <1>1, <1>2 DEF IInv, SignInTypeOK, account, PaidOnce
<1> QED BY <1>6, <1>7, <1>8, <1>9, NextTypeParts DEF IInv

LEMMA HandlerStepKeeps ==
  ASSUME IInv, NEW h \in Handler, HandlerStep(h)
  PROVE  IInv'
<1>1. faults \in 0..MaxFaults /\ HasSuccess
  BY TypeParts DEF IInv
<1>2. CASE Find(h)
  BY <1>1, <1>2, LookStep DEF Find, At
<1>3. CASE UpdatePayment(h)
  BY <1>3, UpdateStep
<1>4. CASE FindLedger(h)
  BY <1>1, <1>4, LookStep DEF FindLedger, At, HasSuccess
<1>5. CASE LookUpKey(h)
  BY <1>1, <1>5, LookStep DEF LookUpKey, At, HasSuccess
<1>6. CASE TopUp(h)
  BY <1>6, TopUpStep
<1>7. CASE TopUpRefused(h)
  BY <1>1, <1>7, LookStep DEF TopUpRefused, At
<1>8. CASE TellSession(h)
  BY <1>1, <1>8, LookStep DEF TellSession, At
<1> QED BY <1>2, <1>3, <1>4, <1>5, <1>6, <1>7, <1>8 DEF HandlerStep

LEMMA GivenUpIsOrder ==
  ASSUME TablesType, RunType, NEW h \in Handler
  PROVE  GivenUp(h) \subseteq Order
<1>1. CASE run[h].at = "idle"
  BY <1>1 DEF GivenUp, At
<1>2. CASE run[h].at # "idle"
  <2>1. run[h].msg.order \in Order
    BY <1>2, InHand DEF TablesType, Notification
  <2> QED BY <2>1 DEF GivenUp
<1> QED BY <1>1, <1>2

LEMMA FailureStep ==
  ASSUME IInv, Crash \/ \E h \in Handler : Throws(h)
  PROVE  IInv'
<1>1. SignInTypeOK /\ TablesType /\ RunType /\ answered \subseteq sent /\ faults \in 0..MaxFaults /\ HasSuccess
  BY TypeParts DEF IInv
<1>2. UNCHANGED <<row, checkout, ledger, sent>>
  BY DEF Crash, Throws
<1>3. faults' \in 0..MaxFaults
  BY <1>1, PaymentAssumption DEF Crash, Throws
<1>4. lost' \subseteq Order
  BY <1>1, GivenUpIsOrder DEF Crash, Throws, TablesType
<1>5. TablesType' /\ PaidOnce' /\ Backed'
  BY <1>1, <1>2, <1>4 DEF IInv, TablesType, PaidOnce, Backed
<1>6. SignInTypeOK'
  BY <1>1 DEF Crash, Throws, SignInTypeOK, SignInCrash, account
<1>7. RunType' /\ (answered \subseteq sent)' /\ HasSuccess'
  <2>1. CASE Crash
    BY <1>1, <1>2, <2>1 DEF Crash, RunType, HasSuccess, Idle
  <2>2. ASSUME NEW h \in Handler, Throws(h) PROVE RunType' /\ (answered \subseteq sent)' /\ HasSuccess'
    BY <1>1, <1>2, <2>2, Answers DEF Throws, At
  <2> QED BY <2>1, <2>2
<1> QED BY <1>3, <1>5, <1>6, <1>7, NextTypeParts DEF IInv

LEMMA NextKeeps == IInv /\ [Next]_vars => IInv'
<1> SUFFICES ASSUME IInv, [Next]_vars PROVE IInv'
  OBVIOUS
<1>1. CASE UNCHANGED vars
  <2>1. UNCHANGED <<account, row, checkout, ledger, sent, answered, run, faults, lost>>
    BY <1>1 DEF vars
  <2>2. SignInTypeOK' /\ TablesType' /\ RunType' /\ (answered \subseteq sent)' /\ (faults \in 0..MaxFaults)'
    BY <2>1, TypeParts DEF IInv, SignInTypeOK, account, TablesType, RunType
  <2>3. PaidOnce' /\ HasSuccess' /\ Backed'
    BY <2>1 DEF IInv, PaidOnce, HasSuccess, Backed
  <2> QED BY <2>2, <2>3, NextTypeParts DEF IInv
<1>2. CASE Next
  BY <1>2, AppStep, NotifyStep, ReceiveStep, HandlerStepKeeps, FailureStep DEF Next
<1> QED BY <1>1, <1>2

-----------------------------------------------------------------------------
\* Theorems

\* The inductive invariant: successes of an order are one, a handler that credits
\* has one in hand, and an entry stems from one and follows from its key
\* (payment.controller:39-61).
THEOREM Inductive == Spec => []IInv
<1>1. Init => IInv
  BY InitEstablishes
<1>2. IInv /\ [Next]_vars => IInv'
  BY NextKeeps
<1> QED BY <1>1, <1>2, PTL DEF Spec

\* The rows, the ledger and the handlers keep their types.
THEOREM TypeCorrect == Spec => []TypeOK
<1>1. IInv => TypeOK
  BY DEF IInv
<1> QED BY <1>1, Inductive, PTL

LEMMA BackedOnce == IInv => CreditedOnce
<1> SUFFICES ASSUME IInv, NEW e \in ledger
             PROVE  /\ Success(e.key[1], e.key[2]) \in sent
                    /\ \A f \in ledger : f.key[1] = e.key[1] => f = e
  BY DEF CreditedOnce, Success
<1>1. Success(e.key[1], e.key[2]) \in sent
  BY DEF IInv, Backed
<1>2. ASSUME NEW f \in ledger, f.key[1] = e.key[1] PROVE f = e
  <2>1. Success(f.key[1], f.key[2]) \in sent
    BY DEF IInv, Backed
  <2>2. Success(f.key[1], f.key[2]) = Success(e.key[1], e.key[2])
    BY <1>1, <1>2, <2>1 DEF IInv, PaidOnce, Success
  <2>3. f.key[2] = e.key[2]
    BY <2>2 DEF Success
  <2> QED BY <1>2, <2>3 DEF IInv, Backed
<1> QED BY <1>1, <1>2

\* A wallet is credited only for a payment the gateway took, and once for it, for
\* any number of orders, attempts, repeated and concurrent notifications, errors
\* and crashes (handlePayHereWebhook and topUp).
THEOREM CreditedAtMostOnce == Spec => []CreditedOnce
<1>1. IInv => CreditedOnce
  BY BackedOnce
<1> QED BY <1>1, Inductive, PTL
=============================================================================
