----------------------------- MODULE AccountBook -----------------------------
(***************************************************************************)
(* What the wallet and ledger services promise to their callers: an        *)
(* account book in which every request takes effect at once, on the        *)
(* balances of that moment, or not at all.  WalletLedger refines it.       *)
(***************************************************************************)
EXTENDS Money

CONSTANTS User, Admin, Request, Opening

VARIABLES
  balance,   \* balance[u]: the money u's wallet holds
  locked,    \* locked[u]: the part of it reserved for charging sessions
  book       \* the entries posted so far

bookVars == <<balance, locked, book>>

Max0(x) == IF x > 0 THEN x ELSE 0

\* Entries are only ever added, each under a key nobody has used.
Post(entries) ==
  /\ \A e \in book, n \in entries : e.key # n.key
  /\ book' = book \cup entries

-----------------------------------------------------------------------------
TopUp(r) ==
  LET b1 == [balance EXCEPT ![r.user] = @ + r.amount]
      b2 == [b1 EXCEPT ![Admin] = @ + r.amount]
  IN /\ r.op = "topUp"
     /\ balance' = b2
     /\ Post({Entry(<<r.key, "plain">>, r.user, "TOP_UP", r.amount, b1[r.user], "PAYMENT"),
              Entry(<<r.key, "admin">>, Admin, "TOP_UP", r.amount, b2[Admin], "PAYMENT")})
     /\ UNCHANGED locked

\* The charging debit is not entered in the book: one consolidated entry is
\* written when the session ends.
Deduct(r) ==
  /\ r.op = "deductForCharging"
  /\ balance[r.user] >= r.amount
  /\ balance' = [balance EXCEPT ![r.user] = @ - r.amount]
  /\ UNCHANGED <<locked, book>>

Refund(r) ==
  LET b1 == [balance EXCEPT ![r.user] = @ + r.amount]
  IN /\ r.op = "processRefund"
     /\ balance' = b1
     /\ Post({Entry(<<r.key, "plain">>, r.user, "REFUND", r.amount, b1[r.user], "REFUND")})
     /\ UNCHANGED locked

PayOwner(r) ==
  LET b1 == [balance EXCEPT ![r.owner] = @ + r.amount]
  IN /\ r.op = "recordOwnerEarning"
     /\ balance' = b1
     /\ Post({Entry(<<r.key, "plain">>, r.owner, "OWNER_EARNING", r.amount, b1[r.owner], "CHARGING_SESSION")})
     /\ UNCHANGED locked

ChargeCommission(r) ==
  LET b1 == [balance EXCEPT ![Admin] = @ - r.amount]
  IN /\ r.op = "recordCommission"
     /\ balance' = b1
     /\ Post({Entry(<<r.key, "plain">>, Admin, "COMMISSION", r.amount, b1[Admin], "CHARGING_SESSION")})
     /\ UNCHANGED locked

\* The payer's debit, the platform's commission and the owner's earning are
\* one step: no state has some of them.
Release(r) ==
  LET a  == r.amount
      b1 == [balance EXCEPT ![r.user] = @ - a]
      b2 == [b1 EXCEPT ![Admin] = @ + Commission(a)]
      b3 == [b2 EXCEPT ![r.owner] = @ + OwnerEarning(a)]
  IN /\ r.op = "releaseChargingAmount"
     /\ balance[r.user] >= a
     /\ balance' = b3
     /\ Post({Entry(<<r.key, "plain">>, r.user, "CHARGE_DEBIT", a, b1[r.user], "CHARGING_SESSION"),
              Entry(<<r.key, "admin">>, Admin, "COMMISSION", Commission(a), b2[Admin], "CHARGING_SESSION"),
              Entry(<<r.key, "owner">>, r.owner, "OWNER_EARNING", OwnerEarning(a), b3[r.owner], "CHARGING_SESSION")})
     /\ UNCHANGED locked

\* A correction is an entry of its own that undoes an earlier one.
Compensate(r) ==
  /\ r.op = "createCompensatingEntry"
  /\ \E e \in book :
       LET d  == IF IsDebitType(e.type) THEN e.amount ELSE -e.amount
           b1 == [balance EXCEPT ![e.user] = @ + d]
       IN /\ e.key = r.of
          /\ balance' = b1
          /\ Post({Entry(<<r.key, "plain">>, e.user, CompensatingType(e.type), e.amount, b1[e.user], "ADJUSTMENT")})
  /\ UNCHANGED locked

Lock(r) ==
  /\ r.op = "lockFunds"
  /\ balance[r.user] - locked[r.user] >= r.amount
  /\ locked' = [locked EXCEPT ![r.user] = @ + r.amount]
  /\ UNCHANGED <<balance, book>>

Unlock(r) ==
  /\ r.op = "unlockFunds"
  /\ locked' = [locked EXCEPT ![r.user] = Max0(@ - r.amount)]
  /\ UNCHANGED <<balance, book>>

-----------------------------------------------------------------------------
BookInit ==
  /\ balance = Opening
  /\ locked = [u \in User |-> 0]
  /\ book = {}

Perform(r) ==
  \/ TopUp(r) \/ Deduct(r) \/ Refund(r) \/ PayOwner(r) \/ ChargeCommission(r)
  \/ Release(r) \/ Compensate(r) \/ Lock(r) \/ Unlock(r)

BookNext == \E r \in Request : Perform(r)

BookSpec == BookInit /\ [][BookNext]_bookVars
=============================================================================
