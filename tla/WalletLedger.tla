---------------------------- MODULE WalletLedger ----------------------------
(***************************************************************************)
(* wallet.service.js and the wallet-changing half of ledger.service.js.    *)
(* Every handler that moves money runs one of nine operations; an          *)
(* operation is a chain of awaited database calls, and between two of them *)
(* any other handler may run.  Inside a transaction the reads come from    *)
(* one snapshot, and each wallet is written back by an update whose WHERE  *)
(* clause repeats the version that was read: it finds no row (P2025), and  *)
(* the transaction rolls back, when another writer committed in between.   *)
(***************************************************************************)
EXTENDS Money

CONSTANTS
  Call,          \* the invocations of an operation made by the handlers
  User, Admin,   \* wallet holders, and the one with role ADMIN
  Key,           \* idempotency keys the callers build
  Request,       \* what the callers ask for
  Opened,        \* users who have a wallet row to begin with
  Opening,       \* what the wallets hold to begin with
  MaxRetries     \* MAX_RETRIES

Op == {"topUp", "deductForCharging", "processRefund", "releaseChargingAmount",
       "lockFunds", "unlockFunds", "createCompensatingEntry",
       "recordOwnerEarning", "recordCommission"}

ASSUME AdminAssumption == Admin \in User
ASSUME RequestAssumption ==
  Request \subseteq [op : Op, user : User, owner : User, amount : Nat,
                     key : Key, of : Key \X KeySuffix]
ASSUME OpeningAssumption ==
  /\ Opened \subseteq User
  /\ Opening \in [User -> Nat]
  /\ \A u \in User \ Opened : Opening[u] = 0
ASSUME RetriesAssumption == MaxRetries \in Nat \ {0}

VARIABLES
  wallet,    \* wallet[u]: the row of u in the wallet table
  ledger,    \* the rows of the ledger table
  pc,        \* pc[c]: the database call that c makes next, or how c ended
  request,   \* request[c]: the arguments of c
  snap,      \* snap[c]: the wallet rows the transaction of c has read
  attempts   \* attempts[c]: transactions c has begun

vars == <<wallet, ledger, pc, request, snap, attempts>>

Row == [exists : BOOLEAN, balance : Int, locked : Nat, version : Nat]

Running == {"lookup", "balance", "read", "write"}
Ended   == {"ok", "duplicate", "insufficient", "skipped", "rejected",
            "concurrentModification", "failed", "unknown"}

TypeOK ==
  /\ wallet \in [User -> Row]
  /\ ledger \subseteq EntryOf(Key, User)
  /\ pc \in [Call -> {"idle"} \cup Running \cup Ended]
  /\ request \in [Call -> Request]
  /\ snap \in [Call -> [User -> Row]]
  /\ attempts \in [Call -> 0..MaxRetries]

-----------------------------------------------------------------------------
\* Rows

NoRow == [exists |-> FALSE, balance |-> 0, locked |-> 0, version |-> 0]

Closed == [u \in User |-> NoRow]

Max0(x) == IF x > 0 THEN x ELSE 0

\* The rows after an update of u's row: a missing row is created first, and
\* every update increments the version.
Credit(rows, u, a) ==
  [rows EXCEPT ![u] = [exists |-> TRUE, balance |-> @.balance + a,
                       locked |-> @.locked, version |-> @.version + 1]]

Debit(rows, u, a) == Credit(rows, u, -a)

Reserve(rows, u, a) ==
  [rows EXCEPT ![u] = [exists |-> TRUE, balance |-> @.balance,
                       locked |-> @.locked + a, version |-> @.version + 1]]

\* Mutant: the lock is reduced without Decimal.max(0, ...).
UnreserveUnclamped(rows, u, a) ==
  [rows EXCEPT ![u] = [exists |-> TRUE, balance |-> @.balance,
                       locked |-> @.locked - a, version |-> @.version + 1]]

Unreserve(rows, u, a) ==
  [rows EXCEPT ![u] = [exists |-> TRUE, balance |-> @.balance,
                       locked |-> Max0(@.locked - a), version |-> @.version + 1]]

\* getOrCreateWallet
Ensured(w) == [exists |-> TRUE, balance |-> w.balance,
               locked |-> w.locked, version |-> w.version]

KeyUsed(key) == \E e \in ledger : e.key = key

-----------------------------------------------------------------------------
\* Steps every operation is built from

End(c, how) ==
  /\ pc' = [pc EXCEPT ![c] = how]
  /\ snap' = [snap EXCEPT ![c] = Closed]

\* The operations that look their idempotency key up before they start, and
\* those that retry a transaction that lost against another writer.
Keyed == {"topUp", "processRefund", "releaseChargingAmount",
          "createCompensatingEntry", "recordOwnerEarning", "recordCommission"}
Retrying == {"deductForCharging", "lockFunds", "unlockFunds"}

\* A non-positive amount is refused, or there is nothing to do.
RejectsZero == {"topUp", "processRefund", "releaseChargingAmount", "lockFunds"}
SkipsZero   == {"deductForCharging", "unlockFunds"}

\* What an operation does first with the arguments r.
FirstStep(r) ==
  IF r.amount = 0 /\ r.op \in RejectsZero THEN "rejected"
  ELSE IF r.amount = 0 /\ r.op \in SkipsZero THEN "skipped"
  ELSE IF r.op \in Keyed THEN "lookup"
  ELSE "read"

Receive(c) ==
  /\ pc[c] = "idle"
  /\ pc' = [pc EXCEPT ![c] = FirstStep(request[c])]
  /\ UNCHANGED <<wallet, ledger, request, snap, attempts>>

\* prisma.ledger.findUnique({ where: { idempotencyKey } }), outside the
\* transaction; three of the operations answer a duplicate with the wallet.
LookUpKey(c) ==
  LET r == request[c]
  IN /\ pc[c] = "lookup"
     /\ IF KeyUsed(<<r.key, "plain">>)
        THEN /\ End(c, "duplicate")
             /\ wallet' = IF r.op \in {"topUp", "processRefund", "releaseChargingAmount"}
                          THEN [wallet EXCEPT ![r.user] = Ensured(@)]
                          ELSE wallet
        ELSE /\ pc' = [pc EXCEPT ![c] =
                         IF r.op = "releaseChargingAmount" THEN "balance" ELSE "read"]
             /\ UNCHANGED <<wallet, snap>>
     /\ UNCHANGED <<ledger, request, attempts>>

\* checkSufficientBalance, outside the transaction.
CheckSufficientBalance(c) ==
  LET r == request[c]
  IN /\ pc[c] = "balance"
     /\ wallet' = [wallet EXCEPT ![r.user] = Ensured(@)]
     /\ IF wallet[r.user].balance >= r.amount
        THEN pc' = [pc EXCEPT ![c] = "read"] /\ UNCHANGED snap
        ELSE End(c, "insufficient")
     /\ UNCHANGED <<ledger, request, attempts>>

\* The reads of a transaction, and the answer it gives when it may not go on.
ReadTx(c, refusal) ==
  /\ pc[c] = "read"
  /\ attempts' = [attempts EXCEPT ![c] = @ + 1]
  /\ IF refusal = "none"
     THEN /\ pc' = [pc EXCEPT ![c] = "write"]
          /\ snap' = [snap EXCEPT ![c] = wallet]
     ELSE End(c, refusal)
  /\ UNCHANGED <<wallet, ledger, request>>

\* Mutant: the WHERE clause of the update does not repeat the version.
CurrentUnversioned(c, u) == snap[c][u].exists = wallet[u].exists

\* Nobody committed to u's wallet since the transaction of c read it.
Current(c, u) ==
  /\ snap[c][u].exists = wallet[u].exists
  /\ snap[c][u].version = wallet[u].version

\* Mutant: the key column is not unique.
CommitTxNotUnique(c, touched, rows, entries) ==
  /\ pc[c] = "write"
  /\ \A u \in touched : Current(c, u)
  /\ wallet' = [u \in User |-> IF u \in touched THEN rows[u] ELSE wallet[u]]
  /\ ledger' = ledger \cup entries
  /\ \E how \in {"ok", "unknown"} : End(c, how)
  /\ UNCHANGED <<request, attempts>>

\* All updates and inserts of the transaction take effect together.  The
\* answer may be lost with the connection: the caller then sees an error.
CommitTx(c, touched, rows, entries) ==
  /\ pc[c] = "write"
  /\ \A u \in touched : Current(c, u)
  /\ \A e \in entries : ~KeyUsed(e.key)
  /\ wallet' = [u \in User |-> IF u \in touched THEN rows[u] ELSE wallet[u]]
  /\ ledger' = ledger \cup entries
  /\ \E how \in {"ok", "unknown"} : End(c, how)
  /\ UNCHANGED <<request, attempts>>

-----------------------------------------------------------------------------
\* The operations: what each reads and refuses, and what it commits.

TopUpRead(c) ==
  /\ request[c].op = "topUp"
  /\ ReadTx(c, IF wallet[request[c].user].exists THEN "none" ELSE "failed")

\* Mutant: the entries carry the balance before the top-up.
TopUpCommitOldBalance(c) ==
  LET r  == request[c]
      w1 == Credit(snap[c], r.user, r.amount)
      w2 == Credit(w1, Admin, r.amount)
  IN /\ r.op = "topUp"
     /\ CommitTx(c, {r.user, Admin}, w2,
          {Entry(<<r.key, "plain">>, r.user, "TOP_UP", r.amount, snap[c][r.user].balance, "PAYMENT"),
           Entry(<<r.key, "admin">>, Admin, "TOP_UP", r.amount, w1[Admin].balance, "PAYMENT")})

TopUpCommit(c) ==
  LET r  == request[c]
      w1 == Credit(snap[c], r.user, r.amount)
      w2 == Credit(w1, Admin, r.amount)
  IN /\ r.op = "topUp"
     /\ CommitTx(c, {r.user, Admin}, w2,
          {Entry(<<r.key, "plain">>, r.user, "TOP_UP", r.amount, w1[r.user].balance, "PAYMENT"),
           Entry(<<r.key, "admin">>, Admin, "TOP_UP", r.amount, w2[Admin].balance, "PAYMENT")})

\* Mutant: the balance is not compared with the amount.
DeductReadUnchecked(c) ==
  /\ request[c].op = "deductForCharging"
  /\ ReadTx(c, IF wallet[request[c].user].exists THEN "none" ELSE "failed")

DeductRead(c) ==
  LET r == request[c]
  IN /\ r.op = "deductForCharging"
     /\ ReadTx(c, IF ~wallet[r.user].exists THEN "failed"
                  ELSE IF wallet[r.user].balance < r.amount THEN "insufficient"
                  ELSE "none")

DeductCommit(c) ==
  LET r == request[c]
  IN /\ r.op = "deductForCharging"
     /\ CommitTx(c, {r.user}, Debit(snap[c], r.user, r.amount), {})

RefundRead(c) ==
  /\ request[c].op = "processRefund"
  /\ ReadTx(c, IF wallet[request[c].user].exists THEN "none" ELSE "failed")

RefundCommit(c) ==
  LET r  == request[c]
      w1 == Credit(snap[c], r.user, r.amount)
  IN /\ r.op = "processRefund"
     /\ CommitTx(c, {r.user}, w1,
          {Entry(<<r.key, "plain">>, r.user, "REFUND", r.amount, w1[r.user].balance, "REFUND")})

ReleaseRead(c) ==
  LET r == request[c]
  IN /\ r.op = "releaseChargingAmount"
     /\ ReadTx(c, IF ~wallet[r.user].exists THEN "failed"
                  ELSE IF wallet[r.user].balance < r.amount THEN "insufficient"
                  ELSE "none")

ReleaseCommit(c) ==
  LET r  == request[c]
      a  == r.amount
      w1 == Debit(snap[c], r.user, a)
      w2 == Credit(w1, Admin, Commission(a))
      w3 == Credit(w2, r.owner, OwnerEarning(a))
  IN /\ r.op = "releaseChargingAmount"
     /\ CommitTx(c, {r.user, Admin, r.owner}, w3,
          {Entry(<<r.key, "plain">>, r.user, "CHARGE_DEBIT", a, w1[r.user].balance, "CHARGING_SESSION"),
           Entry(<<r.key, "admin">>, Admin, "COMMISSION", Commission(a), w2[Admin].balance, "CHARGING_SESSION"),
           Entry(<<r.key, "owner">>, r.owner, "OWNER_EARNING", OwnerEarning(a), w3[r.owner].balance, "CHARGING_SESSION")})

\* Mutant: what is already locked is not subtracted.
LockReadTotal(c) ==
  LET r == request[c]
  IN /\ r.op = "lockFunds"
     /\ ReadTx(c, IF ~wallet[r.user].exists THEN "failed"
                  ELSE IF wallet[r.user].balance < r.amount THEN "insufficient"
                  ELSE "none")

LockRead(c) ==
  LET r == request[c]
      w == wallet[r.user]
  IN /\ r.op = "lockFunds"
     /\ ReadTx(c, IF ~w.exists THEN "failed"
                  ELSE IF w.balance - w.locked < r.amount THEN "insufficient"
                  ELSE "none")

LockCommit(c) ==
  LET r == request[c]
  IN /\ r.op = "lockFunds"
     /\ CommitTx(c, {r.user}, Reserve(snap[c], r.user, r.amount), {})

UnlockRead(c) ==
  /\ request[c].op = "unlockFunds"
  /\ ReadTx(c, IF wallet[request[c].user].exists THEN "none" ELSE "failed")

UnlockCommit(c) ==
  LET r == request[c]
  IN /\ r.op = "unlockFunds"
     /\ CommitTx(c, {r.user}, Unreserve(snap[c], r.user, r.amount), {})

\* The original entry and the wallet are read before the transaction.
CompensateRead(c) ==
  /\ request[c].op = "createCompensatingEntry"
  /\ ReadTx(c, IF \E e \in ledger : e.key = request[c].of /\ wallet[e.user].exists
               THEN "none" ELSE "failed")

CompensateCommit(c) ==
  LET r == request[c]
  IN /\ r.op = "createCompensatingEntry"
     /\ \E e \in ledger :
          LET d  == IF IsDebitType(e.type) THEN e.amount ELSE -e.amount
              w1 == Credit(snap[c], e.user, d)
          IN /\ e.key = r.of
             /\ CommitTx(c, {e.user}, w1,
                  {Entry(<<r.key, "plain">>, e.user, CompensatingType(e.type), e.amount,
                         w1[e.user].balance, "ADJUSTMENT")})

OwnerEarningRead(c) ==
  /\ request[c].op = "recordOwnerEarning"
  /\ ReadTx(c, "none")

OwnerEarningCommit(c) ==
  LET r  == request[c]
      w1 == Credit(snap[c], r.owner, r.amount)
  IN /\ r.op = "recordOwnerEarning"
     /\ CommitTx(c, {r.owner}, w1,
          {Entry(<<r.key, "plain">>, r.owner, "OWNER_EARNING", r.amount, w1[r.owner].balance, "CHARGING_SESSION")})

CommissionRead(c) ==
  /\ request[c].op = "recordCommission"
  /\ ReadTx(c, "none")

CommissionCommit(c) ==
  LET r  == request[c]
      w1 == Debit(snap[c], Admin, r.amount)
  IN /\ r.op = "recordCommission"
     /\ CommitTx(c, {Admin}, w1,
          {Entry(<<r.key, "plain">>, Admin, "COMMISSION", r.amount, w1[Admin].balance, "CHARGING_SESSION")})

-----------------------------------------------------------------------------
\* The wallets a transaction writes, and the unique keys it inserts.
Touched(c) ==
  LET r == request[c]
  IN CASE r.op \in {"deductForCharging", "processRefund", "lockFunds", "unlockFunds"} -> {r.user}
       [] r.op = "topUp"                   -> {r.user, Admin}
       [] r.op = "releaseChargingAmount"   -> {r.user, Admin, r.owner}
       [] r.op = "recordOwnerEarning"      -> {r.owner}
       [] r.op = "recordCommission"        -> {Admin}
       [] r.op = "createCompensatingEntry" -> {e.user : e \in {x \in ledger : x.key = r.of}}

Inserted(c) ==
  LET r == request[c]
  IN CASE r.op \in Retrying              -> {}
       [] r.op = "topUp"                 -> {<<r.key, "plain">>, <<r.key, "admin">>}
       [] r.op = "releaseChargingAmount" -> {<<r.key, s>> : s \in KeySuffix}
       [] r.op \in Keyed \ {"topUp", "releaseChargingAmount"} -> {<<r.key, "plain">>}

\* Mutant: the update is tried again with the version that was read before.
VersionConflictStale(c) ==
  /\ pc[c] = "write"
  /\ \E u \in Touched(c) : ~Current(c, u)
  /\ IF request[c].op \in Retrying THEN UNCHANGED <<pc, snap>> ELSE End(c, "failed")
  /\ UNCHANGED <<wallet, ledger, request, attempts>>

\* P2025: the versioned update found no row.  Three operations sleep and try
\* again, at most MAX_RETRIES times in all; the others throw.
VersionConflict(c) ==
  /\ pc[c] = "write"
  /\ \E u \in Touched(c) : ~Current(c, u)
  /\ End(c, IF request[c].op \notin Retrying THEN "failed"
            ELSE IF attempts[c] >= MaxRetries THEN "concurrentModification"
            ELSE "read")
  /\ UNCHANGED <<wallet, ledger, request, attempts>>

\* P2002: another call inserted the same key since this one looked it up.
DuplicateKey(c) ==
  /\ pc[c] = "write"
  /\ \A u \in Touched(c) : Current(c, u)
  /\ \E k \in Inserted(c) : KeyUsed(k)
  /\ End(c, "failed")
  /\ UNCHANGED <<wallet, ledger, request, attempts>>

\* Mutant: every error is retried, not only a lost update.
DatabaseErrorRetried(c) ==
  /\ pc[c] \in Running
  /\ End(c, IF pc[c] = "write" /\ request[c].op \in Retrying /\ attempts[c] < MaxRetries
            THEN "read" ELSE "failed")
  /\ UNCHANGED <<wallet, ledger, request, attempts>>

\* A database call throws something else (connection lost, deadlock victim,
\* transaction timeout): an open transaction rolls back, no operation retries.
DatabaseError(c) ==
  /\ pc[c] \in Running
  /\ End(c, "failed")
  /\ UNCHANGED <<wallet, ledger, request, attempts>>

-----------------------------------------------------------------------------
Init ==
  /\ wallet = [u \in User |-> [exists |-> u \in Opened, balance |-> Opening[u],
                               locked |-> 0, version |-> 0]]
  /\ ledger = {}
  /\ pc = [c \in Call |-> "idle"]
  /\ request \in [Call -> Request]
  /\ snap = [c \in Call |-> Closed]
  /\ attempts = [c \in Call |-> 0]

Read(c) ==
  \/ TopUpRead(c) \/ DeductRead(c) \/ RefundRead(c) \/ ReleaseRead(c)
  \/ LockRead(c) \/ UnlockRead(c) \/ CompensateRead(c)
  \/ OwnerEarningRead(c) \/ CommissionRead(c)

Commit(c) ==
  \/ TopUpCommit(c) \/ DeductCommit(c) \/ RefundCommit(c) \/ ReleaseCommit(c)
  \/ LockCommit(c) \/ UnlockCommit(c) \/ CompensateCommit(c)
  \/ OwnerEarningCommit(c) \/ CommissionCommit(c)

\* What the handler of c does next of its own accord.
Proceed(c) ==
  \/ LookUpKey(c) \/ CheckSufficientBalance(c) \/ Read(c)
  \/ Commit(c) \/ VersionConflict(c) \/ DuplicateKey(c)

Next ==
  \E c \in Call : \/ Receive(c)
                  \/ Proceed(c)
                  \/ DatabaseError(c)

Spec == Init /\ [][Next]_vars

\* Once started, a handler is run to its end by the event loop.
FairSpec == Spec /\ \A c \in Call : WF_vars(Proceed(c))

-----------------------------------------------------------------------------
\* Properties

Book == INSTANCE AccountBook WITH
          balance <- [u \in User |-> wallet[u].balance],
          locked  <- [u \in User |-> wallet[u].locked],
          book    <- ledger

\* However the handlers interleave, the tables change as if each operation
\* had run alone on the balances of the moment it committed: no update is
\* lost, no transaction is half applied, no key is posted twice.
ImplementsAccountBook == Book!BookSpec

\* Wallets are prepaid: only the platform's own wallet, or a wallet that was
\* charged back by a compensating entry, can go below zero.
PrepaidOnly ==
  \A u \in User \ {Admin} :
    wallet[u].balance < 0 =>
      \E e \in ledger : e.user = u /\ e.type = "CHARGE_DEBIT" /\ e.ref = "ADJUSTMENT"

\* Of two deliveries of the same request (a payment notification sent again,
\* a retried job) at most one is told that it moved money.
AppliedOnce ==
  \A c, d \in Call :
    /\ pc[c] = "ok" /\ request[c].op \in Keyed
    /\ pc[d] = "ok" /\ request[d].op \in Keyed
    /\ request[c].key = request[d].key
    => c = d

\* Transactions of c that lost against another writer.
Defeats(c) ==
  CASE pc[c] \in {"idle", "lookup", "balance"} -> 0
    [] pc[c] = "read"                   -> attempts[c]
    [] pc[c] = "write"                  -> attempts[c] - 1
    [] pc[c] = "concurrentModification" -> attempts[c]
    [] OTHER                            -> 0

\* An operation is only made to wait by writers that got through: n lost
\* attempts mean n commits to the wallet, and the error that ends the retry
\* loop means MAX_RETRIES of them.
DefeatedByCommits ==
  \A c \in Call :
    /\ request[c].op \in Retrying => Defeats(c) <= wallet[request[c].user].version
    /\ pc[c] = "concurrentModification" => attempts[c] = MaxRetries

\* A reservation is never granted on money that is not there any more, even
\* when a charge is deducted while the reservation is being made.
LocksAreCovered ==
  [][\A u \in User : wallet'[u].locked > wallet[u].locked =>
                       wallet'[u].locked <= wallet'[u].balance]_vars

\* Rule 5 of the ledger: an entry carries the balance its own change left,
\* so the entries of a user can be read as the history of the wallet.
EntriesRecordTheChange ==
  [][\A e \in ledger' \ ledger :
       (\A o \in ledger' \ ledger : o.user = e.user => o = e) =>
         /\ e.after = wallet'[e.user].balance
         /\ wallet'[e.user].balance - wallet[e.user].balance \in {e.amount, -e.amount}]_vars

\* Every handler that began ends: retries are bounded and nobody waits for
\* anybody else.
CallsEnd == \A c \in Call : (pc[c] # "idle") ~> (pc[c] \in Ended)

\* The two parts are rounded independently and miss the total by a cent at
\* most.
ReleaseOffByACent ==
  \A e, f, g \in ledger :
    /\ e.type = "CHARGE_DEBIT" /\ e.ref = "CHARGING_SESSION"
    /\ f.key = <<e.key[1], "admin">> /\ g.key = <<e.key[1], "owner">>
    => f.amount + g.amount - e.amount \in {0, 1}
=============================================================================
