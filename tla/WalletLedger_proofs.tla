------------------------- MODULE WalletLedger_proofs -------------------------
(***************************************************************************)
(* Theorems about WalletLedger, for any users, requests, opening balances, *)
(* retry bound, commission rate and number of concurrent calls.            *)
(***************************************************************************)
EXTENDS WalletLedger, TLAPS

-----------------------------------------------------------------------------
\* Rounding and rows

\* A rounded part of an amount is an amount.
LEMMA RoundedNat ==
  ASSUME NEW x \in Nat
  PROVE  RoundHalfUp(x) \in Nat
BY DEF RoundHalfUp

LEMMA ProductNat ==
  ASSUME NEW x \in Nat, NEW y \in Nat
  PROVE  x * y \in Nat
OBVIOUS

LEMMA PartsNat ==
  ASSUME NEW a \in Nat
  PROVE  Commission(a) \in Nat /\ OwnerEarning(a) \in Nat
<1>1. CommissionRate \in Nat /\ 10000 - CommissionRate \in Nat
  BY CommissionRateAssumption
<1>2. a * CommissionRate \in Nat /\ a * (10000 - CommissionRate) \in Nat
  BY <1>1, ProductNat
<1> QED BY <1>2, RoundedNat DEF Commission, OwnerEarning

LEMMA UpdateTypes ==
  ASSUME NEW rows \in [User -> Row], NEW u \in User, NEW a \in Int
  PROVE  /\ Credit(rows, u, a) \in [User -> Row]
         /\ Debit(rows, u, a) \in [User -> Row]
         /\ a \in Nat => Reserve(rows, u, a) \in [User -> Row]
         /\ Unreserve(rows, u, a) \in [User -> Row]
<1>1. /\ rows[u].balance \in Int /\ rows[u].locked \in Nat /\ rows[u].version \in Nat
  BY DEF Row
<1>2. \A d \in Int : Credit(rows, u, d) \in [User -> Row]
  BY <1>1 DEF Credit, Row
<1>3. Debit(rows, u, a) \in [User -> Row]
  BY <1>2 DEF Debit
<1>4. a \in Nat => Reserve(rows, u, a) \in [User -> Row]
  BY <1>1 DEF Reserve, Row
<1>5. Unreserve(rows, u, a) \in [User -> Row]
  BY <1>1 DEF Unreserve, Row, Max0
<1> QED BY <1>2, <1>3, <1>4, <1>5

LEMMA ClosedType == Closed \in [User -> Row]
BY DEF Closed, NoRow, Row

\* A ledger row built from well-typed parts.
LEMMA EntryType ==
  ASSUME NEW k \in Key \X KeySuffix, NEW u \in User, NEW t \in LedgerType,
         NEW a \in Nat, NEW n \in Int,
         NEW f \in {"PAYMENT", "CHARGING_SESSION", "REFUND", "ADJUSTMENT"}
  PROVE  Entry(k, u, t, a, n, f) \in EntryOf(Key, User)
BY DEF Entry, EntryOf

LEMMA RequestType ==
  ASSUME TypeOK, NEW c \in Call
  PROVE  /\ request[c].op \in Op /\ request[c].user \in User /\ request[c].owner \in User
         /\ request[c].amount \in Nat /\ request[c].key \in Key
         /\ request[c] \in Request
BY RequestAssumption DEF TypeOK

-----------------------------------------------------------------------------
\* Type correctness

LEMMA CommitTypes ==
  ASSUME TypeOK, NEW c \in Call, NEW touched, NEW rows \in [User -> Row],
         NEW entries \in SUBSET EntryOf(Key, User), CommitTx(c, touched, rows, entries)
  PROVE  TypeOK'
<1>1. wallet' \in [User -> Row]
  BY DEF TypeOK, CommitTx
<1>2. ledger' \subseteq EntryOf(Key, User)
  BY DEF TypeOK, CommitTx
<1>3. /\ pc' \in [Call -> {"idle"} \cup Running \cup Ended]
      /\ snap' \in [Call -> [User -> Row]]
  BY ClosedType DEF TypeOK, CommitTx, End, Ended
<1> QED BY <1>1, <1>2, <1>3 DEF TypeOK, CommitTx

\* Steps that end a call or move it on without touching the tables.
LEMMA EndTypes ==
  ASSUME TypeOK, NEW c \in Call, NEW how \in {"idle"} \cup Running \cup Ended, End(c, how)
  PROVE  /\ pc' \in [Call -> {"idle"} \cup Running \cup Ended]
         /\ snap' \in [Call -> [User -> Row]]
BY ClosedType DEF TypeOK, End

LEMMA ReadTypes ==
  ASSUME TypeOK, NEW c \in Call, NEW refusal \in {"none", "failed", "insufficient"},
         attempts[c] < MaxRetries, ReadTx(c, refusal)
  PROVE  TypeOK'
<1>1. attempts' \in [Call -> 0..MaxRetries]
  BY RetriesAssumption DEF TypeOK, ReadTx
<1>2. CASE refusal = "none"
  BY <1>1, <1>2 DEF TypeOK, ReadTx, Running
<1>3. CASE refusal # "none"
  <2>1. refusal \in {"idle"} \cup Running \cup Ended /\ End(c, refusal)
    BY <1>3 DEF ReadTx, Ended
  <2> QED BY <1>1, <2>1, EndTypes DEF TypeOK, ReadTx
<1> QED BY <1>2, <1>3

-----------------------------------------------------------------------------
\* Every commit of every operation replaces some rows by later versions of
\* them and adds some entries.

\* rows continues base: the rows of the touched users are newer, no row is
\* older.
Later(base, rows, touched) ==
  /\ rows \in [User -> Row]
  /\ \A u \in User : rows[u].version >= base[u].version
  /\ \A u \in touched : rows[u].exists /\ rows[u].version > base[u].version

CommitsSomething(c) ==
  \E touched \in SUBSET User, rows \in [User -> Row], entries \in SUBSET EntryOf(Key, User) :
    CommitTx(c, touched, rows, entries) /\ Later(snap[c], rows, touched)

LEMMA LaterNone ==
  ASSUME NEW base \in [User -> Row]
  PROVE  Later(base, base, {})
BY DEF Later, Row

LEMMA LaterUpdate ==
  ASSUME NEW base \in [User -> Row], NEW rows, NEW touched \in SUBSET User,
         Later(base, rows, touched), NEW u \in User, NEW new \in [User -> Row],
         \A v \in User : v # u => new[v] = rows[v],
         new[u].exists, new[u].version = rows[u].version + 1
  PROVE  Later(base, new, touched \cup {u})
<1>1. \A v \in User : /\ rows[v].version \in Nat /\ base[v].version \in Nat
                       /\ rows[v].version >= base[v].version
  BY DEF Later, Row
<1>2. \A v \in User : new[v].version >= base[v].version
  BY <1>1
<1>3. \A v \in touched \cup {u} : new[v].exists /\ new[v].version > base[v].version
  BY <1>1 DEF Later
<1> QED BY <1>2, <1>3 DEF Later

LEMMA LaterSteps ==
  ASSUME NEW base \in [User -> Row], NEW rows, NEW touched \in SUBSET User,
         Later(base, rows, touched), NEW u \in User, NEW a \in Int
  PROVE  /\ Later(base, Credit(rows, u, a), touched \cup {u})
         /\ Later(base, Debit(rows, u, a), touched \cup {u})
         /\ a \in Nat => Later(base, Reserve(rows, u, a), touched \cup {u})
         /\ Later(base, Unreserve(rows, u, a), touched \cup {u})
<1>1. rows \in [User -> Row]
  BY DEF Later
<1>2. \A d \in Int : Later(base, Credit(rows, u, d), touched \cup {u})
  <2>1. ASSUME NEW d \in Int PROVE Later(base, Credit(rows, u, d), touched \cup {u})
    <3>1. Credit(rows, u, d) \in [User -> Row]
      BY <1>1, UpdateTypes
    <3>2. /\ \A v \in User : v # u => Credit(rows, u, d)[v] = rows[v]
          /\ Credit(rows, u, d)[u].exists
          /\ Credit(rows, u, d)[u].version = rows[u].version + 1
      BY <1>1 DEF Credit
    <3> QED BY <3>1, <3>2, LaterUpdate
  <2> QED BY <2>1
<1>3. Later(base, Debit(rows, u, a), touched \cup {u})
  BY <1>2 DEF Debit
<1>4. a \in Nat => Later(base, Reserve(rows, u, a), touched \cup {u})
  <2>1. /\ \A v \in User : v # u => Reserve(rows, u, a)[v] = rows[v]
        /\ Reserve(rows, u, a)[u].exists
        /\ Reserve(rows, u, a)[u].version = rows[u].version + 1
    BY <1>1 DEF Reserve
  <2> QED BY <1>1, <2>1, UpdateTypes, LaterUpdate
<1>5. Later(base, Unreserve(rows, u, a), touched \cup {u})
  <2>1. /\ \A v \in User : v # u => Unreserve(rows, u, a)[v] = rows[v]
        /\ Unreserve(rows, u, a)[u].exists
        /\ Unreserve(rows, u, a)[u].version = rows[u].version + 1
    BY <1>1 DEF Unreserve
  <2> QED BY <1>1, <2>1, UpdateTypes, LaterUpdate
<1> QED BY <1>2, <1>3, <1>4, <1>5

\* The four updates of one row, as the first of a transaction.
LEMMA LaterFirst ==
  ASSUME NEW base \in [User -> Row], NEW u \in User, NEW a \in Int
  PROVE  /\ Later(base, Credit(base, u, a), {u})
         /\ Later(base, Debit(base, u, a), {u})
         /\ a \in Nat => Later(base, Reserve(base, u, a), {u})
         /\ Later(base, Unreserve(base, u, a), {u})
<1>1. Later(base, base, {})
  BY LaterNone
<1>2. {} \cup {u} = {u} /\ {} \in SUBSET User
  OBVIOUS
<1> QED BY <1>1, <1>2, LaterSteps

LEMMA LaterBalance ==
  ASSUME NEW base, NEW rows, NEW touched, Later(base, rows, touched), NEW u \in User
  PROVE  rows[u].balance \in Int
BY DEF Later, Row

LEMMA CommitShape ==
  ASSUME TypeOK, NEW c \in Call, Commit(c)
  PROVE  CommitsSomething(c)
<1> DEFINE r == request[c]
           s == snap[c]
           a == r.amount
<1>r. /\ r.op \in Op /\ r.user \in User /\ r.owner \in User /\ Admin \in User
      /\ a \in Nat /\ r.key \in Key /\ r \in Request
  BY RequestType, AdminAssumption
<1>s. s \in [User -> Row]
  BY DEF TypeOK
<1>k. \A suffix \in {"plain", "admin", "owner"} : <<r.key, suffix>> \in Key \X KeySuffix
  BY <1>r DEF KeySuffix
<1>p. Commission(a) \in Nat /\ OwnerEarning(a) \in Nat
  BY <1>r, PartsNat
<1>1. CASE TopUpCommit(c)
  <2> DEFINE w1 == Credit(s, r.user, a)
             w2 == Credit(w1, Admin, a)
             es == {Entry(<<r.key, "plain">>, r.user, "TOP_UP", a, w1[r.user].balance, "PAYMENT"),
                    Entry(<<r.key, "admin">>, Admin, "TOP_UP", a, w2[Admin].balance, "PAYMENT")}
  <2>1. CommitTx(c, {r.user, Admin}, w2, es)
    BY <1>1 DEF TopUpCommit
  <2>2. Later(s, w1, {r.user})
    BY <1>r, <1>s, LaterFirst
  <2> HIDE DEF w1
  <2>2b. w1[r.user].balance \in Int
    BY <1>r, <2>2, LaterBalance
  <2>3. Later(s, w2, {r.user} \cup {Admin})
    BY <1>r, <1>s, <2>2, LaterSteps
  <2> HIDE DEF w2
  <2>3b. w2[Admin].balance \in Int
    BY <1>r, <2>3, LaterBalance
  <2>4. es \in SUBSET EntryOf(Key, User)
    BY <1>r, <1>k, <2>2b, <2>3b, EntryType DEF LedgerType
  <2> HIDE DEF es
  <2>5. {r.user} \cup {Admin} = {r.user, Admin}
    OBVIOUS
  <2> QED BY <1>r, <2>1, <2>3, <2>4, <2>5 DEF CommitsSomething, Later
<1>2. CASE DeductCommit(c)
  <2> DEFINE w1 == Debit(s, r.user, a)
  <2>1. CommitTx(c, {r.user}, w1, {})
    BY <1>2 DEF DeductCommit
  <2>2. Later(s, w1, {r.user})
    BY <1>r, <1>s, LaterFirst, LaterBalance
  <2> HIDE DEF w1
  <2> QED BY <1>r, <2>1, <2>2 DEF CommitsSomething, Later
<1>3. CASE RefundCommit(c)
  <2> DEFINE w1 == Credit(s, r.user, a)
             es == {Entry(<<r.key, "plain">>, r.user, "REFUND", a, w1[r.user].balance, "REFUND")}
  <2>1. CommitTx(c, {r.user}, w1, es)
    BY <1>3 DEF RefundCommit
  <2>2. Later(s, w1, {r.user})
    BY <1>r, <1>s, LaterFirst
  <2> HIDE DEF w1
  <2>2b. w1[r.user].balance \in Int
    BY <1>r, <2>2, LaterBalance
  <2>3. es \in SUBSET EntryOf(Key, User)
    BY <1>r, <1>k, <2>2b, EntryType DEF LedgerType
  <2> HIDE DEF es
  <2> QED BY <1>r, <2>1, <2>2, <2>3 DEF CommitsSomething, Later
<1>4. CASE ReleaseCommit(c)
  <2> DEFINE w1 == Debit(s, r.user, a)
             w2 == Credit(w1, Admin, Commission(a))
             w3 == Credit(w2, r.owner, OwnerEarning(a))
             es == {Entry(<<r.key, "plain">>, r.user, "CHARGE_DEBIT", a, w1[r.user].balance, "CHARGING_SESSION"),
                    Entry(<<r.key, "admin">>, Admin, "COMMISSION", Commission(a), w2[Admin].balance, "CHARGING_SESSION"),
                    Entry(<<r.key, "owner">>, r.owner, "OWNER_EARNING", OwnerEarning(a), w3[r.owner].balance, "CHARGING_SESSION")}
  <2>1. CommitTx(c, {r.user, Admin, r.owner}, w3, es)
    BY <1>4 DEF ReleaseCommit
  <2>2. Later(s, w1, {r.user})
    BY <1>r, <1>s, LaterFirst
  <2> HIDE DEF w1
  <2>2b. w1[r.user].balance \in Int
    BY <1>r, <2>2, LaterBalance
  <2>3. Later(s, w2, {r.user} \cup {Admin})
    BY <1>r, <1>s, <1>p, <2>2, LaterSteps
  <2> HIDE DEF w2
  <2>3b. w2[Admin].balance \in Int
    BY <1>r, <2>3, LaterBalance
  <2>4. Later(s, w3, {r.user} \cup {Admin} \cup {r.owner})
    BY <1>r, <1>s, <1>p, <2>3, LaterSteps
  <2> HIDE DEF w3
  <2>4b. w3[r.owner].balance \in Int
    BY <1>r, <2>4, LaterBalance
  <2>5. es \in SUBSET EntryOf(Key, User)
    BY <1>r, <1>k, <1>p, <2>2b, <2>3b, <2>4b, EntryType DEF LedgerType
  <2> HIDE DEF es
  <2>6. {r.user} \cup {Admin} \cup {r.owner} = {r.user, Admin, r.owner}
    OBVIOUS
  <2> QED BY <1>r, <2>1, <2>4, <2>5, <2>6 DEF CommitsSomething, Later
<1>5. CASE LockCommit(c)
  <2> DEFINE w1 == Reserve(s, r.user, a)
  <2>1. CommitTx(c, {r.user}, w1, {})
    BY <1>5 DEF LockCommit
  <2>2. Later(s, w1, {r.user})
    BY <1>r, <1>s, LaterFirst
  <2> HIDE DEF w1
  <2> QED BY <1>r, <2>1, <2>2 DEF CommitsSomething, Later
<1>6. CASE UnlockCommit(c)
  <2> DEFINE w1 == Unreserve(s, r.user, a)
  <2>1. CommitTx(c, {r.user}, w1, {})
    BY <1>6 DEF UnlockCommit
  <2>2. Later(s, w1, {r.user})
    BY <1>r, <1>s, LaterFirst
  <2> HIDE DEF w1
  <2> QED BY <1>r, <2>1, <2>2 DEF CommitsSomething, Later
<1>7. CASE CompensateCommit(c)
  <2>1. PICK e \in ledger : LET d  == IF IsDebitType(e.type) THEN e.amount ELSE -e.amount
                                w1 == Credit(s, e.user, d)
                            IN /\ e.key = r.of
                               /\ CommitTx(c, {e.user}, w1,
                                    {Entry(<<r.key, "plain">>, e.user, CompensatingType(e.type),
                                           e.amount, w1[e.user].balance, "ADJUSTMENT")})
    BY <1>7 DEF CompensateCommit
  <2> DEFINE d  == IF IsDebitType(e.type) THEN e.amount ELSE -e.amount
             w1 == Credit(s, e.user, d)
             es == {Entry(<<r.key, "plain">>, e.user, CompensatingType(e.type),
                          e.amount, w1[e.user].balance, "ADJUSTMENT")}
  <2>2. CommitTx(c, {e.user}, w1, es)
    BY <2>1
  <2>3. /\ e.user \in User /\ e.amount \in Nat /\ d \in Int
        /\ CompensatingType(e.type) \in LedgerType
    BY DEF TypeOK, EntryOf, CompensatingType, LedgerType
  <2> HIDE DEF d
  <2>4. Later(s, w1, {e.user})
    BY <1>s, <2>3, LaterFirst
  <2> HIDE DEF w1
  <2>4b. w1[e.user].balance \in Int
    BY <1>r, <2>4, <2>3, LaterBalance
  <2>5. es \in SUBSET EntryOf(Key, User)
    BY <1>r, <1>k, <2>3, <2>4b, EntryType DEF LedgerType
  <2> HIDE DEF es
  <2> QED BY <2>2, <2>3, <2>4, <2>5 DEF CommitsSomething, Later
<1>8. CASE OwnerEarningCommit(c)
  <2> DEFINE w1 == Credit(s, r.owner, a)
             es == {Entry(<<r.key, "plain">>, r.owner, "OWNER_EARNING", a, w1[r.owner].balance, "CHARGING_SESSION")}
  <2>1. CommitTx(c, {r.owner}, w1, es)
    BY <1>8 DEF OwnerEarningCommit
  <2>2. Later(s, w1, {r.owner})
    BY <1>r, <1>s, LaterFirst
  <2> HIDE DEF w1
  <2>2b. w1[r.owner].balance \in Int
    BY <1>r, <2>2, LaterBalance
  <2>3. es \in SUBSET EntryOf(Key, User)
    BY <1>r, <1>k, <2>2b, EntryType DEF LedgerType
  <2> HIDE DEF es
  <2> QED BY <1>r, <2>1, <2>2, <2>3 DEF CommitsSomething, Later
<1>9. CASE CommissionCommit(c)
  <2> DEFINE w1 == Debit(s, Admin, a)
             es == {Entry(<<r.key, "plain">>, Admin, "COMMISSION", a, w1[Admin].balance, "CHARGING_SESSION")}
  <2>1. CommitTx(c, {Admin}, w1, es)
    BY <1>9 DEF CommissionCommit
  <2>2. Later(s, w1, {Admin})
    BY <1>r, <1>s, LaterFirst
  <2> HIDE DEF w1
  <2>2b. w1[Admin].balance \in Int
    BY <1>r, <2>2, LaterBalance
  <2>3. es \in SUBSET EntryOf(Key, User)
    BY <1>r, <1>k, <2>2b, EntryType DEF LedgerType
  <2> HIDE DEF es
  <2> QED BY <1>r, <2>1, <2>2, <2>3 DEF CommitsSomething, Later
<1> QED BY <1>1, <1>2, <1>3, <1>4, <1>5, <1>6, <1>7, <1>8, <1>9 DEF Commit

-----------------------------------------------------------------------------
\* The inductive invariant

\* A transaction is only begun while the retry loop has attempts left.
AttemptsLeft ==
  \A c \in Call :
    /\ pc[c] \in {"idle", "lookup", "balance"} => attempts[c] = 0
    /\ pc[c] = "read" => attempts[c] < MaxRetries

\* A row that still has the version a transaction has read is the row it has
\* read: this is what makes the versioned update as good as a lock.
SnapOfWallet ==
  \A c \in Call : pc[c] = "write" =>
    \A u \in User : /\ snap[c][u].version <= wallet[u].version
                    /\ snap[c][u].exists => wallet[u].exists
                    /\ Current(c, u) => snap[c][u] = wallet[u]

\* The checks a transaction made on the rows it has read.
Permitted(r, rows) ==
  /\ r.op \in {"deductForCharging", "releaseChargingAmount"} =>
       rows[r.user].balance >= r.amount
  /\ r.op = "lockFunds" => rows[r.user].balance - rows[r.user].locked >= r.amount

ReadAllowed == \A c \in Call : pc[c] = "write" => Permitted(request[c], snap[c])

IInv == TypeOK /\ AttemptsLeft /\ SnapOfWallet /\ ReadAllowed

LEMMA ReadShape ==
  ASSUME TypeOK, NEW c \in Call, Read(c)
  PROVE  \E refusal \in {"none", "failed", "insufficient"} :
           /\ ReadTx(c, refusal)
           /\ refusal = "none" => Permitted(request[c], wallet)
<1> DEFINE r == request[c]
           w == wallet[r.user]
           Goal == \E refusal \in {"none", "failed", "insufficient"} :
                     ReadTx(c, refusal) /\ (refusal = "none" => Permitted(r, wallet))
<1>t. w.balance \in Int /\ w.locked \in Nat /\ r.amount \in Nat
  <2>1. wallet \in [User -> Row] /\ r.user \in User /\ r.amount \in Nat
    BY RequestType DEF TypeOK
  <2> QED BY <2>1 DEF Row
<1>1. CASE TopUpRead(c) \/ RefundRead(c) \/ UnlockRead(c)
  <2> DEFINE f == IF w.exists THEN "none" ELSE "failed"
  <2>1. ReadTx(c, f) /\ r.op \in {"topUp", "processRefund", "unlockFunds"}
    BY <1>1 DEF TopUpRead, RefundRead, UnlockRead
  <2>2. f \in {"none", "failed", "insufficient"}
    OBVIOUS
  <2>3. Permitted(r, wallet)
    BY <2>1 DEF Permitted
  <2> HIDE DEF f
  <2> QED BY <2>1, <2>2, <2>3
<1>2. CASE DeductRead(c) \/ ReleaseRead(c)
  <2> DEFINE f == IF ~w.exists THEN "failed"
                  ELSE IF w.balance < r.amount THEN "insufficient" ELSE "none"
  <2>1. ReadTx(c, f) /\ r.op \in {"deductForCharging", "releaseChargingAmount"}
    BY <1>2 DEF DeductRead, ReleaseRead
  <2>2. f \in {"none", "failed", "insufficient"}
    OBVIOUS
  <2>3. f = "none" => ~(w.balance < r.amount)
    OBVIOUS
  <2> HIDE DEF f
  <2>4. f = "none" => Permitted(r, wallet)
    BY <2>1, <2>3, <1>t DEF Permitted
  <2> QED BY <2>1, <2>2, <2>4
<1>3. CASE LockRead(c)
  <2> DEFINE f == IF ~w.exists THEN "failed"
                  ELSE IF w.balance - w.locked < r.amount THEN "insufficient" ELSE "none"
  <2>1. ReadTx(c, f) /\ r.op = "lockFunds"
    BY <1>3 DEF LockRead
  <2>2. f \in {"none", "failed", "insufficient"}
    OBVIOUS
  <2>3. f = "none" => ~(w.balance - w.locked < r.amount)
    OBVIOUS
  <2> HIDE DEF f
  <2>4. f = "none" => Permitted(r, wallet)
    BY <2>1, <2>3, <1>t DEF Permitted
  <2> QED BY <2>1, <2>2, <2>4
<1>4. CASE CompensateRead(c)
  <2> DEFINE f == IF \E e \in ledger : e.key = r.of /\ wallet[e.user].exists
                  THEN "none" ELSE "failed"
  <2>1. ReadTx(c, f) /\ r.op = "createCompensatingEntry"
    BY <1>4 DEF CompensateRead
  <2>2. f \in {"none", "failed", "insufficient"}
    OBVIOUS
  <2>3. Permitted(r, wallet)
    BY <2>1 DEF Permitted
  <2> HIDE DEF f
  <2> QED BY <2>1, <2>2, <2>3
<1>5. CASE OwnerEarningRead(c) \/ CommissionRead(c)
  <2>1. ReadTx(c, "none") /\ r.op \in {"recordOwnerEarning", "recordCommission"}
    BY <1>5 DEF OwnerEarningRead, CommissionRead
  <2>2. Permitted(r, wallet)
    BY <2>1 DEF Permitted
  <2> QED BY <2>1, <2>2
<1> QED BY <1>1, <1>2, <1>3, <1>4, <1>5 DEF Read

\* What every step does to the wallet table: rows are not deleted, and a row
\* that changes gets a later version, or did not exist before.
WalletGrows ==
  \A u \in User :
    /\ wallet'[u].version >= wallet[u].version
    /\ wallet[u].exists => wallet'[u].exists
    /\ wallet'[u].version = wallet[u].version /\ wallet'[u].exists = wallet[u].exists
         => wallet'[u] = wallet[u]

\* The step leaves every call but c alone.
OnlyMoves(c) ==
  \A d \in Call \ {c} : pc'[d] = pc[d] /\ snap'[d] = snap[d] /\ attempts'[d] = attempts[d]

LEMMA OthersKept ==
  ASSUME IInv, NEW c \in Call, wallet' \in [User -> Row], WalletGrows, OnlyMoves(c),
         request' = request, NEW d \in Call \ {c}
  PROVE  /\ pc'[d] \in {"idle", "lookup", "balance"} => attempts'[d] = 0
         /\ pc'[d] = "read" => attempts'[d] < MaxRetries
         /\ pc'[d] = "write" =>
              /\ \A u \in User :
                   /\ snap'[d][u].version <= wallet'[u].version
                   /\ snap'[d][u].exists => wallet'[u].exists
                   /\ Current(d, u)' => snap'[d][u] = wallet'[u]
              /\ Permitted(request'[d], snap'[d])
<1>1. pc'[d] = pc[d] /\ snap'[d] = snap[d] /\ attempts'[d] = attempts[d]
  BY DEF OnlyMoves
<1>2. pc[d] = "write" => Permitted(request[d], snap[d])
  BY DEF IInv, ReadAllowed
<1>3. ASSUME pc[d] = "write", NEW u \in User
      PROVE  /\ snap[d][u].version <= wallet'[u].version
             /\ snap[d][u].exists => wallet'[u].exists
             /\ /\ snap[d][u].exists = wallet'[u].exists
                /\ snap[d][u].version = wallet'[u].version
                => snap[d][u] = wallet'[u]
  <2>1. /\ snap[d][u].version \in Nat /\ wallet[u].version \in Nat /\ wallet'[u].version \in Nat
        /\ snap[d][u].exists \in BOOLEAN /\ wallet[u].exists \in BOOLEAN /\ wallet'[u].exists \in BOOLEAN
    BY DEF IInv, TypeOK, Row
  <2>2. /\ snap[d][u].version <= wallet[u].version
        /\ snap[d][u].exists => wallet[u].exists
        /\ snap[d][u].exists = wallet[u].exists /\ snap[d][u].version = wallet[u].version
             => snap[d][u] = wallet[u]
    BY <1>3 DEF IInv, SnapOfWallet, Current
  <2>3. /\ wallet'[u].version >= wallet[u].version
        /\ wallet[u].exists => wallet'[u].exists
        /\ wallet'[u].version = wallet[u].version /\ wallet'[u].exists = wallet[u].exists
             => wallet'[u] = wallet[u]
    BY DEF WalletGrows
  <2> QED BY <2>1, <2>2, <2>3
<1> QED BY <1>1, <1>2, <1>3 DEF IInv, AttemptsLeft, Current

\* So a step of c keeps the invariant when it keeps it for c.
LEMMA StepOfOne ==
  ASSUME IInv, TypeOK', NEW c \in Call, WalletGrows, OnlyMoves(c), request' = request,
         pc'[c] \in {"idle", "lookup", "balance"} => attempts'[c] = 0,
         pc'[c] = "read" => attempts'[c] < MaxRetries,
         pc'[c] = "write" => /\ snap'[c] = wallet'
                             /\ Permitted(request'[c], snap'[c])
  PROVE  IInv'
<1>1. AttemptsLeft'
  BY OthersKept DEF AttemptsLeft, TypeOK
<1>2. SnapOfWallet'
  <2> SUFFICES ASSUME NEW d \in Call, pc'[d] = "write", NEW u \in User
               PROVE  /\ snap'[d][u].version <= wallet'[u].version
                      /\ snap'[d][u].exists => wallet'[u].exists
                      /\ Current(d, u)' => snap'[d][u] = wallet'[u]
    BY DEF SnapOfWallet
  <2>1. CASE d = c
    BY <2>1 DEF TypeOK, Row
  <2>2. CASE d # c
    BY <2>2, OthersKept DEF TypeOK
  <2> QED BY <2>1, <2>2
<1>3. ReadAllowed'
  BY OthersKept DEF ReadAllowed, TypeOK
<1> QED BY <1>1, <1>2, <1>3 DEF IInv

-----------------------------------------------------------------------------
\* One lemma per kind of step

LEMMA EnsuredGrows ==
  ASSUME TypeOK, NEW u \in User, wallet' = [wallet EXCEPT ![u] = Ensured(@)]
  PROVE  wallet' \in [User -> Row] /\ WalletGrows
<1>1. wallet \in [User -> Row]
  BY DEF TypeOK
<1>2. \A v \in User : /\ wallet[v].version \in Nat /\ wallet[v].exists \in BOOLEAN
                       /\ wallet[v].locked \in Nat /\ wallet[v].balance \in Int
  BY <1>1 DEF Row
<1>3. Ensured(wallet[u]) = [exists |-> TRUE, balance |-> wallet[u].balance,
                            locked |-> wallet[u].locked, version |-> wallet[u].version]
  BY DEF Ensured
<1>4. wallet' \in [User -> Row]
  BY <1>1, <1>2, <1>3 DEF Row
<1>5. \A v \in User : v # u => wallet'[v] = wallet[v]
  BY <1>1
<1>6. wallet'[u] = Ensured(wallet[u])
  BY <1>1
<1>7. wallet[u].exists => wallet'[u] = wallet[u]
  BY <1>1, <1>2, <1>3, <1>6 DEF Row
<1>8. ASSUME NEW v \in User
      PROVE  /\ wallet'[v].version = wallet[v].version
             /\ wallet[v].exists => wallet'[v] = wallet[v]
             /\ ~wallet[v].exists => wallet'[v].exists \/ wallet'[v] = wallet[v]
  BY <1>3, <1>5, <1>6, <1>7
<1> QED BY <1>2, <1>4, <1>8 DEF WalletGrows

LEMMA SameWalletGrows ==
  ASSUME TypeOK, wallet' = wallet
  PROVE  wallet' \in [User -> Row] /\ WalletGrows
BY DEF TypeOK, WalletGrows, Row

LEMMA EndMoves ==
  ASSUME TypeOK, NEW c \in Call, NEW how, End(c, how), attempts' = attempts
  PROVE  OnlyMoves(c) /\ pc'[c] = how /\ attempts'[c] = attempts[c]
BY DEF End, OnlyMoves, TypeOK

\* Ending a call, or sending it back to begin its transaction again.
LEMMA EndKeeps ==
  ASSUME IInv, NEW c \in Call, NEW how \in {"read"} \cup Ended, End(c, how),
         wallet' \in [User -> Row], WalletGrows, attempts' = attempts,
         request' = request, ledger' = ledger,
         how = "read" => attempts[c] < MaxRetries
  PROVE  IInv'
<1>1. how \in {"idle"} \cup Running \cup Ended
  BY DEF Running
<1>2. TypeOK'
  BY <1>1, EndTypes DEF IInv, TypeOK
<1>3. OnlyMoves(c) /\ pc'[c] = how /\ attempts'[c] = attempts[c]
  BY EndMoves DEF IInv
<1>4. how \notin {"idle", "lookup", "balance", "write"}
  BY DEF Ended
<1> QED BY <1>2, <1>3, <1>4, StepOfOne

LEMMA ReceiveKeeps ==
  ASSUME IInv, NEW c \in Call, Receive(c)
  PROVE  IInv'
<1> DEFINE p == FirstStep(request[c])
<1>1. p \in {"rejected", "skipped", "lookup", "read"}
  BY DEF FirstStep
<1> HIDE DEF p
<1>2. pc' = [pc EXCEPT ![c] = p] /\ UNCHANGED <<wallet, ledger, request, snap, attempts>>
  BY DEF Receive, p
<1>3. TypeOK'
  BY <1>1, <1>2 DEF IInv, TypeOK, Running, Ended
<1>4. WalletGrows
  BY <1>2, SameWalletGrows DEF IInv
<1>5. OnlyMoves(c) /\ pc'[c] = p
  BY <1>2 DEF OnlyMoves, IInv, TypeOK
<1>6. attempts'[c] = 0 /\ 0 < MaxRetries
  BY <1>2, RetriesAssumption DEF Receive, IInv, AttemptsLeft
<1> QED BY <1>1, <1>2, <1>3, <1>4, <1>5, <1>6, StepOfOne

LEMMA LookUpKeeps ==
  ASSUME IInv, NEW c \in Call, LookUpKey(c)
  PROVE  IInv'
<1>0. request[c].user \in User /\ TypeOK
  BY RequestType DEF IInv
<1>1. UNCHANGED <<ledger, request, attempts>> /\ pc[c] = "lookup"
  BY DEF LookUpKey
<1>2. wallet' \in [User -> Row] /\ WalletGrows
  <2>1. wallet' = wallet \/ wallet' = [wallet EXCEPT ![request[c].user] = Ensured(@)]
    BY DEF LookUpKey
  <2> QED BY <1>0, <2>1, EnsuredGrows, SameWalletGrows
<1>3. CASE KeyUsed(<<request[c].key, "plain">>)
  <2>1. End(c, "duplicate") /\ "duplicate" \in Ended
    BY <1>3 DEF LookUpKey, Ended
  <2> QED BY <1>1, <1>2, <2>1, EndKeeps
<1>4. CASE ~KeyUsed(<<request[c].key, "plain">>)
  <2> DEFINE p == IF request[c].op = "releaseChargingAmount" THEN "balance" ELSE "read"
  <2>1. p \in {"balance", "read"}
    OBVIOUS
  <2> HIDE DEF p
  <2>2. pc' = [pc EXCEPT ![c] = p] /\ snap' = snap
    BY <1>4 DEF LookUpKey, p
  <2>3. TypeOK'
    BY <1>0, <1>1, <1>2, <2>1, <2>2 DEF TypeOK, Running
  <2>4. OnlyMoves(c) /\ pc'[c] = p
    BY <1>0, <1>1, <2>2 DEF OnlyMoves, TypeOK
  <2>5. attempts'[c] = 0 /\ 0 < MaxRetries
    BY <1>1, RetriesAssumption DEF IInv, AttemptsLeft
  <2> QED BY <1>1, <1>2, <2>1, <2>3, <2>4, <2>5, StepOfOne
<1> QED BY <1>3, <1>4

LEMMA BalanceKeeps ==
  ASSUME IInv, NEW c \in Call, CheckSufficientBalance(c)
  PROVE  IInv'
<1>0. request[c].user \in User /\ TypeOK
  BY RequestType DEF IInv
<1>1. /\ UNCHANGED <<ledger, request, attempts>> /\ pc[c] = "balance"
      /\ wallet' = [wallet EXCEPT ![request[c].user] = Ensured(@)]
  BY DEF CheckSufficientBalance
<1>2. wallet' \in [User -> Row] /\ WalletGrows
  BY <1>0, <1>1, EnsuredGrows
<1>3. CASE wallet[request[c].user].balance >= request[c].amount
  <2>1. pc' = [pc EXCEPT ![c] = "read"] /\ snap' = snap
    BY <1>3 DEF CheckSufficientBalance
  <2>2. TypeOK'
    BY <1>0, <1>1, <1>2, <2>1 DEF TypeOK, Running
  <2>3. OnlyMoves(c) /\ pc'[c] = "read"
    BY <1>0, <1>1, <2>1 DEF OnlyMoves, TypeOK
  <2>4. attempts'[c] = 0 /\ 0 < MaxRetries
    BY <1>1, RetriesAssumption DEF IInv, AttemptsLeft
  <2> QED BY <1>1, <1>2, <2>2, <2>3, <2>4, StepOfOne
<1>4. CASE ~(wallet[request[c].user].balance >= request[c].amount)
  <2>1. End(c, "insufficient") /\ "insufficient" \in Ended
    BY <1>4 DEF CheckSufficientBalance, Ended
  <2> QED BY <1>1, <1>2, <2>1, EndKeeps
<1> QED BY <1>3, <1>4

LEMMA ReadKeeps ==
  ASSUME IInv, NEW c \in Call, Read(c)
  PROVE  IInv'
<1>0. TypeOK
  BY DEF IInv
<1>1. PICK refusal \in {"none", "failed", "insufficient"} :
        ReadTx(c, refusal) /\ (refusal = "none" => Permitted(request[c], wallet))
  BY <1>0, ReadShape
<1>2. /\ attempts[c] < MaxRetries /\ UNCHANGED <<wallet, ledger, request>>
      /\ attempts' = [attempts EXCEPT ![c] = @ + 1]
  BY <1>1 DEF ReadTx, IInv, AttemptsLeft
<1>3. TypeOK'
  BY <1>0, <1>1, <1>2, ReadTypes
<1>4. WalletGrows
  BY <1>0, <1>2, SameWalletGrows
<1>5. CASE refusal = "none"
  <2>1. pc' = [pc EXCEPT ![c] = "write"] /\ snap' = [snap EXCEPT ![c] = wallet]
    BY <1>1, <1>5 DEF ReadTx
  <2>2. OnlyMoves(c) /\ pc'[c] = "write" /\ snap'[c] = wallet
    BY <1>0, <1>2, <2>1 DEF OnlyMoves, TypeOK
  <2>3. snap'[c] = wallet' /\ Permitted(request'[c], snap'[c])
    BY <1>1, <1>2, <1>5, <2>2
  <2> QED BY <1>2, <1>3, <1>4, <2>2, <2>3, StepOfOne
<1>6. CASE refusal # "none"
  <2>1. End(c, refusal) /\ refusal \in {"failed", "insufficient"}
    BY <1>1, <1>6 DEF ReadTx
  <2>2. OnlyMoves(c) /\ pc'[c] = refusal
    BY <1>0, <1>2, <2>1 DEF OnlyMoves, End, TypeOK
  <2> QED BY <1>2, <1>3, <1>4, <2>1, <2>2, StepOfOne
<1> QED BY <1>5, <1>6

\* A commit writes the rows it touches in later versions, and no other row.
LEMMA CommitGrows ==
  ASSUME TypeOK, NEW c \in Call, Commit(c)
  PROVE  WalletGrows
<1>1. PICK touched \in SUBSET User, rows \in [User -> Row], entries \in SUBSET EntryOf(Key, User) :
        CommitTx(c, touched, rows, entries) /\ Later(snap[c], rows, touched)
  BY CommitShape DEF CommitsSomething
<1> SUFFICES ASSUME NEW u \in User
             PROVE  /\ wallet'[u].version >= wallet[u].version
                    /\ wallet[u].exists => wallet'[u].exists
                    /\ wallet'[u].version = wallet[u].version /\ wallet'[u].exists = wallet[u].exists
                         => wallet'[u] = wallet[u]
  BY DEF WalletGrows
<1>2. wallet[u].version \in Nat /\ rows[u].version \in Nat
  BY DEF TypeOK, Row
<1>3. wallet' = [v \in User |-> IF v \in touched THEN rows[v] ELSE wallet[v]]
  BY <1>1 DEF CommitTx
<1>4. CASE u \in touched
  <2>1. wallet'[u] = rows[u]
    BY <1>3, <1>4
  <2>2. rows[u].exists /\ rows[u].version > snap[c][u].version
    BY <1>1, <1>4 DEF Later
  <2>3. snap[c][u].version = wallet[u].version
    BY <1>1, <1>4 DEF CommitTx, Current
  <2>4. rows[u].version > wallet[u].version
    BY <2>2, <2>3
  <2>5. wallet'[u].exists /\ wallet'[u].version > wallet[u].version
    BY <2>1, <2>2, <2>4
  <2>6. wallet'[u].version >= wallet[u].version /\ wallet'[u].version # wallet[u].version
    BY <1>2, <2>1, <2>5
  <2> QED BY <2>5, <2>6
<1>5. CASE u \notin touched
  BY <1>2, <1>3, <1>5
<1> QED BY <1>4, <1>5

LEMMA CommitKeeps ==
  ASSUME IInv, NEW c \in Call, Commit(c)
  PROVE  IInv'
<1>0. TypeOK
  BY DEF IInv
<1>1. PICK touched \in SUBSET User, rows \in [User -> Row], entries \in SUBSET EntryOf(Key, User) :
        CommitTx(c, touched, rows, entries) /\ Later(snap[c], rows, touched)
  BY <1>0, CommitShape DEF CommitsSomething
<1>2. TypeOK'
  BY <1>0, <1>1, CommitTypes
<1>3. WalletGrows
  BY <1>0, CommitGrows
<1>4. PICK how \in {"ok", "unknown"} : End(c, how)
  BY <1>1 DEF CommitTx
<1>5. request' = request /\ attempts' = attempts
  BY <1>1 DEF CommitTx
<1>6. OnlyMoves(c) /\ pc'[c] = how
  BY <1>0, <1>4, <1>5, EndMoves
<1> QED BY <1>2, <1>3, <1>4, <1>5, <1>6, StepOfOne

\* The three ways a transaction is rolled back.
LEMMA RollbackKeeps ==
  ASSUME IInv, NEW c \in Call, VersionConflict(c) \/ DuplicateKey(c) \/ DatabaseError(c)
  PROVE  IInv'
<1>0. TypeOK
  BY DEF IInv
<1>1. UNCHANGED <<wallet, ledger, request, attempts>>
  BY DEF VersionConflict, DuplicateKey, DatabaseError
<1>2. wallet' \in [User -> Row] /\ WalletGrows
  BY <1>0, <1>1, SameWalletGrows
<1>3. CASE VersionConflict(c)
  <2> DEFINE p == IF request[c].op \notin Retrying THEN "failed"
                  ELSE IF attempts[c] >= MaxRetries THEN "concurrentModification"
                  ELSE "read"
  <2>1. End(c, p)
    BY <1>3 DEF VersionConflict
  <2>2. p \in {"read"} \cup Ended /\ (p = "read" => ~(attempts[c] >= MaxRetries))
    BY DEF Ended
  <2> HIDE DEF p
  <2>3. attempts[c] \in Nat /\ MaxRetries \in Nat
    BY <1>0, RetriesAssumption DEF TypeOK
  <2> QED BY <1>1, <1>2, <2>1, <2>2, <2>3, EndKeeps
<1>4. CASE DuplicateKey(c) \/ DatabaseError(c)
  <2>1. End(c, "failed") /\ "failed" \in Ended
    BY <1>4 DEF DuplicateKey, DatabaseError, Ended
  <2> QED BY <1>1, <1>2, <2>1, EndKeeps
<1> QED BY <1>3, <1>4

-----------------------------------------------------------------------------
\* Theorems

LEMMA InitInvariant == Init => IInv
<1> SUFFICES ASSUME Init PROVE IInv
  OBVIOUS
<1>1. TypeOK
  <2>1. wallet \in [User -> Row]
    BY OpeningAssumption DEF Init, Row
  <2>2. attempts \in [Call -> 0..MaxRetries]
    BY RetriesAssumption DEF Init
  <2> QED BY <2>1, <2>2, ClosedType DEF Init, TypeOK
<1>2. AttemptsLeft
  BY RetriesAssumption DEF Init, AttemptsLeft
<1>3. SnapOfWallet /\ ReadAllowed
  BY DEF Init, SnapOfWallet, ReadAllowed
<1> QED BY <1>1, <1>2, <1>3 DEF IInv

LEMMA NextKeeps == IInv /\ [Next]_vars => IInv'
<1> SUFFICES ASSUME IInv, [Next]_vars PROVE IInv'
  OBVIOUS
<1>1. ASSUME NEW c \in Call, Receive(c) PROVE IInv'
  BY <1>1, ReceiveKeeps
<1>2. ASSUME NEW c \in Call, Proceed(c) PROVE IInv'
  BY <1>2, LookUpKeeps, BalanceKeeps, ReadKeeps, CommitKeeps, RollbackKeeps DEF Proceed
<1>3. ASSUME NEW c \in Call, DatabaseError(c) PROVE IInv'
  BY <1>3, RollbackKeeps
<1>4. CASE UNCHANGED vars
  BY <1>4 DEF vars, IInv, TypeOK, AttemptsLeft, SnapOfWallet, ReadAllowed, Current
<1> QED BY <1>1, <1>2, <1>3, <1>4 DEF Next

\* In every reachable state a transaction that is about to write either still
\* has the rows it has read, or can see that it has not: the versioned update
\* of wallet.service.js stands in for a lock.
THEOREM Invariance == Spec => []IInv
BY InitInvariant, NextKeeps, PTL DEF Spec

\* The tables and the handlers' local state keep their types, whatever the
\* requests and however the handlers interleave.
THEOREM TypeCorrect == Spec => []TypeOK
<1>1. IInv => TypeOK
  BY DEF IInv
<1> QED BY <1>1, Invariance, PTL

-----------------------------------------------------------------------------
\* The tables implement the account book

BalanceOf(rows) == [u \in User |-> rows[u].balance]
LockedOf(rows)  == [u \in User |-> rows[u].locked]

\* What the table holds once a transaction has written rows of its own.
Overlay(touched, rows) == [u \in User |-> IF u \in touched THEN rows[u] ELSE wallet[u]]

\* Updates computed from rows already read are updates of the table itself,
\* when the updated user is among those the transaction writes.
LEMMA OverlayUpdate ==
  ASSUME NEW rows \in [User -> Row], NEW touched \in SUBSET User, NEW u \in touched, NEW a \in Int
  PROVE  /\ Overlay(touched, Credit(rows, u, a)) = Credit(Overlay(touched, rows), u, a)
         /\ Overlay(touched, Debit(rows, u, a)) = Debit(Overlay(touched, rows), u, a)
         /\ Overlay(touched, Reserve(rows, u, a)) = Reserve(Overlay(touched, rows), u, a)
         /\ Overlay(touched, Unreserve(rows, u, a)) = Unreserve(Overlay(touched, rows), u, a)
<1>1. \A d \in Int : Overlay(touched, Credit(rows, u, d)) = Credit(Overlay(touched, rows), u, d)
  BY DEF Overlay, Credit
<1>2. Overlay(touched, Debit(rows, u, a)) = Debit(Overlay(touched, rows), u, a)
  BY <1>1 DEF Debit
<1>3. Overlay(touched, Reserve(rows, u, a)) = Reserve(Overlay(touched, rows), u, a)
  BY DEF Overlay, Reserve
<1>4. Overlay(touched, Unreserve(rows, u, a)) = Unreserve(Overlay(touched, rows), u, a)
  BY DEF Overlay, Unreserve
<1> QED BY <1>1, <1>2, <1>3, <1>4

LEMMA OverlayRead ==
  ASSUME IInv, NEW c \in Call, NEW touched \in SUBSET User, NEW rows, NEW entries,
         CommitTx(c, touched, rows, entries)
  PROVE  /\ Overlay(touched, snap[c]) = wallet
         /\ wallet' = Overlay(touched, rows)
         /\ \A u \in touched : snap[c][u] = wallet[u]
         /\ \A e \in ledger, n \in entries : e.key # n.key
         /\ ledger' = ledger \cup entries
<1>1. \A u \in touched : snap[c][u] = wallet[u]
  BY DEF IInv, SnapOfWallet, CommitTx
<1>2. Overlay(touched, snap[c]) = wallet
  BY <1>1 DEF Overlay, IInv, TypeOK
<1> QED BY <1>1, <1>2 DEF CommitTx, Overlay, KeyUsed

\* The abstract account's arithmetic on one entry of a function.
Plus(f, u, d)  == [f EXCEPT ![u] = @ + d]
Minus(f, u, d) == [f EXCEPT ![u] = @ - d]
Less(f, u, d)  == [f EXCEPT ![u] = Max0(@ - d)]

LEMMA UpdateMeans ==
  ASSUME NEW rows \in [User -> Row], NEW u \in User, NEW a \in Int
  PROVE  /\ BalanceOf(Credit(rows, u, a)) = Plus(BalanceOf(rows), u, a)
         /\ BalanceOf(Debit(rows, u, a)) = Minus(BalanceOf(rows), u, a)
         /\ LockedOf(Credit(rows, u, a)) = LockedOf(rows)
         /\ LockedOf(Debit(rows, u, a)) = LockedOf(rows)
         /\ BalanceOf(Reserve(rows, u, a)) = BalanceOf(rows)
         /\ BalanceOf(Unreserve(rows, u, a)) = BalanceOf(rows)
         /\ LockedOf(Reserve(rows, u, a)) = Plus(LockedOf(rows), u, a)
         /\ LockedOf(Unreserve(rows, u, a)) = Less(LockedOf(rows), u, a)
<1>1. \A v \in User : rows[v].balance \in Int /\ rows[v].locked \in Nat
  BY DEF Row
<1>2. \A d \in Int : /\ BalanceOf(Credit(rows, u, d)) = Plus(BalanceOf(rows), u, d)
                     /\ LockedOf(Credit(rows, u, d)) = LockedOf(rows)
  BY DEF BalanceOf, LockedOf, Credit, Plus
<1>3. /\ BalanceOf(Debit(rows, u, a)) = Plus(BalanceOf(rows), u, -a)
      /\ LockedOf(Debit(rows, u, a)) = LockedOf(rows)
  BY <1>2 DEF Debit
<1>4. Plus(BalanceOf(rows), u, -a) = Minus(BalanceOf(rows), u, a)
  BY <1>1 DEF BalanceOf, Plus, Minus
<1>5. /\ BalanceOf(Reserve(rows, u, a)) = BalanceOf(rows)
      /\ LockedOf(Reserve(rows, u, a)) = Plus(LockedOf(rows), u, a)
  BY DEF BalanceOf, LockedOf, Reserve, Plus
<1>6. /\ BalanceOf(Unreserve(rows, u, a)) = BalanceOf(rows)
      /\ LockedOf(Unreserve(rows, u, a)) = Less(LockedOf(rows), u, a)
  BY DEF BalanceOf, LockedOf, Unreserve, Less
<1> QED BY <1>2, <1>3, <1>4, <1>5, <1>6

LEMMA TopUpImplements ==
  ASSUME IInv, NEW c \in Call, TopUpCommit(c)
  PROVE  Book!TopUp(request[c])
<1> DEFINE r  == request[c]
           s  == snap[c]
           T  == {r.user, Admin}
           s1 == Credit(s, r.user, r.amount)
           s2 == Credit(s1, Admin, r.amount)
           w1 == Credit(wallet, r.user, r.amount)
           w2 == Credit(w1, Admin, r.amount)
           es == {Entry(<<r.key, "plain">>, r.user, "TOP_UP", r.amount, s1[r.user].balance, "PAYMENT"),
                  Entry(<<r.key, "admin">>, Admin, "TOP_UP", r.amount, s2[Admin].balance, "PAYMENT")}
<1>r. /\ r.user \in User /\ Admin \in User /\ r.amount \in Int
      /\ T \in SUBSET User /\ r.user \in T /\ Admin \in T
  BY RequestType, AdminAssumption DEF IInv
<1>t. wallet \in [User -> Row] /\ s \in [User -> Row]
  BY DEF IInv, TypeOK
<1>1. CommitTx(c, T, s2, es) /\ r.op = "topUp"
  BY DEF TopUpCommit
<1> HIDE DEF r, T, es
<1>2. /\ Overlay(T, s) = wallet /\ wallet' = Overlay(T, s2)
      /\ \A e \in ledger, n \in es : e.key # n.key
      /\ ledger' = ledger \cup es
  <2> HIDE DEF s2
  <2> QED BY <1>r, <1>1, OverlayRead
<1> HIDE DEF s
<1>u. w1 \in [User -> Row] /\ s1 \in [User -> Row]
  BY <1>r, <1>t, UpdateTypes
<1>3. Overlay(T, s1) = w1
  BY <1>r, <1>t, <1>2, OverlayUpdate
<1>6. BalanceOf(w1) = Plus(BalanceOf(wallet), r.user, r.amount) /\ LockedOf(w1) = LockedOf(wallet)
  BY <1>r, <1>t, UpdateMeans
<1> HIDE DEF w1, s1
<1>4. Overlay(T, s2) = w2
  BY <1>r, <1>u, <1>3, OverlayUpdate
<1>7. BalanceOf(w2) = Plus(BalanceOf(w1), Admin, r.amount) /\ LockedOf(w2) = LockedOf(w1)
  BY <1>r, <1>u, UpdateMeans
<1> HIDE DEF w2, s2
<1>5. /\ s1[r.user].balance = BalanceOf(w1)[r.user]
      /\ s2[Admin].balance = BalanceOf(w2)[Admin]
  BY <1>r, <1>3, <1>4 DEF Overlay, BalanceOf
<1>8. /\ BalanceOf(wallet)' = BalanceOf(w2)
      /\ LockedOf(wallet)' = LockedOf(wallet)
  BY <1>2, <1>4, <1>6, <1>7 DEF BalanceOf, LockedOf
<1>9. Book!Post(es)
  BY <1>2 DEF Book!Post
<1>10. es = {Book!Entry(<<r.key, "plain">>, r.user, "TOP_UP", r.amount, BalanceOf(w1)[r.user], "PAYMENT"),
            Book!Entry(<<r.key, "admin">>, Admin, "TOP_UP", r.amount, BalanceOf(w2)[Admin], "PAYMENT")}
  BY <1>5 DEF es, Book!Entry, Entry
<1>11. Book!TopUp(r)
  BY <1>1, <1>6, <1>7, <1>8, <1>9, <1>10 DEF Book!TopUp, BalanceOf, LockedOf, Plus
<1> QED BY <1>11 DEF r

\* A transaction that writes one row, by what it does to that row.
LEMMA OneRow ==
  ASSUME IInv, NEW c \in Call, NEW u \in User, NEW a \in Int, NEW es
  PROVE  /\ CommitTx(c, {u}, Credit(snap[c], u, a), es) =>
              /\ BalanceOf(wallet)' = Plus(BalanceOf(wallet), u, a)
              /\ LockedOf(wallet)' = LockedOf(wallet)
              /\ Credit(snap[c], u, a)[u].balance = Plus(BalanceOf(wallet), u, a)[u]
              /\ snap[c][u] = wallet[u] /\ Book!Post(es)
         /\ CommitTx(c, {u}, Debit(snap[c], u, a), es) =>
              /\ BalanceOf(wallet)' = Minus(BalanceOf(wallet), u, a)
              /\ LockedOf(wallet)' = LockedOf(wallet)
              /\ Debit(snap[c], u, a)[u].balance = Minus(BalanceOf(wallet), u, a)[u]
              /\ snap[c][u] = wallet[u] /\ Book!Post(es)
         /\ CommitTx(c, {u}, Reserve(snap[c], u, a), es) =>
              /\ BalanceOf(wallet)' = BalanceOf(wallet)
              /\ LockedOf(wallet)' = Plus(LockedOf(wallet), u, a)
              /\ snap[c][u] = wallet[u] /\ Book!Post(es)
         /\ CommitTx(c, {u}, Unreserve(snap[c], u, a), es) =>
              /\ BalanceOf(wallet)' = BalanceOf(wallet)
              /\ LockedOf(wallet)' = Less(LockedOf(wallet), u, a)
              /\ snap[c][u] = wallet[u] /\ Book!Post(es)
<1>1. wallet \in [User -> Row] /\ snap[c] \in [User -> Row] /\ {u} \in SUBSET User
  BY DEF IInv, TypeOK
<1>2. ASSUME NEW rows, CommitTx(c, {u}, rows, es)
      PROVE  /\ Overlay({u}, snap[c]) = wallet /\ wallet' = Overlay({u}, rows)
             /\ snap[c][u] = wallet[u] /\ Book!Post(es)
             /\ rows[u].balance = BalanceOf(wallet)'[u]
             /\ BalanceOf(wallet)' = BalanceOf(Overlay({u}, rows))
             /\ LockedOf(wallet)' = LockedOf(Overlay({u}, rows))
  <2>1. /\ Overlay({u}, snap[c]) = wallet /\ wallet' = Overlay({u}, rows)
        /\ snap[c][u] = wallet[u]
        /\ \A e \in ledger, n \in es : e.key # n.key
        /\ ledger' = ledger \cup es
    BY <1>1, <1>2, OverlayRead
  <2>2. wallet'[u] = rows[u]
    BY <2>1 DEF Overlay
  <2>3. Book!Post(es)
    BY <2>1 DEF Book!Post
  <2> QED BY <2>1, <2>2, <2>3 DEF BalanceOf, LockedOf
<1>3. CommitTx(c, {u}, Credit(snap[c], u, a), es) =>
        /\ BalanceOf(wallet)' = Plus(BalanceOf(wallet), u, a)
        /\ LockedOf(wallet)' = LockedOf(wallet)
        /\ Credit(snap[c], u, a)[u].balance = Plus(BalanceOf(wallet), u, a)[u]
        /\ snap[c][u] = wallet[u] /\ Book!Post(es)
  <2> SUFFICES ASSUME CommitTx(c, {u}, Credit(snap[c], u, a), es)
               PROVE  /\ BalanceOf(wallet)' = Plus(BalanceOf(wallet), u, a)
                      /\ LockedOf(wallet)' = LockedOf(wallet)
                      /\ Credit(snap[c], u, a)[u].balance = Plus(BalanceOf(wallet), u, a)[u]
                      /\ snap[c][u] = wallet[u] /\ Book!Post(es)
    OBVIOUS
  <2>1. Overlay({u}, Credit(snap[c], u, a)) = Credit(wallet, u, a)
    BY <1>1, <1>2, OverlayUpdate
  <2>2. /\ BalanceOf(Credit(wallet, u, a)) = Plus(BalanceOf(wallet), u, a)
        /\ LockedOf(Credit(wallet, u, a)) = LockedOf(wallet)
    BY <1>1, UpdateMeans
  <2> QED BY <1>2, <2>1, <2>2
<1>4. CommitTx(c, {u}, Debit(snap[c], u, a), es) =>
        /\ BalanceOf(wallet)' = Minus(BalanceOf(wallet), u, a)
        /\ LockedOf(wallet)' = LockedOf(wallet)
        /\ Debit(snap[c], u, a)[u].balance = Minus(BalanceOf(wallet), u, a)[u]
        /\ snap[c][u] = wallet[u] /\ Book!Post(es)
  <2> SUFFICES ASSUME CommitTx(c, {u}, Debit(snap[c], u, a), es)
               PROVE  /\ BalanceOf(wallet)' = Minus(BalanceOf(wallet), u, a)
                      /\ LockedOf(wallet)' = LockedOf(wallet)
                      /\ Debit(snap[c], u, a)[u].balance = Minus(BalanceOf(wallet), u, a)[u]
                      /\ snap[c][u] = wallet[u] /\ Book!Post(es)
    OBVIOUS
  <2>1. Overlay({u}, Debit(snap[c], u, a)) = Debit(wallet, u, a)
    BY <1>1, <1>2, OverlayUpdate, ZenonT(30)
  <2>2. /\ BalanceOf(Debit(wallet, u, a)) = Minus(BalanceOf(wallet), u, a)
        /\ LockedOf(Debit(wallet, u, a)) = LockedOf(wallet)
    BY <1>1, UpdateMeans
  <2> QED BY <1>2, <2>1, <2>2
<1>5. CommitTx(c, {u}, Reserve(snap[c], u, a), es) =>
        /\ BalanceOf(wallet)' = BalanceOf(wallet)
        /\ LockedOf(wallet)' = Plus(LockedOf(wallet), u, a)
        /\ snap[c][u] = wallet[u] /\ Book!Post(es)
  <2> SUFFICES ASSUME CommitTx(c, {u}, Reserve(snap[c], u, a), es)
               PROVE  /\ BalanceOf(wallet)' = BalanceOf(wallet)
                      /\ LockedOf(wallet)' = Plus(LockedOf(wallet), u, a)
                      /\ snap[c][u] = wallet[u] /\ Book!Post(es)
    OBVIOUS
  <2>1. Overlay({u}, Reserve(snap[c], u, a)) = Reserve(wallet, u, a)
    BY <1>1, <1>2, OverlayUpdate
  <2>2. /\ BalanceOf(Reserve(wallet, u, a)) = BalanceOf(wallet)
        /\ LockedOf(Reserve(wallet, u, a)) = Plus(LockedOf(wallet), u, a)
    BY <1>1, UpdateMeans
  <2> QED BY <1>2, <2>1, <2>2
<1>6. CommitTx(c, {u}, Unreserve(snap[c], u, a), es) =>
        /\ BalanceOf(wallet)' = BalanceOf(wallet)
        /\ LockedOf(wallet)' = Less(LockedOf(wallet), u, a)
        /\ snap[c][u] = wallet[u] /\ Book!Post(es)
  <2> SUFFICES ASSUME CommitTx(c, {u}, Unreserve(snap[c], u, a), es)
               PROVE  /\ BalanceOf(wallet)' = BalanceOf(wallet)
                      /\ LockedOf(wallet)' = Less(LockedOf(wallet), u, a)
                      /\ snap[c][u] = wallet[u] /\ Book!Post(es)
    OBVIOUS
  <2>1. Overlay({u}, Unreserve(snap[c], u, a)) = Unreserve(wallet, u, a)
    BY <1>1, <1>2, OverlayUpdate
  <2>2. /\ BalanceOf(Unreserve(wallet, u, a)) = BalanceOf(wallet)
        /\ LockedOf(Unreserve(wallet, u, a)) = Less(LockedOf(wallet), u, a)
    BY <1>1, UpdateMeans
  <2> QED BY <1>2, <2>1, <2>2
<1> QED BY <1>3, <1>4, <1>5, <1>6

LEMMA DeductImplements ==
  ASSUME IInv, NEW c \in Call, DeductCommit(c)
  PROVE  Book!Deduct(request[c])
<1> DEFINE r == request[c]
<1>r. r.user \in User /\ r.amount \in Int /\ pc[c] = "write"
  BY RequestType DEF IInv, DeductCommit, CommitTx
<1>1. CommitTx(c, {r.user}, Debit(snap[c], r.user, r.amount), {}) /\ r.op = "deductForCharging"
  BY DEF DeductCommit
<1>2. snap[c][r.user].balance >= r.amount
  BY <1>r, <1>1 DEF IInv, ReadAllowed, Permitted
<1> HIDE DEF r
<1>3. /\ BalanceOf(wallet)' = Minus(BalanceOf(wallet), r.user, r.amount)
      /\ LockedOf(wallet)' = LockedOf(wallet)
      /\ snap[c][r.user] = wallet[r.user]
  BY <1>r, <1>1, OneRow
<1>4. BalanceOf(wallet)[r.user] >= r.amount
  BY <1>r, <1>2, <1>3 DEF BalanceOf
<1>5. ledger' = ledger
  BY <1>1 DEF CommitTx
<1>6. Book!Deduct(r)
  BY <1>1, <1>3, <1>4, <1>5 DEF Book!Deduct, BalanceOf, LockedOf, Minus
<1> QED BY <1>6 DEF r

LEMMA LockImplements ==
  ASSUME IInv, NEW c \in Call, LockCommit(c)
  PROVE  Book!Lock(request[c])
<1> DEFINE r == request[c]
<1>r. r.user \in User /\ r.amount \in Int /\ pc[c] = "write"
  BY RequestType DEF IInv, LockCommit, CommitTx
<1>1. CommitTx(c, {r.user}, Reserve(snap[c], r.user, r.amount), {}) /\ r.op = "lockFunds"
  BY DEF LockCommit
<1>2. snap[c][r.user].balance - snap[c][r.user].locked >= r.amount
  BY <1>r, <1>1 DEF IInv, ReadAllowed, Permitted
<1> HIDE DEF r
<1>3. /\ BalanceOf(wallet)' = BalanceOf(wallet)
      /\ LockedOf(wallet)' = Plus(LockedOf(wallet), r.user, r.amount)
      /\ snap[c][r.user] = wallet[r.user]
  BY <1>r, <1>1, OneRow
<1>4. BalanceOf(wallet)[r.user] - LockedOf(wallet)[r.user] >= r.amount
  BY <1>r, <1>2, <1>3 DEF BalanceOf, LockedOf
<1>5. ledger' = ledger
  BY <1>1 DEF CommitTx
<1>6. Book!Lock(r)
  BY <1>1, <1>3, <1>4, <1>5 DEF Book!Lock, BalanceOf, LockedOf, Plus
<1> QED BY <1>6 DEF r

LEMMA UnlockImplements ==
  ASSUME IInv, NEW c \in Call, UnlockCommit(c)
  PROVE  Book!Unlock(request[c])
<1> DEFINE r == request[c]
<1>r. r.user \in User /\ r.amount \in Int
  BY RequestType DEF IInv
<1>1. CommitTx(c, {r.user}, Unreserve(snap[c], r.user, r.amount), {}) /\ r.op = "unlockFunds"
  BY DEF UnlockCommit
<1> HIDE DEF r
<1>3. /\ BalanceOf(wallet)' = BalanceOf(wallet)
      /\ LockedOf(wallet)' = Less(LockedOf(wallet), r.user, r.amount)
  BY <1>r, <1>1, OneRow
<1>5. ledger' = ledger
  BY <1>1 DEF CommitTx
<1>6. Book!Unlock(r)
  BY <1>1, <1>3, <1>5 DEF Book!Unlock, Book!Max0, Max0, BalanceOf, LockedOf, Less
<1> QED BY <1>6 DEF r

LEMMA RefundImplements ==
  ASSUME IInv, NEW c \in Call, RefundCommit(c)
  PROVE  Book!Refund(request[c])
<1> DEFINE r  == request[c]
           s1 == Credit(snap[c], r.user, r.amount)
           es == {Entry(<<r.key, "plain">>, r.user, "REFUND", r.amount, s1[r.user].balance, "REFUND")}
<1>r. r.user \in User /\ r.amount \in Int
  BY RequestType DEF IInv
<1>1. CommitTx(c, {r.user}, s1, es) /\ r.op = "processRefund"
  BY DEF RefundCommit
<1> HIDE DEF r, es
<1>2. /\ BalanceOf(wallet)' = Plus(BalanceOf(wallet), r.user, r.amount)
      /\ LockedOf(wallet)' = LockedOf(wallet)
      /\ s1[r.user].balance = Plus(BalanceOf(wallet), r.user, r.amount)[r.user]
      /\ Book!Post(es)
  BY <1>r, <1>1, OneRow
<1> HIDE DEF s1
<1>3. es = {Book!Entry(<<r.key, "plain">>, r.user, "REFUND", r.amount,
                       Plus(BalanceOf(wallet), r.user, r.amount)[r.user], "REFUND")}
  BY <1>2 DEF es, Book!Entry, Entry
<1>4. Book!Refund(r)
  BY <1>1, <1>2, <1>3 DEF Book!Refund, BalanceOf, LockedOf, Plus
<1> QED BY <1>4 DEF r

LEMMA OwnerEarningImplements ==
  ASSUME IInv, NEW c \in Call, OwnerEarningCommit(c)
  PROVE  Book!PayOwner(request[c])
<1> DEFINE r  == request[c]
           s1 == Credit(snap[c], r.owner, r.amount)
           es == {Entry(<<r.key, "plain">>, r.owner, "OWNER_EARNING", r.amount, s1[r.owner].balance, "CHARGING_SESSION")}
<1>r. r.owner \in User /\ r.amount \in Int
  BY RequestType DEF IInv
<1>1. CommitTx(c, {r.owner}, s1, es) /\ r.op = "recordOwnerEarning"
  BY DEF OwnerEarningCommit
<1> HIDE DEF r, es
<1>2. /\ BalanceOf(wallet)' = Plus(BalanceOf(wallet), r.owner, r.amount)
      /\ LockedOf(wallet)' = LockedOf(wallet)
      /\ s1[r.owner].balance = Plus(BalanceOf(wallet), r.owner, r.amount)[r.owner]
      /\ Book!Post(es)
  BY <1>r, <1>1, OneRow
<1> HIDE DEF s1
<1>3. es = {Book!Entry(<<r.key, "plain">>, r.owner, "OWNER_EARNING", r.amount,
                       Plus(BalanceOf(wallet), r.owner, r.amount)[r.owner], "CHARGING_SESSION")}
  BY <1>2 DEF es, Book!Entry, Entry
<1>4. Book!PayOwner(r)
  BY <1>1, <1>2, <1>3 DEF Book!PayOwner, BalanceOf, LockedOf, Plus
<1> QED BY <1>4 DEF r

LEMMA CommissionImplements ==
  ASSUME IInv, NEW c \in Call, CommissionCommit(c)
  PROVE  Book!ChargeCommission(request[c])
<1> DEFINE r  == request[c]
           s1 == Debit(snap[c], Admin, r.amount)
           es == {Entry(<<r.key, "plain">>, Admin, "COMMISSION", r.amount, s1[Admin].balance, "CHARGING_SESSION")}
<1>r. Admin \in User /\ r.amount \in Int
  BY RequestType, AdminAssumption DEF IInv
<1>1. CommitTx(c, {Admin}, s1, es) /\ r.op = "recordCommission"
  BY DEF CommissionCommit
<1> HIDE DEF r, es
<1>2. /\ BalanceOf(wallet)' = Minus(BalanceOf(wallet), Admin, r.amount)
      /\ LockedOf(wallet)' = LockedOf(wallet)
      /\ s1[Admin].balance = Minus(BalanceOf(wallet), Admin, r.amount)[Admin]
      /\ Book!Post(es)
  BY <1>r, <1>1, OneRow
<1> HIDE DEF s1
<1>3. es = {Book!Entry(<<r.key, "plain">>, Admin, "COMMISSION", r.amount,
                       Minus(BalanceOf(wallet), Admin, r.amount)[Admin], "CHARGING_SESSION")}
  BY <1>2 DEF es, Book!Entry, Entry
<1>4. Book!ChargeCommission(r)
  BY <1>1, <1>2, <1>3 DEF Book!ChargeCommission, BalanceOf, LockedOf, Minus
<1> QED BY <1>4 DEF r

LEMMA CompensateImplements ==
  ASSUME IInv, NEW c \in Call, CompensateCommit(c)
  PROVE  Book!Compensate(request[c])
<1> DEFINE r == request[c]
<1>1. PICK e \in ledger :
        LET d  == IF IsDebitType(e.type) THEN e.amount ELSE -e.amount
            w1 == Credit(snap[c], e.user, d)
        IN /\ e.key = r.of
           /\ CommitTx(c, {e.user}, w1,
                {Entry(<<r.key, "plain">>, e.user, CompensatingType(e.type),
                       e.amount, w1[e.user].balance, "ADJUSTMENT")})
  BY DEF CompensateCommit
<1> DEFINE d  == IF IsDebitType(e.type) THEN e.amount ELSE -e.amount
           s1 == Credit(snap[c], e.user, d)
           es == {Entry(<<r.key, "plain">>, e.user, CompensatingType(e.type),
                        e.amount, s1[e.user].balance, "ADJUSTMENT")}
<1>2. CommitTx(c, {e.user}, s1, es) /\ e.key = r.of /\ r.op = "createCompensatingEntry"
  BY <1>1 DEF CompensateCommit
<1>r. e.user \in User /\ d \in Int
  BY DEF IInv, TypeOK, EntryOf
<1>d. /\ d = IF Book!IsDebitType(e.type) THEN e.amount ELSE -e.amount
      /\ CompensatingType(e.type) = Book!CompensatingType(e.type)
  BY DEF IsDebitType, Book!IsDebitType, CompensatingType, Book!CompensatingType
<1> HIDE DEF r, d, es
<1>3. /\ BalanceOf(wallet)' = Plus(BalanceOf(wallet), e.user, d)
      /\ LockedOf(wallet)' = LockedOf(wallet)
      /\ s1[e.user].balance = Plus(BalanceOf(wallet), e.user, d)[e.user]
      /\ Book!Post(es)
  BY <1>r, <1>2, OneRow
<1> HIDE DEF s1
<1>4. es = {Book!Entry(<<r.key, "plain">>, e.user, Book!CompensatingType(e.type), e.amount,
                       Plus(BalanceOf(wallet), e.user, d)[e.user], "ADJUSTMENT")}
  BY <1>3, <1>d DEF es, Book!Entry, Entry
<1>5. Book!Compensate(r)
  BY <1>2, <1>3, <1>4, <1>d DEF Book!Compensate, BalanceOf, LockedOf, Plus
<1> QED BY <1>5 DEF r

LEMMA ReleaseImplements ==
  ASSUME IInv, NEW c \in Call, ReleaseCommit(c)
  PROVE  Book!Release(request[c])
<1> DEFINE r  == request[c]
           s  == snap[c]
           T  == {r.user, Admin, r.owner}
           m  == Commission(r.amount)
           o  == OwnerEarning(r.amount)
           s1 == Debit(s, r.user, r.amount)
           s2 == Credit(s1, Admin, m)
           s3 == Credit(s2, r.owner, o)
           w1 == Debit(wallet, r.user, r.amount)
           w2 == Credit(w1, Admin, m)
           w3 == Credit(w2, r.owner, o)
           es == {Entry(<<r.key, "plain">>, r.user, "CHARGE_DEBIT", r.amount, s1[r.user].balance, "CHARGING_SESSION"),
                  Entry(<<r.key, "admin">>, Admin, "COMMISSION", m, s2[Admin].balance, "CHARGING_SESSION"),
                  Entry(<<r.key, "owner">>, r.owner, "OWNER_EARNING", o, s3[r.owner].balance, "CHARGING_SESSION")}
<1>r. /\ r.user \in User /\ Admin \in User /\ r.owner \in User /\ r.amount \in Int
      /\ T \in SUBSET User /\ r.user \in T /\ Admin \in T /\ r.owner \in T
  BY RequestType, AdminAssumption DEF IInv
<1>p. m \in Int /\ o \in Int
  BY RequestType, PartsNat DEF IInv
<1>m. m = Book!Commission(r.amount) /\ o = Book!OwnerEarning(r.amount)
  BY DEF Commission, Book!Commission, OwnerEarning, Book!OwnerEarning, RoundHalfUp, Book!RoundHalfUp
<1>t. wallet \in [User -> Row] /\ s \in [User -> Row]
  BY DEF IInv, TypeOK
<1>1. CommitTx(c, T, s3, es) /\ r.op = "releaseChargingAmount"
  BY DEF ReleaseCommit
<1>w. s[r.user].balance >= r.amount
  <2>1. pc[c] = "write"
    BY <1>1 DEF CommitTx
  <2> QED BY <1>1, <2>1 DEF IInv, ReadAllowed, Permitted
<1> HIDE DEF r, T, es, m, o
<1>2. /\ Overlay(T, s) = wallet /\ wallet' = Overlay(T, s3) /\ s[r.user] = wallet[r.user]
      /\ \A e \in ledger, n \in es : e.key # n.key
      /\ ledger' = ledger \cup es
  <2> HIDE DEF s3
  <2> QED BY <1>r, <1>1, OverlayRead
<1> HIDE DEF s
<1>3. w1 \in [User -> Row] /\ s1 \in [User -> Row]
  BY <1>r, <1>t, UpdateTypes
<1>4. Overlay(T, s1) = w1
  BY <1>r, <1>t, <1>2, OverlayUpdate
<1>5. BalanceOf(w1) = Minus(BalanceOf(wallet), r.user, r.amount) /\ LockedOf(w1) = LockedOf(wallet)
  BY <1>r, <1>t, UpdateMeans
<1> HIDE DEF w1, s1
<1>6. w2 \in [User -> Row] /\ s2 \in [User -> Row]
  BY <1>r, <1>p, <1>3, UpdateTypes
<1>7. Overlay(T, s2) = w2
  BY <1>r, <1>p, <1>3, <1>4, OverlayUpdate
<1>8. BalanceOf(w2) = Plus(BalanceOf(w1), Admin, m) /\ LockedOf(w2) = LockedOf(w1)
  BY <1>r, <1>p, <1>3, UpdateMeans
<1> HIDE DEF w2, s2
<1>9. Overlay(T, s3) = w3
  BY <1>r, <1>p, <1>6, <1>7, OverlayUpdate
<1>10. BalanceOf(w3) = Plus(BalanceOf(w2), r.owner, o) /\ LockedOf(w3) = LockedOf(w2)
  BY <1>r, <1>p, <1>6, UpdateMeans
<1> HIDE DEF w3, s3
<1>11. /\ s1[r.user].balance = BalanceOf(w1)[r.user]
       /\ s2[Admin].balance = BalanceOf(w2)[Admin]
       /\ s3[r.owner].balance = BalanceOf(w3)[r.owner]
  BY <1>r, <1>4, <1>7, <1>9 DEF Overlay, BalanceOf
<1>12. /\ BalanceOf(wallet)' = BalanceOf(w3)
       /\ LockedOf(wallet)' = LockedOf(wallet)
  BY <1>2, <1>5, <1>8, <1>9, <1>10 DEF BalanceOf, LockedOf
<1>13. Book!Post(es)
  BY <1>2 DEF Book!Post
<1>14. es = {Book!Entry(<<r.key, "plain">>, r.user, "CHARGE_DEBIT", r.amount, BalanceOf(w1)[r.user], "CHARGING_SESSION"),
             Book!Entry(<<r.key, "admin">>, Admin, "COMMISSION", m, BalanceOf(w2)[Admin], "CHARGING_SESSION"),
             Book!Entry(<<r.key, "owner">>, r.owner, "OWNER_EARNING", o, BalanceOf(w3)[r.owner], "CHARGING_SESSION")}
  BY <1>11 DEF es, Book!Entry, Entry
<1>15. BalanceOf(wallet)[r.user] >= r.amount
  BY <1>r, <1>w, <1>2 DEF BalanceOf
<1>16. Book!Release(r)
  BY <1>1, <1>m, <1>5, <1>8, <1>10, <1>12, <1>13, <1>14, <1>15
     DEF Book!Release, BalanceOf, LockedOf, Plus, Minus
<1> QED BY <1>16 DEF r

LEMMA CommitImplements ==
  ASSUME IInv, NEW c \in Call, Commit(c)
  PROVE  Book!BookNext
<1>1. request[c] \in Request
  BY RequestType DEF IInv
<1>2. CASE TopUpCommit(c)
  BY <1>1, <1>2, TopUpImplements DEF Book!BookNext, Book!Perform, Book!TopUp
<1>3. CASE DeductCommit(c)
  BY <1>1, <1>3, DeductImplements DEF Book!BookNext, Book!Perform, Book!Deduct
<1>4. CASE RefundCommit(c)
  BY <1>1, <1>4, RefundImplements DEF Book!BookNext, Book!Perform, Book!Refund
<1>5. CASE ReleaseCommit(c)
  BY <1>1, <1>5, ReleaseImplements DEF Book!BookNext, Book!Perform, Book!Release
<1>6. CASE LockCommit(c)
  BY <1>1, <1>6, LockImplements DEF Book!BookNext, Book!Perform, Book!Lock
<1>7. CASE UnlockCommit(c)
  BY <1>1, <1>7, UnlockImplements DEF Book!BookNext, Book!Perform, Book!Unlock
<1>8. CASE CompensateCommit(c)
  BY <1>1, <1>8, CompensateImplements DEF Book!BookNext, Book!Perform, Book!Compensate
<1>9. CASE OwnerEarningCommit(c)
  BY <1>1, <1>9, OwnerEarningImplements DEF Book!BookNext, Book!Perform, Book!PayOwner
<1>10. CASE CommissionCommit(c)
  BY <1>1, <1>10, CommissionImplements DEF Book!BookNext, Book!Perform, Book!ChargeCommission
<1> QED BY <1>2, <1>3, <1>4, <1>5, <1>6, <1>7, <1>8, <1>9, <1>10 DEF Commit

\* Reading, creating an empty wallet row and rolling back leave the account
\* book as it is.
LEMMA OthersStutter ==
  ASSUME IInv, [Next]_vars, \A c \in Call : ~Commit(c)
  PROVE  Book!bookVars' = Book!bookVars
<1> DEFINE Same == /\ ledger' = ledger
                   /\ \/ wallet' = wallet
                      \/ \E u \in User : wallet' = [wallet EXCEPT ![u] = Ensured(@)]
<1>1. Same
  <2>1. ASSUME NEW c \in Call, Receive(c) \/ DatabaseError(c) \/ VersionConflict(c) \/ DuplicateKey(c)
        PROVE  Same
    BY <2>1 DEF Receive, DatabaseError, VersionConflict, DuplicateKey
  <2>2. ASSUME NEW c \in Call, Read(c)
        PROVE  Same
    BY <2>2, ReadShape DEF IInv, ReadTx
  <2>3. ASSUME NEW c \in Call, LookUpKey(c) \/ CheckSufficientBalance(c)
        PROVE  Same
    BY <2>3, RequestType DEF IInv, LookUpKey, CheckSufficientBalance
  <2>4. CASE UNCHANGED vars
    BY <2>4 DEF vars
  <2> HIDE DEF Same
  <2> QED BY <2>1, <2>2, <2>3, <2>4 DEF Next, Proceed
<1>2. wallet \in [User -> Row]
  BY DEF IInv, TypeOK
<1>3. BalanceOf(wallet)' = BalanceOf(wallet) /\ LockedOf(wallet)' = LockedOf(wallet)
  BY <1>1, <1>2 DEF BalanceOf, LockedOf, Ensured
<1> QED BY <1>1, <1>3 DEF Book!bookVars, BalanceOf, LockedOf

\* Whatever the interleaving of the handlers' database calls, the tables
\* change as if each operation of wallet.service.js and ledger.service.js
\* took effect at one instant, on the balances of that instant.
THEOREM Implementation == Spec => ImplementsAccountBook
<1>1. Init => Book!BookInit
  BY OpeningAssumption DEF Init, Book!BookInit
<1>2. IInv /\ [Next]_vars => [Book!BookNext]_(Book!bookVars)
  BY CommitImplements, OthersStutter
<1> QED BY <1>1, <1>2, Invariance, PTL DEF Spec, ImplementsAccountBook, Book!BookSpec

-----------------------------------------------------------------------------
\* What one step of the account book does to balances and entries

CoversLocks ==
  \A u \in User : wallet'[u].locked > wallet[u].locked => wallet'[u].locked <= wallet'[u].balance

Records ==
  \A e \in ledger' \ ledger :
    (\A o \in ledger' \ ledger : o.user = e.user => o = e) =>
      /\ e.after = wallet'[e.user].balance
      /\ wallet'[e.user].balance - wallet[e.user].balance \in {e.amount, -e.amount}

ChargeBack(u) == \E e \in ledger : e.user = u /\ e.type = "CHARGE_DEBIT" /\ e.ref = "ADJUSTMENT"

\* A balance falls below zero by a charge-back or not at all.
StaysPrepaid ==
  \A u \in User \ {Admin} :
    wallet'[u].balance >= wallet[u].balance \/ wallet'[u].balance >= 0 \/ ChargeBack(u)'

IsRelease(e) == e.type = "CHARGE_DEBIT" /\ e.ref = "CHARGING_SESSION"

\* f and e are entries of one release only if f is the part of e that its key says.
PartOf(f, e) ==
  /\ f.key = <<e.key[1], "admin">> => f.amount = Commission(e.amount)
  /\ f.key = <<e.key[1], "owner">> => f.amount = OwnerEarning(e.amount)

\* The entries of one transaction have one key: a plain row, and rows derived from it.
PostsUnder(k, es) ==
  /\ ledger' = ledger \cup es
  /\ \A e \in ledger, n \in es : e.key # n.key
  /\ es = {} \/ \E p \in es : p.key = <<k, "plain">>
  /\ \A n \in es : n.key[1] = k
  /\ \A n \in es : IsRelease(n) => \A f \in es : PartOf(f, n)

Posts == \E k \in Key, es \in SUBSET EntryOf(Key, User) : PostsUnder(k, es)

OneStep == CoversLocks /\ Records /\ StaysPrepaid /\ Posts

LEMMA DeductDoes ==
  ASSUME TypeOK, TypeOK', NEW r \in Request, Book!Deduct(r)
  PROVE  OneStep
<1>r. r.user \in User /\ r.amount \in Nat /\ r.key \in Key
  BY RequestAssumption
<1>1. \A u \in User : /\ wallet[u].balance \in Int /\ wallet[u].locked \in Nat
                      /\ wallet'[u].balance = IF u = r.user THEN wallet[u].balance - r.amount ELSE wallet[u].balance
                      /\ wallet'[u].locked = wallet[u].locked
  BY <1>r DEF Book!Deduct, TypeOK, Row
<1>2. wallet[r.user].balance >= r.amount /\ ledger' = ledger
  BY <1>r DEF Book!Deduct
<1>3. CoversLocks /\ Records
  BY <1>1, <1>2 DEF CoversLocks, Records
<1>4. StaysPrepaid
  BY <1>r, <1>1, <1>2 DEF StaysPrepaid
<1>5. Posts
  <2>1. PostsUnder(r.key, {}) /\ {} \in SUBSET EntryOf(Key, User)
    BY <1>2 DEF PostsUnder
  <2> QED BY <1>r, <2>1 DEF Posts
<1> QED BY <1>3, <1>4, <1>5 DEF OneStep

LEMMA LockDoes ==
  ASSUME TypeOK, TypeOK', NEW r \in Request, Book!Lock(r)
  PROVE  OneStep
<1>r. r.user \in User /\ r.amount \in Nat /\ r.key \in Key
  BY RequestAssumption
<1>1. \A u \in User : /\ wallet[u].balance \in Int /\ wallet[u].locked \in Nat
                      /\ wallet'[u].balance = wallet[u].balance
                      /\ wallet'[u].locked = IF u = r.user THEN wallet[u].locked + r.amount ELSE wallet[u].locked
  BY <1>r DEF Book!Lock, TypeOK, Row
<1>2. wallet[r.user].balance - wallet[r.user].locked >= r.amount /\ ledger' = ledger
  BY <1>r DEF Book!Lock
<1>3. CoversLocks /\ Records /\ StaysPrepaid
  BY <1>r, <1>1, <1>2 DEF CoversLocks, Records, StaysPrepaid
<1>5. Posts
  <2>1. PostsUnder(r.key, {}) /\ {} \in SUBSET EntryOf(Key, User)
    BY <1>2 DEF PostsUnder
  <2> QED BY <1>r, <2>1 DEF Posts
<1> QED BY <1>3, <1>5 DEF OneStep

LEMMA UnlockDoes ==
  ASSUME TypeOK, TypeOK', NEW r \in Request, Book!Unlock(r)
  PROVE  OneStep
<1>r. r.user \in User /\ r.amount \in Nat /\ r.key \in Key
  BY RequestAssumption
<1>1. \A u \in User : /\ wallet[u].balance \in Int /\ wallet[u].locked \in Nat
                      /\ wallet'[u].balance = wallet[u].balance
                      /\ wallet'[u].locked = IF u = r.user THEN Book!Max0(wallet[u].locked - r.amount)
                                                           ELSE wallet[u].locked
  BY <1>r DEF Book!Unlock, TypeOK, Row
<1>2. ledger' = ledger
  BY DEF Book!Unlock
<1>3. \A u \in User : wallet'[u].locked <= wallet[u].locked /\ wallet'[u].locked \in Int
  BY <1>r, <1>1 DEF Book!Max0
<1>4. CoversLocks /\ Records /\ StaysPrepaid
  BY <1>r, <1>1, <1>2, <1>3 DEF CoversLocks, Records, StaysPrepaid
<1>5. Posts
  <2>1. PostsUnder(r.key, {}) /\ {} \in SUBSET EntryOf(Key, User)
    BY <1>2 DEF PostsUnder
  <2> QED BY <1>r, <2>1 DEF Posts
<1> QED BY <1>4, <1>5 DEF OneStep

\* The operations that change one balance and post one entry for it.
LEMMA OneEntryDoes ==
  ASSUME TypeOK, TypeOK', NEW u \in User, NEW d \in Int, NEW k \in Key, NEW n,
         \A v \in User : wallet'[v].balance = wallet[v].balance + (IF v = u THEN d ELSE 0),
         \A v \in User : wallet'[v].locked = wallet[v].locked,
         Book!Post({n}),
         n.key = <<k, "plain">>, n.user = u, n.after = wallet'[u].balance, d \in {n.amount, -n.amount},
         ~IsRelease(n),
         d >= 0 \/ u = Admin \/ (n.type = "CHARGE_DEBIT" /\ n.ref = "ADJUSTMENT")
  PROVE  OneStep
<1>1. \A v \in User : wallet[v].balance \in Int /\ wallet'[v].balance \in Int /\ wallet[v].locked \in Nat
  BY DEF TypeOK, Row
<1>2. ledger' = ledger \cup {n} /\ (\A e \in ledger, m \in {n} : e.key # m.key) /\ n \in ledger'
  BY DEF Book!Post
<1>3. CoversLocks
  BY <1>1 DEF CoversLocks
<1>4. Records
  <2>1. wallet'[u].balance - wallet[u].balance = d
    BY <1>1
  <2> QED BY <1>2, <2>1 DEF Records
<1>5. StaysPrepaid
  <2>1. ASSUME NEW v \in User \ {Admin}
        PROVE  wallet'[v].balance >= wallet[v].balance \/ ChargeBack(v)'
    <3>1. CASE v # u \/ d >= 0
      BY <1>1, <3>1
    <3>2. CASE v = u /\ ~(d >= 0)
      BY <1>2, <3>2 DEF ChargeBack
    <3> QED BY <3>1, <3>2
  <2> QED BY <2>1 DEF StaysPrepaid
<1>6. Posts
  <2>1. {n} \in SUBSET EntryOf(Key, User)
    BY <1>2 DEF TypeOK
  <2>2. PostsUnder(k, {n})
    BY <1>2 DEF PostsUnder
  <2> QED BY <2>1, <2>2 DEF Posts
<1> QED BY <1>3, <1>4, <1>5, <1>6 DEF OneStep

LEMMA RefundDoes ==
  ASSUME TypeOK, TypeOK', NEW r \in Request, Book!Refund(r)
  PROVE  OneStep
<1> DEFINE n == Book!Entry(<<r.key, "plain">>, r.user, "REFUND", r.amount, wallet'[r.user].balance, "REFUND")
<1>r. r.user \in User /\ r.amount \in Nat /\ r.key \in Key /\ r.amount >= 0
  BY RequestAssumption
<1>0. \A v \in User : wallet[v].balance \in Int /\ wallet[v].locked \in Nat
  BY DEF TypeOK, Row
<1>1. \A v \in User : /\ wallet'[v].balance = wallet[v].balance + (IF v = r.user THEN r.amount ELSE 0)
                      /\ wallet'[v].locked = wallet[v].locked
  BY <1>r, <1>0 DEF Book!Refund
<1>2. Book!Post({n})
  BY <1>r, <1>0, <1>1 DEF Book!Refund
<1>3. /\ n.key = <<r.key, "plain">> /\ n.user = r.user /\ n.after = wallet'[r.user].balance
      /\ n.amount = r.amount /\ ~IsRelease(n)
  BY DEF Book!Entry, IsRelease
<1> HIDE DEF n
<1> QED BY <1>r, <1>1, <1>2, <1>3, OneEntryDoes

LEMMA PayOwnerDoes ==
  ASSUME TypeOK, TypeOK', NEW r \in Request, Book!PayOwner(r)
  PROVE  OneStep
<1> DEFINE n == Book!Entry(<<r.key, "plain">>, r.owner, "OWNER_EARNING", r.amount, wallet'[r.owner].balance, "CHARGING_SESSION")
<1>r. r.owner \in User /\ r.amount \in Nat /\ r.key \in Key /\ r.amount >= 0
  BY RequestAssumption
<1>0. \A v \in User : wallet[v].balance \in Int /\ wallet[v].locked \in Nat
  BY DEF TypeOK, Row
<1>1. \A v \in User : /\ wallet'[v].balance = wallet[v].balance + (IF v = r.owner THEN r.amount ELSE 0)
                      /\ wallet'[v].locked = wallet[v].locked
  BY <1>r, <1>0 DEF Book!PayOwner
<1>2. Book!Post({n})
  BY <1>r, <1>0, <1>1 DEF Book!PayOwner
<1>3. /\ n.key = <<r.key, "plain">> /\ n.user = r.owner /\ n.after = wallet'[r.owner].balance
      /\ n.amount = r.amount /\ ~IsRelease(n)
  BY DEF Book!Entry, IsRelease
<1> HIDE DEF n
<1> QED BY <1>r, <1>1, <1>2, <1>3, OneEntryDoes

LEMMA ChargeCommissionDoes ==
  ASSUME TypeOK, TypeOK', NEW r \in Request, Book!ChargeCommission(r)
  PROVE  OneStep
<1> DEFINE n == Book!Entry(<<r.key, "plain">>, Admin, "COMMISSION", r.amount, wallet'[Admin].balance, "CHARGING_SESSION")
           d == -r.amount
<1>r. Admin \in User /\ r.amount \in Nat /\ r.key \in Key /\ d \in Int
  BY RequestAssumption, AdminAssumption
<1>0. \A v \in User : wallet[v].balance \in Int /\ wallet[v].locked \in Nat
  BY DEF TypeOK, Row
<1>1. \A v \in User : /\ wallet'[v].balance = wallet[v].balance + (IF v = Admin THEN d ELSE 0)
                      /\ wallet'[v].locked = wallet[v].locked
  <2>1. \A v \in User : /\ wallet'[v].balance = IF v = Admin THEN wallet[v].balance - r.amount
                                                             ELSE wallet[v].balance
                        /\ wallet'[v].locked = wallet[v].locked
    BY <1>r, <1>0 DEF Book!ChargeCommission
  <2> QED BY <1>r, <1>0, <2>1
<1>2. Book!Post({n})
  <2>1. wallet'[Admin].balance = wallet[Admin].balance - r.amount
    BY <1>r, <1>0, <1>1
  <2> QED BY <1>r, <2>1 DEF Book!ChargeCommission
<1>3. /\ n.key = <<r.key, "plain">> /\ n.user = Admin /\ n.after = wallet'[Admin].balance
      /\ n.amount = r.amount /\ ~IsRelease(n) /\ d \in {n.amount, -n.amount}
  BY DEF Book!Entry, IsRelease
<1> HIDE DEF n, d
<1> QED BY <1>r, <1>1, <1>2, <1>3, OneEntryDoes

LEMMA CompensateDoes ==
  ASSUME TypeOK, TypeOK', NEW r \in Request, Book!Compensate(r)
  PROVE  OneStep
<1>1. PICK e \in ledger :
        LET B  == [u \in User |-> wallet[u].balance]
            d  == IF Book!IsDebitType(e.type) THEN e.amount ELSE -e.amount
            b1 == [B EXCEPT ![e.user] = @ + d]
        IN /\ [u \in User |-> wallet'[u].balance] = b1
           /\ Book!Post({Book!Entry(<<r.key, "plain">>, e.user, Book!CompensatingType(e.type), e.amount,
                                    b1[e.user], "ADJUSTMENT")})
  BY DEF Book!Compensate
<1> DEFINE d == IF Book!IsDebitType(e.type) THEN e.amount ELSE -e.amount
           t == Book!CompensatingType(e.type)
           n == Book!Entry(<<r.key, "plain">>, e.user, t, e.amount, wallet'[e.user].balance, "ADJUSTMENT")
<1>e. e.user \in User /\ e.amount \in Nat
  BY DEF TypeOK, EntryOf
<1>r. r.key \in Key /\ d \in Int /\ d \in {e.amount, -e.amount} /\ (d >= 0 \/ t = "CHARGE_DEBIT")
  BY <1>e, RequestAssumption DEF Book!CompensatingType
<1>0. \A v \in User : wallet[v].balance \in Int /\ wallet[v].locked \in Nat
  BY DEF TypeOK, Row
<1> HIDE DEF t
<1>1a. /\ [u \in User |-> wallet'[u].balance] = [[u \in User |-> wallet[u].balance] EXCEPT ![e.user] = @ + d]
       /\ [u \in User |-> wallet'[u].locked] = [u \in User |-> wallet[u].locked]
  BY <1>1 DEF Book!Compensate
<1> HIDE DEF d
<1>2. \A v \in User : wallet'[v].balance = wallet[v].balance + (IF v = e.user THEN d ELSE 0)
  BY <1>e, <1>r, <1>0, <1>1a
<1>2b. \A v \in User : wallet'[v].locked = wallet[v].locked
  BY <1>1a
<1>3. Book!Post({n})
  <2>1. wallet'[e.user].balance = [[u \in User |-> wallet[u].balance] EXCEPT ![e.user] = @ + d][e.user]
    BY <1>e, <1>2
  <2> QED BY <1>1, <2>1 DEF d, t
<1>4. /\ n.key = <<r.key, "plain">> /\ n.user = e.user /\ n.after = wallet'[e.user].balance
      /\ n.amount = e.amount /\ n.type = t /\ n.ref = "ADJUSTMENT" /\ ~IsRelease(n)
  BY DEF Book!Entry, IsRelease
<1> HIDE DEF n
<1> QED BY <1>e, <1>r, <1>2, <1>2b, <1>3, <1>4, OneEntryDoes

LEMMA TopUpDoes ==
  ASSUME TypeOK, TypeOK', NEW r \in Request, Book!TopUp(r)
  PROVE  OneStep
<1>r. r.user \in User /\ r.amount \in Nat /\ r.key \in Key /\ Admin \in User
  BY RequestAssumption, AdminAssumption
<1> DEFINE B == [u \in User |-> wallet[u].balance]
           b1 == [B EXCEPT ![r.user] = @ + r.amount]
           b2 == [b1 EXCEPT ![Admin] = @ + r.amount]
           p  == Book!Entry(<<r.key, "plain">>, r.user, "TOP_UP", r.amount, b1[r.user], "PAYMENT")
           q  == Book!Entry(<<r.key, "admin">>, Admin, "TOP_UP", r.amount, b2[Admin], "PAYMENT")
<1>0. /\ [u \in User |-> wallet'[u].balance] = b2 /\ [u \in User |-> wallet'[u].locked] = [u \in User |-> wallet[u].locked]
      /\ ledger' = ledger \cup {p, q} /\ \A e \in ledger, n \in {p, q} : e.key # n.key
  BY DEF Book!TopUp, Book!Post
<1>1. \A u \in User : /\ wallet[u].balance \in Int /\ wallet[u].locked \in Nat /\ wallet'[u].balance = b2[u]
                      /\ wallet'[u].locked = wallet[u].locked
  BY <1>0 DEF TypeOK, Row
<1>2. /\ \A u \in User : b1[u] = wallet[u].balance + (IF u = r.user THEN r.amount ELSE 0)
      /\ \A u \in User : b2[u] = b1[u] + (IF u = Admin THEN r.amount ELSE 0)
  <2>1. B \in [User -> Int] /\ \A u \in User : B[u] = wallet[u].balance
    BY <1>1
  <2> HIDE DEF B
  <2>2. b1 \in [User -> Int] /\ \A u \in User : b1[u] = B[u] + (IF u = r.user THEN r.amount ELSE 0)
    BY <1>r, <2>1
  <2> HIDE DEF b1
  <2>3. \A u \in User : b2[u] = b1[u] + (IF u = Admin THEN r.amount ELSE 0)
    BY <1>r, <2>2
  <2> QED BY <2>1, <2>2, <2>3
<1> HIDE DEF b1, b2
<1>3. /\ p.key = <<r.key, "plain">> /\ p.user = r.user /\ p.type = "TOP_UP" /\ p.amount = r.amount /\ p.after = b1[r.user]
      /\ q.key = <<r.key, "admin">> /\ q.user = Admin /\ q.type = "TOP_UP" /\ q.amount = r.amount /\ q.after = b2[Admin]
  BY DEF Book!Entry
<1>4. p \in ledger' /\ q \in ledger' /\ p \notin ledger /\ q \notin ledger /\ p # q
  BY <1>0, <1>3
<1> HIDE DEF p, q
<1>5. CoversLocks
  BY <1>1 DEF CoversLocks
<1>6. Records
  <2>1. ASSUME NEW e \in ledger' \ ledger, \A o \in ledger' \ ledger : o.user = e.user => o = e
        PROVE  e.after = wallet'[e.user].balance /\ wallet'[e.user].balance - wallet[e.user].balance = e.amount
    <3>1. r.user # Admin
      BY <1>0, <1>3, <1>4, <2>1
    <3>2. e = p \/ e = q
      BY <1>0, <2>1
    <3> QED BY <1>r, <1>1, <1>2, <1>3, <3>1, <3>2
  <2> QED BY <2>1 DEF Records
<1>7. StaysPrepaid
  BY <1>r, <1>1, <1>2 DEF StaysPrepaid
<1>8. Posts
  <2>0. ledger' \subseteq EntryOf(Key, User)
    BY DEF TypeOK
  <2>1. {p, q} \in SUBSET EntryOf(Key, User)
    BY <1>4, <2>0
  <2>2. PostsUnder(r.key, {p, q})
    BY <1>0, <1>3 DEF PostsUnder, IsRelease
  <2> QED BY <1>r, <2>1, <2>2 DEF Posts
<1> QED BY <1>5, <1>6, <1>7, <1>8 DEF OneStep

LEMMA ReleaseDoes ==
  ASSUME TypeOK, TypeOK', NEW r \in Request, Book!Release(r)
  PROVE  OneStep
<1> DEFINE a  == r.amount
           m  == Commission(a)
           o  == OwnerEarning(a)
           B  == [u \in User |-> wallet[u].balance]
           b1 == [B EXCEPT ![r.user] = @ - a]
           b2 == [b1 EXCEPT ![Admin] = @ + m]
           b3 == [b2 EXCEPT ![r.owner] = @ + o]
           p  == Book!Entry(<<r.key, "plain">>, r.user, "CHARGE_DEBIT", a, b1[r.user], "CHARGING_SESSION")
           q  == Book!Entry(<<r.key, "admin">>, Admin, "COMMISSION", m, b2[Admin], "CHARGING_SESSION")
           s  == Book!Entry(<<r.key, "owner">>, r.owner, "OWNER_EARNING", o, b3[r.owner], "CHARGING_SESSION")
<1>r. r.user \in User /\ r.owner \in User /\ r.amount \in Nat /\ r.key \in Key /\ Admin \in User
  BY RequestAssumption, AdminAssumption
<1>m. m \in Nat /\ o \in Nat /\ m = Book!Commission(a) /\ o = Book!OwnerEarning(a)
  BY <1>r, PartsNat DEF Commission, Book!Commission, OwnerEarning, Book!OwnerEarning, RoundHalfUp, Book!RoundHalfUp
<1>mp. m = Commission(a) /\ o = OwnerEarning(a)
  OBVIOUS
<1> HIDE DEF m, o
<1>0. /\ [u \in User |-> wallet'[u].balance] = b3 /\ [u \in User |-> wallet'[u].locked] = [u \in User |-> wallet[u].locked]
      /\ ledger' = ledger \cup {p, q, s} /\ \A e \in ledger, n \in {p, q, s} : e.key # n.key
      /\ wallet[r.user].balance >= a
  <2>1. /\ [u \in User |-> wallet'[u].balance] = b3
        /\ [u \in User |-> wallet'[u].locked] = [u \in User |-> wallet[u].locked]
    BY <1>m DEF Book!Release
  <2>2. Book!Post({p, q, s})
    BY <1>m DEF Book!Release
  <2>3. wallet[r.user].balance >= a
    BY <1>r DEF Book!Release
  <2> HIDE DEF b3, p, q, s
  <2> QED BY <2>1, <2>2, <2>3 DEF Book!Post
<1>1. \A u \in User : /\ wallet[u].balance \in Int /\ wallet[u].locked \in Nat /\ wallet'[u].balance = b3[u]
                      /\ wallet'[u].locked = wallet[u].locked
  BY <1>0 DEF TypeOK, Row
<1>2. /\ \A u \in User : b1[u] = wallet[u].balance - (IF u = r.user THEN a ELSE 0)
      /\ \A u \in User : b2[u] = b1[u] + (IF u = Admin THEN m ELSE 0)
      /\ \A u \in User : b3[u] = b2[u] + (IF u = r.owner THEN o ELSE 0)
  <2>1. B \in [User -> Int] /\ \A u \in User : B[u] = wallet[u].balance
    BY <1>1
  <2> HIDE DEF B
  <2>2. b1 \in [User -> Int] /\ \A u \in User : b1[u] = B[u] - (IF u = r.user THEN a ELSE 0)
    BY <1>r, <2>1
  <2> HIDE DEF b1
  <2>3. b2 \in [User -> Int] /\ \A u \in User : b2[u] = b1[u] + (IF u = Admin THEN m ELSE 0)
    BY <1>r, <1>m, <2>2
  <2> HIDE DEF b2
  <2>4. \A u \in User : b3[u] = b2[u] + (IF u = r.owner THEN o ELSE 0)
    BY <1>r, <1>m, <2>3
  <2> QED BY <2>1, <2>2, <2>3, <2>4
<1> HIDE DEF B, b1, b2, b3
<1>3. /\ p.key = <<r.key, "plain">> /\ p.user = r.user /\ p.amount = a /\ p.after = b1[r.user]
      /\ q.key = <<r.key, "admin">> /\ q.user = Admin /\ q.amount = m /\ q.after = b2[Admin] /\ q.type = "COMMISSION"
      /\ s.key = <<r.key, "owner">> /\ s.user = r.owner /\ s.amount = o /\ s.after = b3[r.owner] /\ s.type = "OWNER_EARNING"
  BY DEF Book!Entry
<1>4. p \in ledger' /\ q \in ledger' /\ s \in ledger' /\ p \notin ledger /\ q \notin ledger /\ s \notin ledger
      /\ p # q /\ p # s /\ q # s
  BY <1>0, <1>3
<1> HIDE DEF p, q, s
<1>5. CoversLocks
  BY <1>1 DEF CoversLocks
<1>6. Records
  <2>1. ASSUME NEW e \in ledger' \ ledger, \A x \in ledger' \ ledger : x.user = e.user => x = e
        PROVE  e.after = wallet'[e.user].balance /\ wallet'[e.user].balance - wallet[e.user].balance \in {e.amount, -e.amount}
    <3>1. e = p \/ e = q \/ e = s
      BY <1>0, <2>1
    <3>2. CASE e = p
      <4>1. r.user # Admin /\ r.user # r.owner
        BY <1>3, <1>4, <2>1, <3>2
      <4> QED BY <1>r, <1>1, <1>2, <1>3, <3>2, <4>1
    <3>3. CASE e = q
      <4>1. Admin # r.user /\ Admin # r.owner
        BY <1>3, <1>4, <2>1, <3>3
      <4> QED BY <1>r, <1>m, <1>1, <1>2, <1>3, <3>3, <4>1
    <3>4. CASE e = s
      <4>1. r.owner # r.user /\ r.owner # Admin
        BY <1>3, <1>4, <2>1, <3>4
      <4> QED BY <1>r, <1>m, <1>1, <1>2, <1>3, <3>4, <4>1
    <3> QED BY <3>1, <3>2, <3>3, <3>4
  <2> QED BY <2>1 DEF Records
<1>7. StaysPrepaid
  <2>1. ASSUME NEW u \in User \ {Admin}
        PROVE  wallet'[u].balance >= wallet[u].balance \/ wallet'[u].balance >= 0
    <3>1. CASE u = r.user
      BY <1>r, <1>m, <1>0, <1>1, <1>2, <3>1
    <3>2. CASE u # r.user
      BY <1>r, <1>m, <1>1, <1>2, <3>2
    <3> QED BY <3>1, <3>2
  <2> QED BY <2>1 DEF StaysPrepaid
<1>8. Posts
  <2>0. ledger' \subseteq EntryOf(Key, User)
    BY DEF TypeOK
  <2>1. {p, q, s} \in SUBSET EntryOf(Key, User)
    BY <1>4, <2>0
  <2>2. \A n \in {p, q, s} : IsRelease(n) => \A f \in {p, q, s} : PartOf(f, n)
    <3>1. ASSUME NEW n \in {p, q, s}, IsRelease(n) PROVE n = p
      BY <1>3, <3>1 DEF IsRelease
    <3>2. \A f \in {p, q, s} : PartOf(f, p)
      BY <1>3, <1>mp DEF PartOf
    <3> QED BY <3>1, <3>2
  <2>3. PostsUnder(r.key, {p, q, s})
    BY <1>0, <1>3, <2>2 DEF PostsUnder
  <2> QED BY <1>r, <2>1, <2>3 DEF Posts
<1> QED BY <1>5, <1>6, <1>7, <1>8 DEF OneStep

LEMMA BookStep ==
  ASSUME TypeOK, TypeOK', Book!BookNext
  PROVE  OneStep
<1>1. PICK r \in Request : Book!Perform(r)
  BY DEF Book!BookNext
<1> QED BY <1>1, TopUpDoes, DeductDoes, RefundDoes, PayOwnerDoes, ChargeCommissionDoes, ReleaseDoes,
           CompensateDoes, LockDoes, UnlockDoes DEF Book!Perform

\* A step of the handlers changes balances and entries as one operation does,
\* or leaves them alone.
LEMMA StepDoes ==
  ASSUME IInv, IInv', [Next]_vars
  PROVE  \/ OneStep
         \/ /\ ledger' = ledger
            /\ \A u \in User : wallet'[u].balance = wallet[u].balance /\ wallet'[u].locked = wallet[u].locked
<1>1. CASE \E c \in Call : Commit(c)
  BY <1>1, CommitImplements, BookStep DEF IInv
<1>2. CASE \A c \in Call : ~Commit(c)
  <2>1. Book!bookVars' = Book!bookVars
    BY <1>2, OthersStutter
  <2> QED BY <2>1 DEF Book!bookVars
<1> QED BY <1>1, <1>2

\* A lock is granted only on money the wallet holds at that moment.
THEOREM LocksCovered == Spec => LocksAreCovered
<1>1. IInv /\ IInv' /\ [Next]_vars =>
        [\A u \in User : wallet'[u].locked > wallet[u].locked =>
                           wallet'[u].locked <= wallet'[u].balance]_vars
  <2> SUFFICES ASSUME IInv, IInv', [Next]_vars, NEW u \in User, wallet'[u].locked > wallet[u].locked
               PROVE  wallet'[u].locked <= wallet'[u].balance
    OBVIOUS
  <2>1. wallet[u].locked \in Nat /\ wallet'[u].locked \in Nat
    BY DEF IInv, TypeOK, Row
  <2> QED BY <2>1, StepDoes DEF OneStep, CoversLocks
<1> QED BY <1>1, Invariance, PTL DEF Spec, LocksAreCovered

\* An entry that is alone with its user carries the balance it left, and the
\* balance moved by its amount.
THEOREM EntriesAreHistory == Spec => EntriesRecordTheChange
<1>1. IInv /\ IInv' /\ [Next]_vars =>
        [\A e \in ledger' \ ledger :
           (\A o \in ledger' \ ledger : o.user = e.user => o = e) =>
             /\ e.after = wallet'[e.user].balance
             /\ wallet'[e.user].balance - wallet[e.user].balance \in {e.amount, -e.amount}]_vars
  BY StepDoes DEF OneStep, Records
<1> QED BY <1>1, Invariance, PTL DEF Spec, EntriesRecordTheChange

\* Nobody's wallet but the platform's goes below zero, unless charged back.
THEOREM Prepaid == Spec => []PrepaidOnly
<1>1. Init => PrepaidOnly
  BY OpeningAssumption DEF Init, PrepaidOnly
<1>2. IInv /\ IInv' /\ PrepaidOnly /\ [Next]_vars => PrepaidOnly'
  <2> SUFFICES ASSUME IInv, IInv', PrepaidOnly, [Next]_vars, NEW u \in User \ {Admin}, wallet'[u].balance < 0
               PROVE  ChargeBack(u)'
    BY DEF PrepaidOnly, ChargeBack
  <2>1. wallet[u].balance \in Int /\ wallet'[u].balance \in Int
    BY DEF IInv, TypeOK, Row
  <2>2. ledger \subseteq ledger'
    BY StepDoes DEF OneStep, Posts, PostsUnder
  <2>3. CASE wallet'[u].balance >= wallet[u].balance
    <3>1. ChargeBack(u)
      BY <2>1, <2>3 DEF PrepaidOnly, ChargeBack
    <3> QED BY <2>2, <3>1 DEF ChargeBack
  <2>4. CASE ~(wallet'[u].balance >= wallet[u].balance)
    BY <2>1, <2>4, StepDoes DEF OneStep, StaysPrepaid
  <2> QED BY <2>3, <2>4
<1> QED BY <1>1, <1>2, Invariance, PTL DEF Spec

-----------------------------------------------------------------------------
\* The parts of a release

\* Entries that share a key come from one transaction, which posted the plain
\* one; a release posted the parts with it.
Parts ==
  /\ \A e \in ledger : \E p \in ledger : p.key = <<e.key[1], "plain">>
  /\ \A e, f \in ledger : IsRelease(e) => PartOf(f, e)

\* Rounded half up, the parts of an amount make the amount or a cent more.
LEMMA RoundedParts ==
  ASSUME NEW a \in Nat, NEW x \in Nat, NEW y \in Nat, x + y = 10000 * a
  PROVE  RoundHalfUp(x) + RoundHalfUp(y) - a \in {0, 1}
BY DEF RoundHalfUp

LEMMA PartsOffByACent ==
  ASSUME NEW a \in Nat
  PROVE  Commission(a) + OwnerEarning(a) - a \in {0, 1}
<1> DEFINE x == a * CommissionRate
           y == a * (10000 - CommissionRate)
<1>1. CommissionRate \in Nat /\ 10000 - CommissionRate \in Nat
  BY CommissionRateAssumption
<1>2. x \in Nat /\ y \in Nat
  BY <1>1, ProductNat
<1>3. x + y = 10000 * a
  BY <1>1
<1>4. Commission(a) = RoundHalfUp(x) /\ OwnerEarning(a) = RoundHalfUp(y)
  BY DEF Commission, OwnerEarning
<1> HIDE DEF x, y
<1> QED BY <1>2, <1>3, <1>4, RoundedParts

LEMMA PartsKept ==
  ASSUME IInv, IInv', Parts, [Next]_vars
  PROVE  Parts'
<1>1. CASE ledger' = ledger
  BY <1>1 DEF Parts
<1>2. CASE Posts
  <2>1. PICK k \in Key, es \in SUBSET EntryOf(Key, User) : PostsUnder(k, es)
    BY <1>2 DEF Posts
  <2>2. \A e \in ledger : e.key[1] # k \/ es = {}
    BY <2>1 DEF Parts, PostsUnder
  <2>3. ASSUME NEW e \in ledger' PROVE \E p \in ledger' : p.key = <<e.key[1], "plain">>
    BY <2>1 DEF Parts, PostsUnder
  <2>4. ASSUME NEW e \in ledger', NEW f \in ledger', IsRelease(e) PROVE PartOf(f, e)
    <3>1. CASE e \in es /\ f \in es
      BY <2>1, <2>4, <3>1 DEF PostsUnder
    <3>2. CASE e \in ledger /\ f \in ledger
      BY <2>4, <3>2 DEF Parts
    <3>3. CASE (e \in ledger /\ f \in es) \/ (e \in es /\ f \in ledger)
      <4>1. e.key[1] # f.key[1]
        BY <2>1, <2>2, <3>3 DEF PostsUnder
      <4>2. f.key # <<e.key[1], "admin">> /\ f.key # <<e.key[1], "owner">>
        BY <4>1
      <4> QED BY <4>2 DEF PartOf
    <3> QED BY <2>1, <3>1, <3>2, <3>3 DEF PostsUnder
  <2> QED BY <2>3, <2>4 DEF Parts
<1> QED BY <1>1, <1>2, StepDoes DEF OneStep

\* The commission and the earning of a release make its debit, or a cent more.
THEOREM OffByACent == Spec => []ReleaseOffByACent
<1>1. Init => Parts
  BY DEF Init, Parts
<1>2. IInv /\ Parts => ReleaseOffByACent
  <2> SUFFICES ASSUME IInv, Parts, NEW e \in ledger, NEW f \in ledger, NEW g \in ledger,
                      IsRelease(e), f.key = <<e.key[1], "admin">>, g.key = <<e.key[1], "owner">>
               PROVE  f.amount + g.amount - e.amount \in {0, 1}
    BY DEF ReleaseOffByACent, IsRelease
  <2>1. f.amount = Commission(e.amount) /\ g.amount = OwnerEarning(e.amount)
    BY DEF Parts, PartOf
  <2>2. e.amount \in Nat
    BY DEF IInv, TypeOK, EntryOf
  <2> QED BY <2>1, <2>2, PartsOffByACent
<1> QED BY <1>1, <1>2, PartsKept, Invariance, PTL DEF Spec

-----------------------------------------------------------------------------
\* How one call moves

\* A transaction that retries has read a row that exists.
LEMMA RetryReads ==
  ASSUME NEW c \in Call, Read(c), pc'[c] = "write", request[c].op \in Retrying, TypeOK
  PROVE  wallet[request[c].user].exists
<1>1. ASSUME NEW f, ReadTx(c, f), f \in {"none", "failed", "insufficient"} PROVE f = "none"
  <2>1. CASE f # "none"
    <3>1. pc'[c] = f
      BY <1>1, <2>1 DEF ReadTx, End, TypeOK
    <3> QED BY <1>1, <3>1
  <2> QED BY <2>1
<1>2. CASE DeductRead(c)
  BY <1>1, <1>2 DEF DeductRead
<1>3. CASE LockRead(c)
  BY <1>1, <1>3 DEF LockRead
<1>4. CASE UnlockRead(c)
  BY <1>1, <1>4 DEF UnlockRead
<1> QED BY <1>2, <1>3, <1>4
        DEF Read, Retrying, TopUpRead, RefundRead, ReleaseRead, CompensateRead, OwnerEarningRead, CommissionRead

\* What a keyed operation commits is posted under a plain key nobody used.
LEMMA KeyedCommit ==
  ASSUME NEW c \in Call, Commit(c), request[c].op \in Keyed
  PROVE  ~KeyUsed(<<request[c].key, "plain">>) /\ KeyUsed(<<request[c].key, "plain">>)'
<1> DEFINE k == <<request[c].key, "plain">>
<1>0. request' = request
  BY DEF Commit, TopUpCommit, RefundCommit, ReleaseCommit, CompensateCommit, OwnerEarningCommit,
         CommissionCommit, DeductCommit, LockCommit, UnlockCommit, CommitTx
<1> SUFFICES ~KeyUsed(k) /\ \E x \in ledger' : x.key = k
  BY <1>0 DEF KeyUsed
<1>1. ASSUME NEW touched, NEW rows, NEW es, CommitTx(c, touched, rows, es), NEW e \in es, e.key = k
      PROVE  ~KeyUsed(k) /\ \E x \in ledger' : x.key = k
  BY <1>1 DEF CommitTx
<1>2. CASE TopUpCommit(c)
  <2> DEFINE r  == request[c]
             w1 == Credit(snap[c], r.user, r.amount)
             w2 == Credit(w1, Admin, r.amount)
             e  == Entry(k, r.user, "TOP_UP", r.amount, w1[r.user].balance, "PAYMENT")
             es == {e, Entry(<<r.key, "admin">>, Admin, "TOP_UP", r.amount, w2[Admin].balance, "PAYMENT")}
  <2>1. CommitTx(c, {r.user, Admin}, w2, es)
    BY <1>2 DEF TopUpCommit
  <2>2. e \in es /\ e.key = k
    BY DEF Entry
  <2> HIDE DEF e, es, w1, w2, k
  <2> QED BY <1>1, <2>1, <2>2
<1>3. CASE RefundCommit(c)
  <2> DEFINE r  == request[c]
             w1 == Credit(snap[c], r.user, r.amount)
             e  == Entry(k, r.user, "REFUND", r.amount, w1[r.user].balance, "REFUND")
             es == {e}
  <2>1. CommitTx(c, {r.user}, w1, es)
    BY <1>3 DEF RefundCommit
  <2>2. e \in es /\ e.key = k
    BY DEF Entry
  <2> HIDE DEF e, es, w1, k
  <2> QED BY <1>1, <2>1, <2>2
<1>4. CASE ReleaseCommit(c)
  <2> DEFINE r  == request[c]
             a  == r.amount
             w1 == Debit(snap[c], r.user, a)
             w2 == Credit(w1, Admin, Commission(a))
             w3 == Credit(w2, r.owner, OwnerEarning(a))
             e  == Entry(k, r.user, "CHARGE_DEBIT", a, w1[r.user].balance, "CHARGING_SESSION")
             es == {e,
                    Entry(<<r.key, "admin">>, Admin, "COMMISSION", Commission(a), w2[Admin].balance, "CHARGING_SESSION"),
                    Entry(<<r.key, "owner">>, r.owner, "OWNER_EARNING", OwnerEarning(a), w3[r.owner].balance, "CHARGING_SESSION")}
  <2>1. CommitTx(c, {r.user, Admin, r.owner}, w3, es)
    BY <1>4 DEF ReleaseCommit
  <2>2. e \in es /\ e.key = k
    BY DEF Entry
  <2> HIDE DEF e, es, w1, w2, w3, k
  <2> QED BY <1>1, <2>1, <2>2
<1>5. CASE CompensateCommit(c)
  <2>1. PICK o \in ledger :
          LET d  == IF IsDebitType(o.type) THEN o.amount ELSE -o.amount
              w1 == Credit(snap[c], o.user, d)
          IN CommitTx(c, {o.user}, w1,
               {Entry(k, o.user, CompensatingType(o.type), o.amount, w1[o.user].balance, "ADJUSTMENT")})
    BY <1>5 DEF CompensateCommit
  <2> DEFINE d  == IF IsDebitType(o.type) THEN o.amount ELSE -o.amount
             w1 == Credit(snap[c], o.user, d)
             e  == Entry(k, o.user, CompensatingType(o.type), o.amount, w1[o.user].balance, "ADJUSTMENT")
             es == {e}
  <2>2. CommitTx(c, {o.user}, w1, es)
    BY <2>1
  <2>3. e \in es /\ e.key = k
    BY DEF Entry
  <2> HIDE DEF e, es, w1, d, k
  <2> QED BY <1>1, <2>2, <2>3
<1>6. CASE OwnerEarningCommit(c)
  <2> DEFINE r  == request[c]
             w1 == Credit(snap[c], r.owner, r.amount)
             e  == Entry(k, r.owner, "OWNER_EARNING", r.amount, w1[r.owner].balance, "CHARGING_SESSION")
             es == {e}
  <2>1. CommitTx(c, {r.owner}, w1, es)
    BY <1>6 DEF OwnerEarningCommit
  <2>2. e \in es /\ e.key = k
    BY DEF Entry
  <2> HIDE DEF e, es, w1, k
  <2> QED BY <1>1, <2>1, <2>2
<1>7. CASE CommissionCommit(c)
  <2> DEFINE r  == request[c]
             w1 == Debit(snap[c], Admin, r.amount)
             e  == Entry(k, Admin, "COMMISSION", r.amount, w1[Admin].balance, "CHARGING_SESSION")
             es == {e}
  <2>1. CommitTx(c, {Admin}, w1, es)
    BY <1>7 DEF CommissionCommit
  <2>2. e \in es /\ e.key = k
    BY DEF Entry
  <2> HIDE DEF e, es, w1, k
  <2> QED BY <1>1, <2>1, <2>2
<1> QED BY <1>2, <1>3, <1>4, <1>5, <1>6, <1>7 DEF Commit, Keyed, DeductCommit, LockCommit, UnlockCommit

Stays(d) == pc'[d] = pc[d] /\ snap'[d] = snap[d] /\ attempts'[d] = attempts[d]

Begins(d) == pc[d] \in {"idle", "lookup", "balance"} /\ pc'[d] = "read" /\ attempts'[d] = attempts[d]

Reads(d) ==
  /\ pc[d] = "read" /\ pc'[d] = "write"
  /\ snap'[d] = wallet /\ attempts'[d] = attempts[d] + 1
  /\ request[d].op \in Retrying => wallet[request[d].user].exists

Loses(d) ==
  /\ pc[d] = "write" /\ attempts'[d] = attempts[d]
  /\ request[d].op \in Retrying /\ ~Current(d, request[d].user)
  /\ \/ pc'[d] = "read"
     \/ pc'[d] = "concurrentModification" /\ attempts[d] >= MaxRetries

Gives(d) == pc'[d] \in {"idle", "lookup", "balance"} \cup (Ended \ {"ok", "concurrentModification"})

CallMoves(d) == Stays(d) \/ Begins(d) \/ Reads(d) \/ Loses(d) \/ Gives(d) \/ (Commit(d) /\ pc'[d] = "ok")

LEMMA MoveOf ==
  ASSUME IInv, NEW c \in Call, Receive(c) \/ Proceed(c) \/ DatabaseError(c)
  PROVE  /\ OnlyMoves(c) /\ CallMoves(c)
         /\ request' = request /\ WalletGrows /\ ledger \subseteq ledger'
<1>0. TypeOK /\ wallet \in [User -> Row] /\ pc \in [Call -> {"idle"} \cup Running \cup Ended]
      /\ snap \in [Call -> [User -> Row]] /\ attempts \in [Call -> 0..MaxRetries]
  BY DEF IInv, TypeOK
<1>1. CASE Receive(c)
  <2>1. OnlyMoves(c)
    BY <1>0, <1>1 DEF Receive, OnlyMoves
  <2>2. pc[c] = "idle" /\ pc'[c] = FirstStep(request[c]) /\ attempts' = attempts
    BY <1>0, <1>1 DEF Receive
  <2>3. CallMoves(c)
    BY <2>2 DEF CallMoves, Begins, Gives, FirstStep, Ended
  <2>4. request' = request /\ WalletGrows /\ ledger \subseteq ledger'
    BY <1>0, <1>1, SameWalletGrows DEF Receive
  <2> QED BY <2>1, <2>3, <2>4
<1>2. CASE LookUpKey(c)
  <2>1. OnlyMoves(c)
    BY <1>0, <1>2 DEF LookUpKey, OnlyMoves, End
  <2>2. pc[c] = "lookup" /\ attempts' = attempts /\ pc'[c] \in {"duplicate", "balance", "read"}
    BY <1>0, <1>2 DEF LookUpKey, End
  <2>3. CallMoves(c)
    BY <2>2 DEF CallMoves, Begins, Gives, Ended
  <2>4. request' = request /\ ledger \subseteq ledger'
    BY <1>2 DEF LookUpKey
  <2>5. request[c].user \in User
    BY <1>0, RequestType
  <2>6. WalletGrows
    <3>1. wallet' = wallet \/ wallet' = [wallet EXCEPT ![request[c].user] = Ensured(@)]
      BY <1>2 DEF LookUpKey
    <3> QED BY <1>0, <2>5, <3>1, SameWalletGrows, EnsuredGrows
  <2> QED BY <2>1, <2>3, <2>4, <2>6
<1>3. CASE CheckSufficientBalance(c)
  <2>1. OnlyMoves(c)
    BY <1>0, <1>3 DEF CheckSufficientBalance, OnlyMoves, End
  <2>2. pc[c] = "balance" /\ attempts' = attempts /\ pc'[c] \in {"insufficient", "read"}
    BY <1>0, <1>3 DEF CheckSufficientBalance, End
  <2>3. CallMoves(c)
    BY <2>2 DEF CallMoves, Begins, Gives, Ended
  <2>4. request' = request /\ ledger \subseteq ledger'
    BY <1>3 DEF CheckSufficientBalance
  <2>5. request[c].user \in User
    BY <1>0, RequestType
  <2>6. WalletGrows
    BY <1>0, <1>3, <2>5, EnsuredGrows DEF CheckSufficientBalance
  <2> QED BY <2>1, <2>3, <2>4, <2>6
<1>4. CASE Read(c)
  <2>1. PICK f \in {"none", "failed", "insufficient"} : ReadTx(c, f)
    BY <1>0, <1>4, ReadShape
  <2>2. pc[c] = "read" /\ attempts' = [attempts EXCEPT ![c] = @ + 1] /\ wallet' = wallet
        /\ request' = request /\ ledger \subseteq ledger'
    BY <2>1 DEF ReadTx
  <2>3. CASE f = "none"
    <3>1. pc' = [pc EXCEPT ![c] = "write"] /\ snap' = [snap EXCEPT ![c] = wallet]
      BY <2>1, <2>3 DEF ReadTx
    <3>2. OnlyMoves(c)
      BY <1>0, <2>2, <3>1 DEF OnlyMoves
    <3>3. pc'[c] = "write" /\ snap'[c] = wallet /\ attempts'[c] = attempts[c] + 1
      BY <1>0, <2>2, <3>1
    <3>4. Reads(c)
      BY <1>0, <1>4, <2>2, <3>3, RetryReads DEF Reads
    <3> QED BY <1>0, <2>2, <3>2, <3>4, SameWalletGrows DEF CallMoves
  <2>4. CASE f # "none"
    <3>1. End(c, f)
      BY <2>1, <2>4 DEF ReadTx
    <3>2. OnlyMoves(c) /\ pc'[c] = f
      BY <1>0, <2>2, <3>1 DEF OnlyMoves, End
    <3> QED BY <1>0, <2>2, <2>4, <3>2, SameWalletGrows DEF CallMoves, Gives, Ended
  <2> QED BY <2>3, <2>4
<1>5. CASE Commit(c)
  <2>1. PICK touched \in SUBSET User, rows \in [User -> Row], entries \in SUBSET EntryOf(Key, User) :
          CommitTx(c, touched, rows, entries)
    BY <1>0, <1>5, CommitShape DEF CommitsSomething
  <2>2. PICK how \in {"ok", "unknown"} : End(c, how)
    BY <2>1 DEF CommitTx
  <2>3. request' = request /\ attempts' = attempts /\ ledger \subseteq ledger'
    BY <2>1 DEF CommitTx
  <2>4. OnlyMoves(c) /\ pc'[c] = how
    BY <1>0, <2>2, <2>3, EndMoves
  <2> QED BY <1>0, <1>5, <2>3, <2>4, CommitGrows DEF CallMoves, Gives, Ended
<1>6. CASE VersionConflict(c)
  <2> DEFINE p == IF request[c].op \notin Retrying THEN "failed"
                  ELSE IF attempts[c] >= MaxRetries THEN "concurrentModification"
                  ELSE "read"
  <2>1. End(c, p) /\ request' = request /\ attempts' = attempts /\ ledger \subseteq ledger' /\ wallet' = wallet
        /\ pc[c] = "write" /\ \E u \in Touched(c) : ~Current(c, u)
    BY <1>6 DEF VersionConflict
  <2>2. OnlyMoves(c) /\ pc'[c] = p
    <3> HIDE DEF p
    <3> QED BY <1>0, <2>1 DEF OnlyMoves, End
  <2>3. CallMoves(c)
    <3>1. CASE request[c].op \notin Retrying
      BY <2>2, <3>1 DEF CallMoves, Gives, Ended
    <3>2. CASE request[c].op \in Retrying
      <4>1. Touched(c) = {request[c].user}
        BY <3>2 DEF Touched, Retrying
      <4>2. ~Current(c, request[c].user) /\ attempts'[c] = attempts[c]
        BY <2>1, <4>1
      <4>3. pc'[c] = "read" \/ (pc'[c] = "concurrentModification" /\ attempts[c] >= MaxRetries)
        BY <2>2, <3>2
      <4> QED BY <2>1, <3>2, <4>2, <4>3 DEF CallMoves, Loses
    <3> QED BY <3>1, <3>2
  <2> QED BY <1>0, <2>1, <2>2, <2>3, SameWalletGrows
<1>7. CASE DuplicateKey(c) \/ DatabaseError(c)
  <2>1. End(c, "failed") /\ request' = request /\ attempts' = attempts /\ ledger \subseteq ledger' /\ wallet' = wallet
    BY <1>7 DEF DuplicateKey, DatabaseError
  <2>2. OnlyMoves(c) /\ pc'[c] = "failed"
    BY <1>0, <2>1 DEF OnlyMoves, End
  <2> QED BY <1>0, <2>1, <2>2, SameWalletGrows DEF CallMoves, Gives, Ended
<1> QED BY <1>1, <1>2, <1>3, <1>4, <1>5, <1>6, <1>7 DEF Proceed

-----------------------------------------------------------------------------
\* Delivered twice, applied once

\* Who was told that a keyed request moved money finds its key in the ledger.
Told ==
  \A c \in Call : pc[c] = "ok" /\ request[c].op \in Keyed => KeyUsed(<<request[c].key, "plain">>)

LEMMA ToldKept ==
  ASSUME IInv, [Next]_vars, Told, AppliedOnce
  PROVE  Told' /\ AppliedOnce'
<1>1. CASE UNCHANGED vars
  BY <1>1 DEF vars, Told, AppliedOnce, KeyUsed
<1>2. ASSUME NEW c \in Call, Receive(c) \/ Proceed(c) \/ DatabaseError(c)
      PROVE  Told' /\ AppliedOnce'
  <2>1. OnlyMoves(c) /\ CallMoves(c) /\ request' = request /\ ledger \subseteq ledger'
    BY <1>2, MoveOf
  <2>2. \A k : KeyUsed(k) => \E e \in ledger' : e.key = k
    BY <2>1 DEF KeyUsed
  <2>3. pc'[c] = "ok" => pc[c] = "ok" \/ Commit(c)
    BY <2>1 DEF CallMoves, Stays, Begins, Reads, Loses, Gives, Ended
  <2>4. Commit(c) => pc[c] # "ok"
    <3>1. Commit(c) => pc[c] = "write"
      BY CommitShape DEF CommitsSomething, CommitTx, IInv
    <3> QED BY <3>1
  <2>5. ASSUME NEW d \in Call, pc'[d] = "ok", request[d].op \in Keyed
        PROVE  /\ pc[d] = "ok" \/ (d = c /\ Commit(c))
               /\ \E e \in ledger' : e.key = <<request[d].key, "plain">>
    <3>1. pc[d] = "ok" \/ (d = c /\ Commit(c))
      BY <2>1, <2>3, <2>5 DEF OnlyMoves
    <3>2. CASE pc[d] = "ok"
      BY <2>2, <2>5, <3>2 DEF Told
    <3>3. CASE d = c /\ Commit(c)
      BY <2>1, <2>5, <3>3, KeyedCommit DEF KeyUsed
    <3> QED BY <3>1, <3>2, <3>3
  <2>6. Told'
    BY <2>1, <2>5 DEF Told, KeyUsed
  <2>7. AppliedOnce'
    <3> SUFFICES ASSUME NEW d \in Call, NEW e \in Call, pc'[d] = "ok", pc'[e] = "ok",
                        request[d].op \in Keyed, request[e].op \in Keyed, request[d].key = request[e].key
                 PROVE  d = e
      BY <2>1 DEF AppliedOnce
    <3>1. CASE pc[d] = "ok" /\ pc[e] = "ok"
      BY <3>1 DEF AppliedOnce
    <3>2. CASE pc[d] = "ok" /\ e = c /\ Commit(c)
      BY <3>2, KeyedCommit DEF Told
    <3>3. CASE pc[e] = "ok" /\ d = c /\ Commit(c)
      BY <3>3, KeyedCommit DEF Told
    <3> QED BY <2>5, <3>1, <3>2, <3>3
  <2> QED BY <2>6, <2>7
<1> QED BY <1>1, <1>2 DEF Next

\* Of the deliveries of one keyed request at most one is told that it moved money.
THEOREM OnceApplied == Spec => []AppliedOnce
<1>1. Init => Told /\ AppliedOnce
  BY DEF Init, Told, AppliedOnce
<1> QED BY <1>1, ToldKept, Invariance, PTL DEF Spec

-----------------------------------------------------------------------------
\* Retries are paid for by commits

\* Every transaction that c lost is a version of the row it wants to write.
Defeated(c) ==
  LET u == request[c].user
  IN /\ pc[c] \in {"read", "concurrentModification"} => attempts[c] <= wallet[u].version
     /\ pc[c] = "write" => snap[c][u].exists /\ attempts[c] - 1 <= snap[c][u].version

Versioned ==
  \A c \in Call :
    /\ request[c].op \in Retrying => Defeated(c)
    /\ pc[c] = "concurrentModification" => attempts[c] = MaxRetries

LEMMA VersionedKept ==
  ASSUME IInv, IInv', [Next]_vars, Versioned
  PROVE  Versioned'
<1>1. CASE UNCHANGED vars
  BY <1>1 DEF vars, Versioned, Defeated
<1>2. ASSUME NEW c \in Call, Receive(c) \/ Proceed(c) \/ DatabaseError(c)
      PROVE  Versioned'
  <2>1. OnlyMoves(c) /\ CallMoves(c) /\ request' = request /\ WalletGrows
    BY <1>2, MoveOf
  <2>2. ASSUME NEW d \in Call
        PROVE  /\ request[d].op \in Retrying => Defeated(d)'
               /\ pc'[d] = "concurrentModification" => attempts'[d] = MaxRetries
    <3> DEFINE u == request[d].user
    <3>0. /\ u \in User /\ MaxRetries \in Nat
          /\ attempts[d] \in 0..MaxRetries
      BY RequestType, RetriesAssumption DEF IInv, TypeOK
    <3>1. /\ wallet[u].version \in Nat /\ wallet'[u].version \in Nat /\ snap[d][u].version \in Nat
          /\ wallet'[u].version >= wallet[u].version
      <4>1. /\ wallet \in [User -> Row] /\ wallet' \in [User -> Row] /\ snap[d] \in [User -> Row]
        BY DEF IInv, TypeOK
      <4> QED BY <2>1, <3>0, <4>1 DEF Row, WalletGrows
    <3>2. /\ request[d].op \in Retrying /\ pc[d] \in {"read", "concurrentModification"} => attempts[d] <= wallet[u].version
          /\ request[d].op \in Retrying /\ pc[d] = "write" => snap[d][u].exists /\ attempts[d] - 1 <= snap[d][u].version
          /\ pc[d] = "concurrentModification" => attempts[d] = MaxRetries
      BY DEF Versioned, Defeated
    <3>3. CASE Stays(d)
      BY <2>1, <3>0, <3>1, <3>2, <3>3 DEF Stays, Defeated
    <3>4. CASE Begins(d)
      <4>1. attempts[d] = 0
        BY <3>4 DEF Begins, IInv, AttemptsLeft
      <4> QED BY <2>1, <3>0, <3>1, <3>4, <4>1 DEF Begins, Defeated
    <3>5. CASE Reads(d)
      BY <2>1, <3>0, <3>1, <3>2, <3>5 DEF Reads, Defeated
    <3>6. CASE Loses(d)
      <4>1. wallet[u].version > snap[d][u].version
        <5>1. snap[d][u].version <= wallet[u].version /\ (snap[d][u].exists => wallet[u].exists)
          BY <3>0, <3>6 DEF Loses, IInv, SnapOfWallet
        <5>2. snap[d][u].exists \in BOOLEAN /\ wallet[u].exists \in BOOLEAN
          BY <3>0 DEF IInv, TypeOK, Row
        <5>3. snap[d][u].exists
          BY <3>2, <3>6 DEF Loses
        <5>4. ~(snap[d][u].exists = wallet[u].exists /\ snap[d][u].version = wallet[u].version)
          BY <3>6 DEF Loses, Current
        <5>5. snap[d][u].version # wallet[u].version
          BY <5>1, <5>2, <5>3, <5>4
        <5> QED BY <3>1, <5>1, <5>5
      <4>2. attempts[d] <= wallet[u].version
        BY <3>0, <3>1, <3>2, <3>6, <4>1 DEF Loses
      <4> QED BY <2>1, <3>0, <3>1, <3>6, <4>2 DEF Loses, Defeated
    <3>7. CASE pc'[d] = "ok" \/ Gives(d)
      BY <2>1, <3>7 DEF Gives, Ended, Defeated
    <3> QED BY <2>1, <3>3, <3>4, <3>5, <3>6, <3>7 DEF OnlyMoves, Stays, CallMoves
  <2> QED BY <2>1, <2>2 DEF Versioned
<1> QED BY <1>1, <1>2 DEF Next

\* An operation waits only for writers that got through, and gives up only
\* after MAX_RETRIES of them.
THEOREM RetriesAreDefeats == Spec => []DefeatedByCommits
<1>1. Init => Versioned
  BY DEF Init, Versioned, Defeated
<1>2. IInv /\ Versioned => DefeatedByCommits
  <2> SUFFICES ASSUME IInv, Versioned, NEW c \in Call, request[c].op \in Retrying
               PROVE  Defeats(c) <= wallet[request[c].user].version
    BY DEF DefeatedByCommits, Versioned
  <2> DEFINE u == request[c].user
  <2>1. u \in User /\ attempts[c] \in Nat
    BY RequestType, RetriesAssumption DEF IInv, TypeOK
  <2>2. /\ wallet[u].version \in Nat /\ snap[c][u].version \in Nat
        /\ pc[c] = "write" => snap[c][u].version <= wallet[u].version
    BY <2>1 DEF IInv, TypeOK, Row, SnapOfWallet
  <2>3. /\ pc[c] \in {"read", "concurrentModification"} => attempts[c] <= wallet[u].version
        /\ pc[c] = "write" => attempts[c] - 1 <= snap[c][u].version
    BY DEF Versioned, Defeated
  <2> QED BY <2>1, <2>2, <2>3 DEF Defeats
<1> QED BY <1>1, <1>2, VersionedKept, Invariance, PTL DEF Spec
=============================================================================
