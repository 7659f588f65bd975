------------------------------- MODULE Money -------------------------------
(***************************************************************************)
(* Amounts and ledger vocabulary shared by the wallet, ledger and billing  *)
(* modules.  Money is a whole number of cents, the unit of the DECIMAL     *)
(* (12,2) columns; rates are basis points (2% is 200).  Decimal.js is      *)
(* configured with ROUND_HALF_UP and every stored amount goes through      *)
(* toFixed(2), so a fraction of a cent is rounded where it is stored.      *)
(***************************************************************************)
EXTENDS Integers

CONSTANT CommissionRate   \* basis points taken by the platform

ASSUME CommissionRateAssumption == CommissionRate \in 0..10000

\* x.toFixed(2) of an amount given in 1/10000 of a cent, for x >= 0.
RoundHalfUp(x) == (x + 5000) \div 10000

\* Mutant: the fraction of a cent is cut off.
CommissionCut(total) == (total * CommissionRate) \div 10000

\* total.times(rate) as it is stored.
Commission(total) == RoundHalfUp(total * CommissionRate)

\* total.minus(commission) as it is stored: the unrounded commission is
\* subtracted, so the two parts are rounded independently of one another.
OwnerEarning(total) == RoundHalfUp(total * (10000 - CommissionRate))

LedgerType == {"TOP_UP", "CHARGE_DEBIT", "REFUND", "OWNER_EARNING",
               "COMMISSION", "SETTLEMENT_PAYOUT"}

IsDebitType(type) == type \in {"CHARGE_DEBIT", "COMMISSION", "SETTLEMENT_PAYOUT"}

CompensatingType(type) == IF IsDebitType(type) THEN "REFUND" ELSE "CHARGE_DEBIT"

\* One row of the ledger table.  Its key is unique in the table: the
\* idempotency key K of a request gives the rows <<K, "plain">>, <<K, "admin">>
\* and <<K, "owner">>.
Entry(key, user, type, amount, after, ref) ==
  [key |-> key, user |-> user, type |-> type,
   amount |-> amount, after |-> after, ref |-> ref]

KeySuffix == {"plain", "admin", "owner"}

EntryOf(Key, User) ==
  [key : Key \X KeySuffix, user : User, type : LedgerType,
   amount : Nat, after : Int,
   ref : {"PAYMENT", "CHARGING_SESSION", "REFUND", "ADJUSTMENT"}]
=============================================================================
