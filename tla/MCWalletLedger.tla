--------------------------- MODULE MCWalletLedger ---------------------------
(***************************************************************************)
(* Instances of WalletLedger: a driver, a station owner and the platform;  *)
(* the requests are chosen so that any two of them can meet on a wallet or *)
(* on a key.                                                               *)
(***************************************************************************)
EXTENDS WalletLedger, TLC

CONSTANTS c1, c2, c3, driver, host, platform, k1, k2, k3

MCCall3 == {c1, c2, c3}
MCUser  == {driver, host, platform}
MCKey   == {k1, k2, k3}

AskFor(op, user, amount, key, of) ==
  [op |-> op, user |-> user, owner |-> host, amount |-> amount,
   key |-> key, of |-> <<of, "plain">>]

\* Everything that can meet on the driver's wallet.
MixedRequest ==
  {AskFor("topUp", driver, 300, k1, k1),
   AskFor("deductForCharging", driver, 200, k1, k1),
   AskFor("processRefund", driver, 100, k2, k1),
   AskFor("releaseChargingAmount", driver, 30, k2, k1),
   AskFor("releaseChargingAmount", driver, 25, k2, k1),
   AskFor("lockFunds", driver, 200, k1, k1),
   AskFor("unlockFunds", driver, 100, k1, k1),
   AskFor("createCompensatingEntry", driver, 0, k3, k1),
   AskFor("recordOwnerEarning", host, 100, k1, k1),
   AskFor("recordCommission", driver, 100, k3, k1),
   AskFor("topUp", driver, 0, k2, k1),
   AskFor("unlockFunds", driver, 0, k2, k1)}

\* The retrying operations, all on one wallet.
ContendedRequest ==
  {AskFor("deductForCharging", driver, 100, k1, k1),
   AskFor("lockFunds", driver, 200, k1, k1),
   AskFor("unlockFunds", driver, 200, k1, k1),
   AskFor("processRefund", driver, 100, k1, k1)}

MCOpened  == {driver, platform}
MCOpening == (driver :> 200) @@ (host :> 0) @@ (platform :> 500)

Symmetry3 == Permutations(MCCall3)
=============================================================================
