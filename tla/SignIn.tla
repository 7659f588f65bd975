-------------------------------- MODULE SignIn --------------------------------
(***************************************************************************)
(* verifyToken, before every request of the app: the row of the user is    *)
(* found by the uid of the token, or by the email and linked to the uid,   *)
(* or made, and a wallet is made if there is none; calls of the database   *)
(* that those of another first request come between.  One person; the row  *)
(* may have been there before, made for another uid.                       *)
(***************************************************************************)

CONSTANT Request     \* requests of the person at once

VARIABLES
  user,              \* the row: there is none, it has another uid, or that of the token
  wallet,            \* whether there is a row of the wallet
  request            \* request[q]: the next call of a request

account == <<user, wallet, request>>

SignInTypeOK ==
  /\ user \in {"none", "other", "linked"}
  /\ wallet \in BOOLEAN
  /\ request \in [Request -> {"idle", "user", "email", "link", "create", "wallet", "open", "served"}]

\* A row made by the seed or by an admin, which may have failed before the wallet.
SignInInit ==
  /\ user \in {"none", "other"}
  /\ wallet \in (IF user = "none" THEN {FALSE} ELSE BOOLEAN)
  /\ request = [q \in Request |-> "idle"]

Proceed(q, from, to) ==
  /\ request[q] = from
  /\ request' = [request EXCEPT ![q] = to]

VerifyToken(q) == Proceed(q, "idle", "user") /\ UNCHANGED <<user, wallet>>

\* Mutant: only the row of a new user is followed by a wallet.
FindUserTrusting(q) ==
  /\ Proceed(q, "user", IF user = "linked" THEN "served" ELSE "email")
  /\ UNCHANGED <<user, wallet>>

\* A known user is asked for the wallet too, "just in case".
FindUser(q) ==
  /\ Proceed(q, "user", IF user = "linked" THEN "wallet" ELSE "email")
  /\ UNCHANGED <<user, wallet>>

FindByEmail(q) ==
  /\ Proceed(q, "email", IF user = "none" THEN "create" ELSE "link")
  /\ UNCHANGED <<user, wallet>>

LinkUser(q) ==
  /\ Proceed(q, "link", "wallet")
  /\ user' = "linked"
  /\ UNCHANGED wallet

\* The email and the uid are unique: the second throws, and 401 is answered.
CreateUser(q) ==
  /\ \/ user = "none" /\ Proceed(q, "create", "wallet") /\ user' = "linked"
     \/ user # "none" /\ Proceed(q, "create", "idle") /\ UNCHANGED user
  /\ UNCHANGED wallet

FindWallet(q) ==
  /\ Proceed(q, "wallet", IF wallet THEN "served" ELSE "open")
  /\ UNCHANGED <<user, wallet>>

\* One wallet for a user: the second throws.
CreateWallet(q) ==
  /\ Proceed(q, "open", IF wallet THEN "idle" ELSE "served")
  /\ wallet' = TRUE
  /\ UNCHANGED user

\* An exception: 401.
SignInFails(q) ==
  /\ request[q] # "idle"
  /\ request' = [request EXCEPT ![q] = "idle"]
  /\ UNCHANGED <<user, wallet>>

SignInStep(q) ==
  \/ FindUser(q) \/ FindByEmail(q) \/ LinkUser(q) \/ CreateUser(q)
  \/ FindWallet(q) \/ CreateWallet(q)

SignInCrash ==
  /\ request' = [q \in Request |-> "idle"]
  /\ UNCHANGED <<user, wallet>>
=============================================================================
