---------------------------- MODULE ChargerState ----------------------------
(***************************************************************************)
(* What the central system knows of one charger: a row of the table        *)
(* ChargerRuntimeState and, in the memory of the process, a copy that is   *)
(* preferred to it.  An update writes the row and, when the database has   *)
(* answered, copies the row it was answered over the one in memory; in     *)
(* between other updates do the same.  Some callers wait for that, others  *)
(* do not.  Of the fields, those that decide something are modelled.       *)
(***************************************************************************)
EXTENDS Naturals

CONSTANTS
  User, Nobody,
  Connector,        \* the connectors, numbered from 1
  Writer            \* who may have an update under way

ASSUME ChargerAssumption ==
  /\ Connector \subseteq Nat \ {0} /\ 1 \in Connector
  /\ Nobody \notin User

VARIABLES
  row,              \* the row of the charger
  cache,            \* chargersStore.get(chargerId)
  write             \* write[w]: the update of w

Null == 0

Field == {"connector", "transactionId", "ocppTransactionId"}
Update == UNION {[F -> Nat] : F \in SUBSET Field}

NoWrite == [phase |-> "none", fields |-> <<>>]
Blank   == [connector |-> Null, transactionId |-> Null, ocppTransactionId |-> Null,
            pendingUserId |-> Nobody, known |-> FALSE]

ChargerStateTypeOK ==
  /\ row \in [Field -> Nat]
  /\ cache \in [connector : Nat, transactionId : Nat, ocppTransactionId : Nat,
                pendingUserId : User \cup {Nobody}, known : BOOLEAN]
  /\ \A w \in Writer : write[w].phase \in {"none", "db", "merge"}

ChargerStateInit ==
  /\ row = [connector |-> 1, transactionId |-> Null, ocppTransactionId |-> Null]
  /\ cache = Blank
  /\ write = [w \in Writer |-> NoWrite]

Idle(w) == write[w].phase = "none"

\* { ...state, ...fields }
Overlay(state, fields) ==
  [f \in DOMAIN state |-> IF f \in DOMAIN fields THEN fields[f] ELSE state[f]]

\* The keys RUNTIME_ALLOWED lets through; connectorId is 1 when it is not given.
Allowed(update) ==
  [f \in (DOMAIN update \cap Field) \cup {"connector"} |->
     IF f \in DOMAIN update THEN update[f] ELSE 1]

\* updateChargerState is called.
Issue(w, update) ==
  write' = [write EXCEPT ![w] = [phase |-> "db", fields |-> Allowed(update)]]

\* The upsert; it is answered with the whole row.
Upsert(w) ==
  /\ write[w].phase = "db"
  /\ row' = Overlay(row, write[w].fields)
  /\ write' = [write EXCEPT ![w] = [phase |-> "merge", fields |-> row']]
  /\ UNCHANGED cache

\* Mutant: the copy in memory wins over the answer.
MergeExisting(w) ==
  /\ write[w].phase = "merge"
  /\ cache' = IF cache.known THEN cache ELSE [Overlay(cache, write[w].fields) EXCEPT !.known = TRUE]
  /\ write' = [write EXCEPT ![w] = NoWrite]
  /\ UNCHANGED row

Merge(w) ==
  /\ write[w].phase = "merge"
  /\ cache' = [Overlay(cache, write[w].fields) EXCEPT !.known = TRUE]
  /\ write' = [write EXCEPT ![w] = NoWrite]
  /\ UNCHANGED row

\* getChargerState: the copy in memory, or the row, which is then copied.
Loaded == IF cache.known THEN cache ELSE [Overlay(cache, row) EXCEPT !.known = TRUE]

\* startChargingForUser writes into the copy alone, and makes one if there is none.
SetPending(user) == cache' = [cache EXCEPT !.pendingUserId = user, !.known = TRUE]
=============================================================================
