--------------------------- MODULE ConnectorSlots ---------------------------
(***************************************************************************)
(* The keys the system keeps in Redis for the bookings of one connector,   *)
(* one per hour that is taken, each with a time to live.  A command of     *)
(* Redis is one step: reserving is one MULTI of SET NX, releasing a GET    *)
(* followed by a DEL.                                                      *)
(***************************************************************************)
EXTENDS Integers

CONSTANTS
  Booking, User, Nobody,
  Hour,      \* units of time in an hour
  Slot       \* the hours that are modelled, numbered from 0

ASSUME SlotAssumption ==
  /\ Hour \in Nat \ {0}
  /\ Slot \subseteq Nat
  /\ Nobody \notin Booking \cup User

VARIABLE slot      \* slot[h]: the booking whose key exists, or Nobody

\* getTimeSlots: the hours the interval touches, the first one rounded down.
SlotsOf(start, duration) ==
  {h \in Slot : h >= start \div Hour /\ h * Hour < start + duration}

FreeSlots(hours) == {h \in hours : slot[h] = Nobody}

\* checkAvailability; a session on the connector makes it say no as well, after
\* which nothing happens.
IsAvailable(hours) == FreeSlots(hours) = hours

\* The MULTI of SET NX: it takes what is free, also when some are not.
TakeFree(b, hours) ==
  slot' = [h \in Slot |-> IF h \in FreeSlots(hours) THEN b ELSE slot[h]]

Delete(h) == slot' = [slot EXCEPT ![h] = Nobody]

\* The keys whose time to live has ended.
Expire(ended) ==
  slot' = [h \in Slot |-> IF slot[h] \in ended THEN Nobody ELSE slot[h]]
=============================================================================
