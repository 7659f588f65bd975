---------------------------- MODULE MCChargingStart ----------------------------
(* A charger with two connectors: the app is used at the first, cards, one of  *)
(* them with the id of a user, at the second.                                  *)
EXTENDS ChargingStart

CONSTANT ann

MCUser == {ann}
MCWriter == Handler \cup Late
MCComes == [c \in Connector |-> IF c = 1 THEN {"app"} ELSE {"card", ann}]
=============================================================================
