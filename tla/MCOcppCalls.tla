----------------------------- MODULE MCOcppCalls -----------------------------
(* One charger connects twice and sends a request; the call for it asks the  *)
(* database first.  Another stays connected, and its call goes unanswered.    *)
EXTENDS OcppCalls

CONSTANTS c1, c2, stop, other

MCCharger == {c1, c2}
MCOf == [w \in Socket |-> IF w = 3 THEN c2 ELSE c1]
MCCall == {stop, other}
MCTarget == [k \in MCCall |-> IF k = other THEN c2 ELSE c1]
MCSlow == {stop}
=============================================================================
