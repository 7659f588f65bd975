------------------------------- MODULE Tariff -------------------------------
(***************************************************************************)
(* What billing promises: the meter register is billed from the reading at *)
(* which the session began, without a gap and without an overlap, and each *)
(* interval costs its price.                                               *)
(***************************************************************************)
EXTENDS Integers

CONSTANTS MeterStart, EnergyCost(_)

VARIABLES
  billed,   \* the register is billed up to this reading
  taken     \* cents taken for it

Init == billed = MeterStart /\ taken = 0

Bill ==
  /\ billed' > billed
  /\ taken' = taken + EnergyCost(billed' - billed)

Next == Bill

Spec == Init /\ [][Next]_<<billed, taken>>
=============================================================================
