-------------------------- MODULE MCSessionBilling --------------------------
(***************************************************************************)
(* Instances of SessionBilling.                                            *)
(***************************************************************************)
EXTENDS SessionBilling, TLC

CONSTANTS c1, c2

OneCall  == {c1}
TwoCalls == {c1, c2}

NoStatus   == {}
Faulted    == {"FAULTED"}

Driver     == {TRUE}
AnyUser    == {TRUE, FALSE}
NoPreset   == {0}
WithPreset == {0, 2}

TwoCallSymmetry == Permutations(TwoCalls)
=============================================================================
