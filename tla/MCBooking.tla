----------------------------- MODULE MCBooking ------------------------------
(***************************************************************************)
(* Two bookings of one connector: the first is longer than an hour, the    *)
(* second wants the hour the first reaches into.                           *)
(***************************************************************************)
EXTENDS Booking, TLC

CONSTANTS ann, bob, b1, b2

Ask(user, at, length) == [user |-> user, start |-> at, duration |-> length]

MCRequest == (b1 :> {Ask(ann, 1, 2)}) @@ (b2 :> {Ask(bob, 2, 1)})
MCOpening == (ann :> 3) @@ (bob :> 1)
=============================================================================
