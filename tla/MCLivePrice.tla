----------------------------- MODULE MCLivePrice -----------------------------
(***************************************************************************)
(* Values of the constants of LivePrice for TLC: three bookings of up to   *)
(* three seats, and costs that the seats divide and do not divide.         *)
(***************************************************************************)
EXTENDS LivePrice, TLC

CONSTANTS b1, b2, b3

MCBookings == {b1, b2, b3}
MCCapacities == 1..6
MCCosts == {1, 7, 12, 100}

Symmetry == Permutations(MCBookings)
=============================================================================
