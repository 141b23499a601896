------------------------------ MODULE MCGigDrive ------------------------------
(***************************************************************************)
(* Values of the constants of GigDrive for TLC.                            *)
(***************************************************************************)
EXTENDS GigDrive, TLC

CONSTANTS d, p1, p2, b1, b2, b3, r1, r2

MCUsers == {d, p1, p2}

Trip(min, max) == [status |-> "OPEN", min |-> min, max |-> max,
                   deadline |-> 1, departure |-> 2]

MCTrips == {Trip(1, 1), Trip(1, 2), Trip(2, 2)}
MCTwoSeats == {Trip(1, 2)}
MCThreeSeats == {Trip(1, 3)}
MCOneOrTwo == {Trip(1, 1), Trip(1, 2)}

\* PATCH bodies: the minimum, the capacity, the deadline, one or two at once;
\* some are refused by the validation.
MCPatches == {[min |-> 1], [min |-> 2], [max |-> 1], [max |-> 2],
              [min |-> 2, max |-> 2], [deadline |-> 0], [deadline |-> 2]}
MCNoPatches == {}

MCSeatOps == {"request", "accept", "reject", "cancelBooking", "confirm",
              "cancelTrip", "sweep"}
MCNoEdit == AllOps \ {"update"}

Symmetry == Permutations({p1, p2}) \cup Permutations({b1, b2, b3})
              \cup Permutations({r1, r2})
=============================================================================
