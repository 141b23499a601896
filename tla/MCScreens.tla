------------------------------ MODULE MCScreens ------------------------------
(***************************************************************************)
(* Values of the constants of Screens for TLC.                             *)
(***************************************************************************)
EXTENDS Screens, TLC

CONSTANTS v1, v2, car1, car2, gig1, gig2, o1, i1, i2, driven, other,
          lift1, lift2, lift3, anna, ben, car, van

\* Two bodies for the same vehicle, with more and with fewer stops, and one
\* for another vehicle.
MCBodies == {[vehicle |-> v1, seats |-> 1, stops |-> 2],
             [vehicle |-> v1, seats |-> 2, stops |-> 1],
             [vehicle |-> v2, seats |-> 1, stops |-> 1]}

\* A small and a larger vehicle, a concert that is too soon and one that is not.
MCCarSeats == (car1 :> 1) @@ (car2 :> 2)
MCGigStart == (gig1 :> 1) @@ (gig2 :> 3)
MCOldTrips == {[car |-> car2, gig |-> gig2, min |-> 1, max |-> 2,
                deadline |-> 1, departure |-> 3, stops |-> <<1, 2>>]}

MCTripOf == (o1 :> other) @@ (i1 :> driven) @@ (i2 :> driven)

\* Three lifts: the first is the cheapest to ask for and has one seat; the price
\* of the others falls as seats are taken. A page holds two of them.
MCLiftInfo ==
  (lift1 :> [kind |-> car, from |-> "c", driver |-> anna, seats |-> 1, departure |-> 1]) @@
  (lift2 :> [kind |-> van, from |-> "d", driver |-> ben, seats |-> 2, departure |-> 2]) @@
  (lift3 :> [kind |-> car, from |-> "c", driver |-> ben, seats |-> 2, departure |-> 3])
MCFareAt == [t \in Lifts |-> [n \in 0..2 |-> IF t = lift1 THEN 2 ELSE 3 - n]]

\* Each filter is used once.
MCWishes ==
  {[kind |-> car, from |-> NoFilter, maxPrice |-> NoFilter, seatsMin |-> 1,
    minRating |-> NoFilter, sort |-> "likely"],
   [kind |-> NoFilter, from |-> "c", maxPrice |-> 2, seatsMin |-> NoFilter,
    minRating |-> 4, sort |-> "cheapest"]}

=============================================================================
