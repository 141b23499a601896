------------------------------ MODULE LivePrice ------------------------------
(***************************************************************************)
(* The price of a seat while the seats of a trip are taken and released:   *)
(* PricingService.calculate (pricing.service.ts) over the seat ledger, and *)
(* the driver's earnings the dashboard derives from it (earnings.ts).      *)
(* Amounts are whole minor units of the currency.                          *)
(***************************************************************************)
EXTENDS SeatLedger

CONSTANT Costs  \* amounts a driver may publish

VARIABLES
  mode,  \* PricingMode
  cost,  \* the cost of the trip, or the price of a seat
  min    \* minPassengers

terms == <<mode, cost, min>>

PricingMode == {"SHARED_TOTAL", "FIXED_PER_SEAT"}

\* CreateTripDto: cost, minimum and capacity are whole and at least 1.
ASSUME PriceAssumption ==
  /\ IsFiniteSet(Bookings)
  /\ MaxSeats \in Nat
  /\ Capacities \subseteq Nat \ {0}
  /\ Costs \subseteq Nat \ {0}

-----------------------------------------------------------------------------

\* Faulty variant: Math.floor.
FloorDiv(amount, n) == amount \div n

\* Math.ceil(amount / n)
CeilDiv(amount, n) == (amount + n - 1) \div n

Larger(m, n) == IF m >= n THEN m ELSE n

\* Faulty variant: below the minimum only the confirmed seats share the cost.
SharersConfirmed(seats) == Larger(seats, 1)

\* Faulty variant: the seats still free share the cost.
SharersFree(seats) == Larger(min, capacity - seats)

\* The seats that share the cost: never fewer than the minimum.
Sharers(seats) == Larger(Larger(min, seats), 1)

PerPerson(seats) ==
  IF mode = "FIXED_PER_SEAT" THEN cost ELSE CeilDiv(cost, Sharers(seats))

\* The expensive end of the band, and the cheap one.  calculateLivePrice of the
\* trip form's preview is the same function.
LowerBound == IF mode = "FIXED_PER_SEAT" THEN cost ELSE CeilDiv(cost, min)
UpperBound == IF mode = "FIXED_PER_SEAT" THEN cost ELSE CeilDiv(cost, capacity)

\* aggregateEarnings: confirmed seats times the live price.
Earnings == Taken * PerPerson(Taken)

-----------------------------------------------------------------------------

\* A trip is published with min <= max.  Only its seats change here: the driver
\* may edit the rest while the trip is OPEN, and it is another trip then.
Publish ==
  /\ Open
  /\ mode \in PricingMode
  /\ cost \in Costs
  /\ min \in 1..capacity

PriceStep == Ledger /\ UNCHANGED terms

PriceSpec == Publish /\ [][PriceStep]_<<ledger, terms>>

-----------------------------------------------------------------------------

\* The ledger holds what it may hold, and the terms are those of a valid trip.
TermsOK ==
  /\ taken \in [Bookings -> 0..MaxSeats]
  /\ capacity \in Nat \ {0}
  /\ Taken <= capacity
  /\ mode \in PricingMode
  /\ cost \in Nat \ {0}
  /\ min \in 1..capacity

\* Whatever has been booked and cancelled, the live price lies in the band
\* shown to passengers (pricing.service.ts:21-26).
PriceInBand == UpperBound <= PerPerson(Taken) /\ PerPerson(Taken) <= LowerBound

\* Once the minimum is booked, the passengers of a shared trip pay its cost,
\* and rounding costs all of them together less than one unit a seat.
CostCovered ==
  mode = "SHARED_TOTAL" /\ Taken >= min
    => cost <= Earnings /\ Earnings < cost + Taken

\* No booking that is confirmed makes a seat dearer, and none that is
\* cancelled makes it cheaper ("as more passengers confirm the per-person
\* price falls", pricing.service.ts:24-26).
PriceFallsAsSeatsFill ==
  [][/\ Taken' >= Taken => PerPerson(Taken)' <= PerPerson(Taken)
     /\ Taken' <= Taken => PerPerson(Taken)' >= PerPerson(Taken)]_<<ledger, terms>>
=============================================================================
