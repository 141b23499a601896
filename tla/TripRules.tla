------------------------------ MODULE TripRules ------------------------------
(***************************************************************************)
(* The pure rules of a trip: TripStateMachine (trip-state-machine.ts) and  *)
(* the validations TripsService runs before a row is written.  A trip is a *)
(* record with the fields status, min, max, deadline and departure; times  *)
(* are points of a logical clock.                                          *)
(***************************************************************************)
EXTENDS Integers

\* The six values of the TripStatus enum.
TripStatus ==
  {"OPEN", "FULL", "READY", "CONFIRMED", "COMPLETED", "CANCELLED"}

\* The statuses booking-driven recomputation moves between.
Band == {"OPEN", "FULL", "READY"}

Finished == {"COMPLETED", "CANCELLED"}

\* BookingsService.isBookable
IsBookable(status) == status \in Band

HasMinReached(t, seats) == seats >= t.min

IsFull(t, seats) == seats >= t.max

\* assertEditable, assertCancellable, assertConfirmable: the condition under
\* which they do not throw.
IsEditable(status) == status = "OPEN"

IsCancellable(status) == status \notin Finished

\* Faulty variant: FULL and OPEN trips may be confirmed as well.
ConfirmableInBand(status) == status \in Band

IsConfirmable(status) == status = "READY"

\* The status a change of the confirmed seats should produce: fullness is
\* tested before the minimum, and only inside the band.
DeriveStatus(t, seats) ==
  IF t.status \notin Band        THEN t.status
  ELSE IF IsFull(t, seats)       THEN "FULL"
  ELSE IF HasMinReached(t, seats) THEN "READY"
  ELSE "OPEN"

\* FR-TRIP-02: min <= max <= vehicle.seats, deadline < departure <= concert.
ValidCapacity(t, vehicleSeats) == t.min <= t.max /\ t.max <= vehicleSeats

ValidSchedule(t, concertAt) ==
  /\ t.deadline < concertAt
  /\ t.deadline < t.departure
  /\ t.departure <= concertAt
=============================================================================
