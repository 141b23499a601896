\* One request at a time, with the driver editing the trip.
SPECIFICATION Spec
CONSTANTS
  d = d  p1 = p1  p2 = p2
  b1 = b1  b2 = b2  b3 = b3
  r1 = r1  r2 = r2
  Driver = d  Nobody = Nobody  NoBooking = NoBooking  Cron = Cron
  Users <- MCUsers
  Bookings = {b1, b2}
  Requests = {r1}
  MaxInFlight = 1
  Ops = {"request", "accept", "cancelBooking", "update", "confirm", "sweep"}
  SeatChoices = {1, 2}
  MaxSeats = 2
  TripChoices <- MCTrips
  PatchChoices <- MCPatches
  VehicleSeats = 2
  ConcertAt = 2
  MaxTime = 2
  MailCap = 0
SYMMETRY Symmetry
INVARIANTS TripStaysValid
PROPERTIES TermsFixedOnceCommitted ConfirmedWithMinimum
