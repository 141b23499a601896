\* Accept races with reject and cancel of the same booking.
SPECIFICATION Spec
CONSTANTS
  d = d  p1 = p1  p2 = p2
  b1 = b1  b2 = b2  b3 = b3
  r1 = r1  r2 = r2
  Driver = d  Nobody = Nobody  NoBooking = NoBooking  Cron = Cron
  Users <- MCUsers
  Bookings = {b1, b2}
  Requests = {r1, r2}
  MaxInFlight = 2
  Ops = {"request", "accept", "reject", "cancelBooking"}
  SeatChoices = {1}
  MaxSeats = 1
  TripChoices <- MCTwoSeats
  PatchChoices <- MCNoPatches
  VehicleSeats = 2
  ConcertAt = 2
  MaxTime = 2
  MailCap = 0
SYMMETRY Symmetry
PROPERTIES AcceptsOnlyPending
CHECK_DEADLOCK FALSE
