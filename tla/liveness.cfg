\* Two requests and the sweep at a time; handlers end, and the sweep comes again and again.
SPECIFICATION FairSpec
CONSTANTS
  d = d  p1 = p1  p2 = p2
  b1 = b1  b2 = b2  b3 = b3
  r1 = r1  r2 = r2
  Driver = d  Nobody = Nobody  NoBooking = NoBooking  Cron = Cron
  Users = {d, p1}
  Bookings = {b1}
  Requests = {r1, r2}
  MaxInFlight = 3
  Ops = {"request", "accept", "cancelBooking", "confirm", "sweep"}
  SeatChoices = {2}
  MaxSeats = 2
  TripChoices <- MCThreeSeats
  PatchChoices <- MCNoPatches
  VehicleSeats = 3
  ConcertAt = 2
  MaxTime = 2
  MailCap = 0
PROPERTIES HandlersEnd ExpiredTripEnds DepartedTripEnds
