\* One request at a time: the services as their authors wrote them.
SPECIFICATION Spec
CONSTANTS
  d = d  p1 = p1  p2 = p2
  b1 = b1  b2 = b2  b3 = b3
  r1 = r1  r2 = r2
  Users <- MCUsers
  Driver = d
  Nobody = Nobody
  Bookings = {b1, b2, b3}
  NoBooking = NoBooking
  Requests = {r1}
  Cron = Cron
  MaxInFlight = 1
  Ops <- MCNoEdit
  SeatChoices = {1, 2}
  MaxSeats = 2
  TripChoices <- MCTrips
  PatchChoices <- MCNoPatches
  VehicleSeats = 2
  ConcertAt = 2
  MaxTime = 2
  MailCap = 2
SYMMETRY Symmetry
INVARIANTS OneActiveBooking StatusTracksSeats EndIsMailedOnce WaitersAreTold
