\* Each page of the frontend, from every state it may be opened in.
SPECIFICATION FairSpec
CONSTANTS
  v1 = v1  v2 = v2
  Requests = {r1, r2, r3}
  Vehicles = {v1, v2}
  Rides = {t1}
  Nothing = Nothing
  Bodies <- MCBodies
  MaxSeats = 2
  car1 = car1  car2 = car2  gig1 = gig1  gig2 = gig2
  Cars = {car1, car2}
  CarSeats <- MCCarSeats
  Gigs = {gig1, gig2}
  GigStart <- MCGigStart
  Unset = Unset
  Zones = {0, 1}
  MaxLocal = 3
  DepartureLead = 1
  DeadlineLead = 2
  FallbackLead = 1
  OldTrips <- MCOldTrips
  MaxStops = 2
  MaxSubmits = 2
  MaxClicks = 3
  o1 = o1  i1 = i1  i2 = i2  driven = driven  other = other
  Own = {o1}
  Incoming = {i1, i2}
  TripOf <- MCTripOf
  Driven = {driven}
  Past = {o1}
  NoBooking = NoBooking
  MaxVisits = 2
  MaxPresses = 2
  MaxMoves = 1
  lift1 = lift1  lift2 = lift2  lift3 = lift3  anna = anna  ben = ben  car = car  van = van
  Lifts = {lift1, lift2, lift3}
  LiftInfo <- MCLiftInfo
  Drivers = {anna, ben}
  Grades = {5}
  Unrated = Unrated
  FareAt <- MCFareAt
  NoFilter = NoFilter
  Wishes <- MCWishes
  Fetches = {f1, f2}
  NoFetch = NoFetch
  PageSize = 2
  MaxShifts = 2
INVARIANTS StopsAreOneBody TripHasItsVehicle ShownConcertIsSent ValidFormIsAccepted NoUnwantedCopy NothingMissed  PendingIsUnderWay
PROPERTIES  MemberGetsChat
CHECK_DEADLOCK FALSE
