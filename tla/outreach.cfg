\* Two trips, one passenger, one failure.
SPECIFICATION FairSpec
CONSTANTS
  t1 = t1  t2 = t2  p = p
  Trips <- MCTrips
  People <- MCPeople
  Driver = Driver
  NoOne = NoOne
  Lead = 1
  Horizon = 4
  MaxFaults = 1
  Signal = TRUE
  TripChoices <- MCChoices
INVARIANTS RemindedOnce 
PROPERTIES OverdueIsSwept RequestsAreAnswered
CHECK_DEADLOCK FALSE
