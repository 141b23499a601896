\* The price of a seat while bookings are confirmed and cancelled.
SPECIFICATION PriceSpec
CONSTANTS
  b1 = b1  b2 = b2  b3 = b3
  Bookings <- MCBookings
  MaxSeats = 3
  Capacities <- MCCapacities
  Costs <- MCCosts
SYMMETRY Symmetry
INVARIANTS PriceInBand CostCovered
PROPERTIES PriceFallsAsSeatsFill
