------------------------------ MODULE SeatLedger ------------------------------
(***************************************************************************)
(* What the booking desk promises about capacity (docs/features, section   *)
(* 4.4): PENDING requests reserve nothing, a booking takes its seats all   *)
(* at once and only while they fit, and gives them back all at once.       *)
(***************************************************************************)
EXTENDS Integers, FiniteSets

CONSTANTS
  Bookings,
  MaxSeats,   \* the most seats one booking may take
  Capacities  \* the numbers of seats a trip may offer

VARIABLES
  taken,    \* seats each booking takes, 0 when it takes none
  capacity  \* seats offered

ledger == <<taken, capacity>>

\* SUM(seats), counted as (booking, seat) pairs
Taken == Cardinality({u \in Bookings \X (1..MaxSeats) : u[2] <= taken[u[1]]})

Open ==
  /\ taken = [b \in Bookings |-> 0]
  /\ capacity \in Capacities

Take(b, n) ==
  /\ taken[b] = 0
  /\ Taken + n <= capacity
  /\ taken' = [taken EXCEPT ![b] = n]
  /\ UNCHANGED capacity

Release(b) ==
  /\ taken[b] # 0
  /\ taken' = [taken EXCEPT ![b] = 0]
  /\ UNCHANGED capacity

Ledger ==
  \E b \in Bookings : Release(b) \/ \E n \in 1..MaxSeats : Take(b, n)

LedgerSpec == Open /\ [][Ledger]_ledger
=============================================================================
