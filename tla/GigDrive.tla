------------------------------- MODULE GigDrive -------------------------------
(***************************************************************************)
(* The trip core of the backend: the booking, trip and waitlist services   *)
(* at work on the same rows, the hourly sweep, and the passing of time.    *)
(***************************************************************************)
EXTENDS BookingsService, TripsService, WaitlistService

\* A worker goes on with the handler it has started.
Step(w) == BookingStep(w) \/ TripStep(w) \/ WaitlistStep(w)

Start(w) == StartBooking(w) \/ StartTrip(w) \/ StartWaitlist(w)

Next ==
  \/ \E w \in Requests : Start(w)
  \/ Sweep
  \/ \E w \in Workers : Step(w)
  \/ Tick

Spec == Init /\ [][Next]_vars

\* A handler that has started runs on.  PostgreSQL queues the waiters of a
\* row lock, so one that waits for it again and again gets it (strong
\* fairness).  The cron job fires again and again.  No request need come.
Fairness ==
  /\ \A w \in Workers : SF_vars(Step(w))
  /\ WF_vars(Sweep)

FairSpec == Spec /\ Fairness

-----------------------------------------------------------------------------
(* Types *)

Labels == {"idle", "request.active", "request.count", "request.insert",
           "accept.lock", "accept.count", "booking.load", "booking.update",
           "recompute.find", "recompute.count", "trip.load", "trip.update",
           "sweep.count", "sweep.find", "waitlist.find",
           "join.entry", "join.active", "join.insert", "leave.remove"}

Calls == [op: AllOps \cup {"none"}, user: Users \cup {Nobody},
          booking: Bookings \cup {NoBooking}, seats: 0..MaxSeats,
          now: 0..MaxTime, freed: BOOLEAN]

TablesOK ==
  /\ trip \in TripRow
  /\ booking \in [Bookings -> BookingRow \cup {NoRow}]
  /\ waitlist \in Seq(Users)
  /\ lock \in Workers \cup {Nobody}
  /\ clock \in 0..MaxTime
  /\ mail \in [TripEvents -> 0..MailCap]
  /\ owed \in SUBSET Users

LocalsOK ==
  /\ pc \in [Workers -> Labels]
  /\ call \in [Workers -> Calls]
  /\ tripSeen \in [Workers -> TripRow \cup {NoTrip}]
  /\ bookSeen \in [Workers -> BookingRow \cup {NoRow}]
  /\ dirty \in [Workers -> SUBSET (TripColumns \cup BookingColumns)]

\* Every row, entity and argument has the type its TypeScript class gives it.
TypeOK == TablesOK /\ LocalsOK

-----------------------------------------------------------------------------
(* Safety *)

\* No handler is on its way.
Quiet == Busy = {}

\* The confirmed bookings never need more seats than the trip offers
\* (accept's capacity check, bookings.service.ts:91-93).
SeatsFit == ConfirmedSeats <= trip.max

\* The seats each booking has been given.
SeatsHeld == [b \in Bookings |-> IF booking[b].status = "CONFIRMED"
                                 THEN booking[b].seats ELSE 0]

\* The bookings of the trip are a seat ledger: accept takes seats, cancel
\* gives them back, and nothing else touches them.
Ledger == INSTANCE SeatLedger WITH
  taken <- SeatsHeld, capacity <- trip.max, Capacities <- Nat

\* Every behaviour of the trip core is one of the seat ledger (refinement of
\* section 4.4 of docs/features/06-bookings.md).
KeepsLedger == Ledger!LedgerSpec

\* A passenger has at most one booking on the trip that is PENDING or
\* CONFIRMED (ACTIVE_BOOKING_STATUSES, bookings.service.ts:22-29).
OneActiveBooking ==
  \A a, b \in Bookings :
    /\ a # b
    /\ booking[a].status \in {"PENDING", "CONFIRMED"}
    /\ booking[b].status \in {"PENDING", "CONFIRMED"}
    => booking[a].passenger # booking[b].passenger

\* When no handler runs, the status of a trip that is still open to bookings
\* is the one its confirmed seats call for (trip-state-machine.ts:30-32).
StatusTracksSeats ==
  Quiet => trip.status = DeriveStatus(trip, ConfirmedSeats)

\* When no handler runs, an OPEN trip is short of its minimum
\* ("OPEN --(min reached)--> READY", trip-state-machine.ts:22).  Refuted by
\* an edit that lowers the minimum; see the README.
OpenIsShortOfMinimum ==
  Quiet /\ trip.status = "OPEN" => ~HasMinReached(trip, ConfirmedSeats)

\* Minimum, capacity, deadline and departure satisfy FR-TRIP-02, whatever
\* edits the driver made.
TripStaysValid == ValidCapacity(trip, VehicleSeats) /\ ValidSchedule(trip, ConcertAt)

\* When no handler runs, a trip whose cancellation or completion was mailed
\* is cancelled or completed, it was mailed once, and no trip ends unmailed.
EndIsMailedOnce ==
  Quiet => \A s \in Finished : mail[s] = IF trip.status = s THEN 1 ELSE 0

\* When no handler runs, everyone who waited while a confirmed booking was
\* cancelled has been mailed, or has left (notifyOnSeatFreed).
WaitersAreTold == Quiet => owed = {}

-----------------------------------------------------------------------------
(* What a handler that has started relies on *)

RequestLabels == {"request.active", "request.count", "request.insert"}
SaveLabels == {"booking.load", "booking.update"}
BookingLabels == {"accept.lock", "accept.count"} \cup SaveLabels
TripLabels == {"accept.count", "recompute.count", "sweep.count",
               "trip.load", "trip.update"}
JoinLabels == {"join.entry", "join.active", "join.insert"}

\* The arguments a handler works with, and the rows it has loaded.
Loaded ==
  \A w \in Workers :
    /\ pc[w] \in RequestLabels =>
         /\ call[w].op = "request"
         /\ call[w].user \in Users
         /\ call[w].seats \in 1..MaxSeats
         /\ call[w].booking \in Bookings
         /\ tripSeen[w] \in TripRow
    /\ pc[w] \in BookingLabels =>
         /\ call[w].op \in {"accept", "reject", "cancelBooking", "setPaid"}
         /\ call[w].booking \in Bookings
         /\ booking[call[w].booking] \in BookingRow
         /\ bookSeen[w] \in BookingRow
    /\ pc[w] \in {"accept.lock", "accept.count"} => call[w].op = "accept"
    /\ pc[w] \in TripLabels => tripSeen[w] \in TripRow
    /\ pc[w] \in JoinLabels => call[w].user \in Users

\* The id a request has chosen is nobody else's, and has no row yet.
Reserved ==
  \A w \in Workers : pc[w] \in RequestLabels =>
    /\ booking[call[w].booking] = NoRow
    /\ \A v \in Workers \ {w} : call[v].booking # call[w].booking

\* The trip row is locked by the accept() that is inside its transaction.
HoldsLock(w) ==
  pc[w] = "accept.count" \/ (call[w].op = "accept" /\ pc[w] \in SaveLabels)

LockHeld == \A w \in Workers : lock = w <=> HoldsLock(w)

\* Without PATCH nobody's copy of the trip differs in its capacity.
SameCapacity ==
  \A w \in Workers :
    /\ tripSeen[w] \in TripRow => tripSeen[w].max = trip.max
    /\ pc[w] = "trip.update" => "max" \notin dirty[w]

\* What a handler is about to save: only accept() confirms, and it asks for
\* the seats of the row.
Decided ==
  \A w \in Workers :
    /\ pc[w] \in BookingLabels =>
         bookSeen[w].seats = booking[call[w].booking].seats
    /\ pc[w] \in SaveLabels =>
         (bookSeen[w].status = "CONFIRMED" <=> call[w].op = "accept")

\* The seats an accept() has checked stay free until it commits.
RoomKept ==
  \A w \in Workers :
    call[w].op = "accept" /\ pc[w] \in SaveLabels
      => ConfirmedSeats + bookSeen[w].seats <= trip.max

\* The inductive invariant behind TypeOK, and the one behind SeatsFit.
TypeInv == TypeOK /\ Loaded /\ Reserved

CapacityInv ==
  TypeInv /\ LockHeld /\ SameCapacity /\ Decided /\ RoomKept /\ SeatsFit

-----------------------------------------------------------------------------
(* What it relies on besides when MaxInFlight = 1 *)

\* No handler runs beside another.
Alone == \A v, w \in Workers : pc[v] # "idle" /\ pc[w] # "idle" => v = w

Active == {"PENDING", "CONFIRMED"}

\* The booking that is to be saved still has the status the handler has judged.
BookingFresh(w) ==
  pc[w] \in BookingLabels =>
    LET c      == call[w]
        status == booking[c.booking].status
    IN /\ status \in Active
       /\ c.op \in {"accept", "reject"} => status = "PENDING"
       /\ c.op = "reject" => bookSeen[w].status = "REJECTED"
       /\ c.op = "cancelBooking" => bookSeen[w].status = "CANCELLED_BY_PASSENGER"
       /\ c.op = "setPaid" => status = "CONFIRMED" /\ bookSeen[w].status = "CONFIRMED"
       /\ c.freed <=> c.op = "cancelBooking" /\ status = "CONFIRMED"

\* What a save of the trip may be about to write.
Becomes(w, op, before, after) ==
  /\ call[w].op \in op
  /\ trip.status \in before
  /\ tripSeen[w] = [trip EXCEPT !.status = after]

Edits(w) ==
  /\ call[w].op = "update"
  /\ trip.status = "OPEN" /\ tripSeen[w].status = "OPEN"
  /\ ValidCapacity(tripSeen[w], VehicleSeats)
  /\ ValidSchedule(tripSeen[w], ConcertAt)

Rederives == {"accept", "cancelBooking"}

Pending(w) ==
  \/ Edits(w)
  \/ Becomes(w, {"confirm"}, {"READY"}, "CONFIRMED")
  \/ Becomes(w, {"cancelTrip"}, TripStatus \ Finished, "CANCELLED")
  \/ Becomes(w, {"sweep"}, Band, "CANCELLED")
  \/ Becomes(w, {"sweep"}, {"CONFIRMED"}, "COMPLETED")
  \/ Becomes(w, Rederives, Band, DeriveStatus(trip, ConfirmedSeats))

\* The trip that is to be saved is the row, but for what the handler assigns.
TripFresh(w) ==
  /\ pc[w] \in {"recompute.find", "recompute.count"} => call[w].op \in Rederives
  /\ pc[w] \in {"recompute.count", "sweep.count"} => tripSeen[w] = trip
  /\ pc[w] = "sweep.count" => call[w].op = "sweep" /\ trip.status \in Band
  /\ pc[w] = "sweep.find" => call[w].op = "sweep"
  /\ pc[w] = "waitlist.find" => call[w].op = "cancelBooking"
  /\ pc[w] \in {"trip.load", "trip.update"} => Pending(w)
  /\ pc[w] = "trip.update" => dirty[w] = {c \in TripColumns : tripSeen[w][c] # trip[c]}

\* A request that is about to insert has found no active booking.
NoneActive(w) ==
  pc[w] \in {"request.count", "request.insert"} => ~HasActiveBooking(call[w].user)

\* Seats have changed and the status of the trip has not followed yet.
Unsettled(w) ==
  \/ pc[w] \in {"recompute.find", "recompute.count"}
  \/ pc[w] \in {"trip.load", "trip.update"} /\ call[w].op \in Rederives

Settled == \A w \in Workers : ~Unsettled(w)

\* A trip that offers itself for confirmation has its minimum.
ReadyHasMinimum == Settled /\ trip.status = "READY" => HasMinReached(trip, ConfirmedSeats)

StatusFollows == Settled => trip.status = DeriveStatus(trip, ConfirmedSeats)

MailedOnce == \A s \in Finished : mail[s] = IF trip.status = s THEN 1 ELSE 0

\* Who is owed a mail waits, and the cancellation that owes it is on its way.
Telling(w) == call[w].op = "cancelBooking" /\ (Unsettled(w) \/ pc[w] = "waitlist.find")

OwedIsComing == owed = {} \/ (owed \subseteq Waiting /\ \E w \in Workers : Telling(w))

Fresh == \A w \in Workers : BookingFresh(w) /\ TripFresh(w)

\* The inductive invariant of a run with one handler at a time.
SerialInv == TypeInv /\ Alone /\ Fresh

-----------------------------------------------------------------------------
(* Steps that must not happen *)

\* What accept() confirms was PENDING until then ("Only PENDING bookings can
\* be accepted", bookings.service.ts:98).
AcceptsOnlyPending ==
  [][\A b \in Bookings :
       booking'[b].status = "CONFIRMED"
       => booking[b].status \in {"PENDING", "CONFIRMED"}]_booking

\* At the moment a trip becomes CONFIRMED its minimum is booked
\* (assertConfirmable: "Only READY trips (minimum reached)").
ConfirmedWithMinimum ==
  [][trip'.status = "CONFIRMED" /\ trip.status # "CONFIRMED"
     => HasMinReached(trip, ConfirmedSeats)]_trip

\* recomputeStatus writes no trip that is CONFIRMED, COMPLETED or CANCELLED
\* ("Terminal statuses are left untouched", trips.service.ts:248).  Refuted
\* by a cancellation that overlaps; see the README.
RecomputeSparesTerminal ==
  [][\A w \in Workers :
       /\ call[w].op \in {"accept", "cancelBooking"}
       /\ pc[w] = "trip.update"
       /\ pc'[w] # "trip.update"
       /\ trip.status \notin Band
       => trip'.status = trip.status]_vars

\* What the passengers agreed to does not change once the trip has left OPEN
\* (assertEditable: "the trip is already committed").
TermsFixedOnceCommitted ==
  [][trip.status # "OPEN"
     => \A c \in TripColumns \ {"status"} : trip'[c] = trip[c]]_trip

\* Marking a booking paid decides nothing: whoever runs setPaid leaves the
\* status of the booking as it is (bookings.service.ts:197).  Refuted by a
\* cancellation that overlaps; see the README.
PaidIsInformational ==
  [][\A w \in Workers :
       call[w].op = "setPaid" /\ pc[w] = "booking.update" /\ pc'[w] = "idle"
       => \A b \in Bookings : booking'[b].status = booking[b].status]_vars

-----------------------------------------------------------------------------
(* Liveness *)

\* Every handler that starts also ends, though it may wait for the lock.
HandlersEnd == \A w \in Workers : pc[w] # "idle" ~> pc[w] = "idle"

\* FR-TRIP-06: a trip past its deadline, short of its minimum and still open
\* to bookings does not stay so.
Expired == /\ trip.status \in Band
           /\ trip.deadline <= clock
           /\ ~HasMinReached(trip, ConfirmedSeats)

ExpiredTripEnds == Expired ~> ~Expired

\* A confirmed trip that has departed is completed, or was cancelled.
DepartedTripEnds ==
  (trip.status = "CONFIRMED" /\ trip.departure <= clock)
    ~> trip.status # "CONFIRMED"
=============================================================================
