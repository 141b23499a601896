-------------------------------- MODULE Store --------------------------------
(***************************************************************************)
(* The state the trip, booking and waitlist services share: the rows of    *)
(* one trip in PostgreSQL, and the workers (concurrent HTTP requests and   *)
(* the hourly cron job) that read and write them.  A handler runs one step *)
(* per awaited database call; between two steps any other worker may run.  *)
(*                                                                         *)
(* Trips do not share rows of these tables, so one trip is enough: its     *)
(* bookings, its waitlist and its row lock.                                *)
(***************************************************************************)
EXTENDS TripRules, FiniteSets, Sequences

CONSTANTS
  Users,        \* registered users
  Driver,       \* the user who published the trip
  Nobody,       \* no user, no worker
  Bookings,     \* ids the booking rows may get: bounds the requests of a run
  NoBooking,
  Requests,     \* HTTP requests in flight at the same time
  Cron,         \* the process of TripSweepJob
  MaxInFlight,  \* at most so many workers are busy; 1 makes the run serial
  Ops,          \* the operations a run exercises
  SeatChoices,  \* seats a passenger may ask for
  MaxSeats,     \* the largest of them
  TripChoices,  \* rows TripsService.create may insert
  PatchChoices, \* bodies of PATCH /trips/:id: functions from columns to values
  VehicleSeats, \* seats of the driver's vehicle
  ConcertAt,    \* start of the concert
  MaxTime,      \* the clock stops here
  MailCap       \* notifications of one kind are counted up to here

AllOps == {"request", "accept", "reject", "cancelBooking", "setPaid",
           "update", "confirm", "cancelTrip", "sweep", "join", "leave"}

Workers == Requests \cup {Cron}

ASSUME UsersAssumption == Driver \in Users /\ Nobody \notin Users \cup Workers
ASSUME BookingsAssumption == IsFiniteSet(Bookings) /\ NoBooking \notin Bookings
ASSUME WorkersAssumption == IsFiniteSet(Requests) /\ Cron \notin Requests
ASSUME OpsAssumption == Ops \subseteq AllOps
ASSUME SeatsAssumption == MaxSeats \in Nat /\ SeatChoices \subseteq 1..MaxSeats
ASSUME BoundsAssumption ==
  MaxTime \in Nat /\ MailCap \in Nat /\ VehicleSeats \in Nat /\ ConcertAt \in Nat

-----------------------------------------------------------------------------
(* Rows *)

\* Trip (trip.entity.ts): the columns the state machine and the sweep read.
TripRow == [status: TripStatus, min: Nat, max: Nat,
            deadline: Nat, departure: Nat]

NoTrip == [status |-> "NONE", min |-> 0, max |-> 0,
           deadline |-> 0, departure |-> 0]

BookingStatus == {"PENDING", "CONFIRMED", "REJECTED", "CANCELLED_BY_PASSENGER"}

\* Booking (booking.entity.ts), for the fixed trip.
BookingRow == [passenger: Users, seats: 1..MaxSeats,
               status: BookingStatus, paid: BOOLEAN]

NoRow == [passenger |-> Nobody, seats |-> 0, status |-> "NONE", paid |-> FALSE]

\* Columns a service may change after the row is inserted.
TripColumns == {"status", "min", "max", "deadline", "departure"}
BookingColumns == {"status", "paid"}

\* The row with the columns cols taken from an entity, or from a patch.
Written(row, entity, cols) ==
  [status    |-> IF "status"    \in cols THEN entity.status    ELSE row.status,
   min       |-> IF "min"       \in cols THEN entity.min       ELSE row.min,
   max       |-> IF "max"       \in cols THEN entity.max       ELSE row.max,
   deadline  |-> IF "deadline"  \in cols THEN entity.deadline  ELSE row.deadline,
   departure |-> IF "departure" \in cols THEN entity.departure ELSE row.departure]

WrittenBooking(row, entity, cols) ==
  [passenger |-> row.passenger,
   seats     |-> row.seats,
   status    |-> IF "status" \in cols THEN entity.status ELSE row.status,
   paid      |-> IF "paid"   \in cols THEN entity.paid   ELSE row.paid]

\* @Min(1) of CreateTripDto: a trip without a minimum would be READY, not OPEN.
ASSUME ChoicesAssumption ==
  /\ TripChoices \subseteq TripRow
  /\ \A t \in TripChoices : t.min # 0
  /\ \A patch \in PatchChoices :
       /\ DOMAIN patch \subseteq TripColumns \ {"status"}
       /\ \A c \in DOMAIN patch : patch[c] \in Nat

-----------------------------------------------------------------------------
VARIABLES
  trip,      \* the committed trip row
  booking,   \* the committed booking rows, by id
  waitlist,  \* passengers of the waitlist entries, by createdAt
  lock,      \* worker that holds the trip row FOR UPDATE, or Nobody
  clock,
  pc,        \* where each worker's handler stands
  call,      \* its arguments and locals
  tripSeen,  \* the Trip entity it loaded and mutates
  bookSeen,  \* the Booking entity it loaded and mutates
  dirty,     \* the columns its save found changed
  mail,      \* history: trip-wide notifications sent, of each kind
  owed       \* history: waiting passengers not mailed since a seat was freed

tables == <<trip, booking, waitlist>>
history == <<mail, owed>>
locals == <<call, tripSeen, bookSeen, dirty>>
vars == <<trip, booking, waitlist, lock, clock, pc,
          call, tripSeen, bookSeen, dirty, mail, owed>>

TripEvents == {"READY", "CONFIRMED", "CANCELLED", "COMPLETED"}

\* The arguments of a handler, and what it keeps of them until it ends.
Arguments(op, user, b, seats, now, freed) ==
  [op |-> op, user |-> user, booking |-> b,
   seats |-> seats, now |-> now, freed |-> freed]

NoCall == Arguments("none", Nobody, NoBooking, 0, 0, FALSE)

OnTrip(op) == Arguments(op, Nobody, NoBooking, 0, 0, FALSE)
OnBooking(op, b) == Arguments(op, Nobody, b, 0, 0, FALSE)
OnWaitlist(op, p) == Arguments(op, p, NoBooking, 0, 0, FALSE)

\* The trip row as TripsService.create inserts it: validated, and OPEN.
Created == {t \in TripChoices : /\ t.status = "OPEN"
                                /\ ValidCapacity(t, VehicleSeats)
                                /\ ValidSchedule(t, ConcertAt)}

Init ==
  /\ trip \in Created
  /\ booking = [b \in Bookings |-> NoRow]
  /\ waitlist = <<>>
  /\ lock = Nobody
  /\ clock = 0
  /\ pc = [w \in Workers |-> "idle"]
  /\ call = [w \in Workers |-> NoCall]
  /\ tripSeen = [w \in Workers |-> NoTrip]
  /\ bookSeen = [w \in Workers |-> NoRow]
  /\ dirty = [w \in Workers |-> {}]
  /\ mail = [e \in TripEvents |-> 0]
  /\ owed = {}

-----------------------------------------------------------------------------
(* Queries *)

\* The seats of the CONFIRMED rows, as (booking, seat) pairs, and their SUM.
SeatPairs(rows) ==
  {u \in Bookings \X (1..MaxSeats) :
     rows[u[1]].status = "CONFIRMED" /\ u[2] <= rows[u[1]].seats}

SeatsTaken(rows) == Cardinality(SeatPairs(rows))

ConfirmedSeats == SeatsTaken(booking)

\* Faulty variant: a PENDING booking is not active.
HasConfirmedBooking(p) ==
  \E b \in Bookings : booking[b].passenger = p /\ booking[b].status = "CONFIRMED"

\* assertNoActiveBooking throws.
HasActiveBooking(p) ==
  \E b \in Bookings : /\ booking[b].passenger = p
                      /\ booking[b].status \in {"PENDING", "CONFIRMED"}

\* Ids neither stored nor chosen by a request on its way to the insert.
FreshIds == {b \in Bookings : /\ booking[b].status = "NONE"
                              /\ \A w \in Workers : call[w].booking # b}

Waiting == {waitlist[i] : i \in DOMAIN waitlist}

Busy == {w \in Workers : pc[w] # "idle"}

\* No transaction holds the trip row: an UPDATE of it, and an INSERT whose
\* foreign key points at it, need not wait.
TripRowFree == lock = Nobody

-----------------------------------------------------------------------------
(* Control of a handler *)

GoTo(w, l) == pc' = [pc EXCEPT ![w] = l]

Begin(w, l, c) ==
  /\ pc[w] = "idle"
  /\ c.op \in Ops
  /\ Cardinality(Busy) < MaxInFlight
  /\ GoTo(w, l)
  /\ call' = [call EXCEPT ![w] = c]

\* The handler returns or throws; its locals are garbage.
End(w) ==
  /\ GoTo(w, "idle")
  /\ call' = [call EXCEPT ![w] = NoCall]
  /\ tripSeen' = [tripSeen EXCEPT ![w] = NoTrip]
  /\ bookSeen' = [bookSeen EXCEPT ![w] = NoRow]
  /\ dirty' = [dirty EXCEPT ![w] = {}]

\* Where a handler continues once its trip row is saved, or recomputeStatus
\* found nothing to save.
AfterTripSave(w) ==
  \/ /\ call[w].op = "cancelBooking"
     /\ GoTo(w, "waitlist.find")
     /\ UNCHANGED locals
  \/ /\ call[w].op = "sweep"
     /\ tripSeen[w].status = "CANCELLED"
     /\ GoTo(w, "sweep.find")
     /\ UNCHANGED locals
  \/ /\ call[w].op # "cancelBooking"
     /\ ~(call[w].op = "sweep" /\ tripSeen[w].status = "CANCELLED")
     /\ End(w)

-----------------------------------------------------------------------------
(* repository.save(entity), TypeORM: load the row, find the columns in     *)
(* which the entity differs from it, and UPDATE those columns.  Between    *)
(* the two statements other workers may commit.                            *)

TripSaveLoad(w) ==
  /\ pc[w] = "trip.load"
  /\ dirty' = [dirty EXCEPT ![w] = {c \in TripColumns : tripSeen[w][c] # trip[c]}]
  /\ GoTo(w, "trip.update")
  /\ UNCHANGED <<tables, lock, clock, call, tripSeen, bookSeen, history>>

\* Faulty variant: the sweep ends trips without a word.
NotifyUnlessSwept(w) ==
  LET e == tripSeen[w].status IN
  mail' = IF e \in TripEvents /\ call[w].op \notin {"update", "sweep"}
          THEN [mail EXCEPT ![e] = IF @ < MailCap THEN @ + 1 ELSE @]
          ELSE mail

\* The notification that follows the save: of the status just assigned.
\* PATCH sends none, and recomputeStatus only READY.
Notify(w) ==
  LET e == tripSeen[w].status IN
  mail' = IF e \in TripEvents /\ call[w].op # "update"
          THEN [mail EXCEPT ![e] = IF @ < MailCap THEN @ + 1 ELSE @]
          ELSE mail

TripSaveUpdate(w) ==
  /\ pc[w] = "trip.update"
  /\ TripRowFree \/ dirty[w] = {}
  /\ trip' = Written(trip, tripSeen[w], dirty[w])
  /\ Notify(w)
  /\ AfterTripSave(w)
  /\ UNCHANGED <<booking, waitlist, lock, clock, owed>>

BookingSaveLoad(w) ==
  /\ pc[w] = "booking.load"
  /\ dirty' = [dirty EXCEPT ![w] =
       {c \in BookingColumns : bookSeen[w][c] # booking[call[w].booking][c]}]
  /\ GoTo(w, "booking.update")
  /\ UNCHANGED <<tables, lock, clock, call, tripSeen, bookSeen, history>>

\* The UPDATE commits; for accept() that also ends the transaction and its
\* lock.  accept() goes on to recomputeStatus, and cancel() does when the
\* entity it loaded was CONFIRMED.
BookingSaveUpdate(w) ==
  /\ pc[w] = "booking.update"
  /\ LET b   == call[w].booking
         row == WrittenBooking(booking[b], bookSeen[w], dirty[w])
     IN /\ booking' = [booking EXCEPT ![b] = row]
        /\ owed' = IF booking[b].status = "CONFIRMED" /\ row.status # "CONFIRMED"
                   THEN owed \cup Waiting ELSE owed
  /\ lock' = IF lock = w THEN Nobody ELSE lock
  /\ IF call[w].op = "accept" \/ call[w].freed
     THEN /\ GoTo(w, "recompute.find")
          /\ UNCHANGED locals
     ELSE End(w)
  /\ UNCHANGED <<trip, waitlist, clock, mail>>

-----------------------------------------------------------------------------
(* TripsService.recomputeStatus, called by accept() and cancel() *)

RecomputeFind(w) ==
  /\ pc[w] = "recompute.find"
  /\ tripSeen' = [tripSeen EXCEPT ![w] = trip]
  /\ GoTo(w, "recompute.count")
  /\ UNCHANGED <<tables, lock, clock, call, bookSeen, dirty, history>>

RecomputeCount(w) ==
  /\ pc[w] = "recompute.count"
  /\ LET next == DeriveStatus(tripSeen[w], ConfirmedSeats) IN
     \/ /\ next = tripSeen[w].status
        /\ AfterTripSave(w)
     \/ /\ next # tripSeen[w].status
        /\ tripSeen' = [tripSeen EXCEPT ![w] = [tripSeen[w] EXCEPT !.status = next]]
        /\ GoTo(w, "trip.load")
        /\ UNCHANGED <<call, bookSeen, dirty>>
  /\ UNCHANGED <<tables, lock, clock, history>>

\* Time passes.
Tick ==
  /\ clock < MaxTime
  /\ clock' = clock + 1
  /\ UNCHANGED <<tables, lock, pc, locals, history>>
=============================================================================
