---------------------------- MODULE GigDriveProofs ----------------------------
(***************************************************************************)
(* Theorems about the trip core, for every number of users, bookings and   *)
(* workers, every capacity and every choice of operations: types, what the *)
(* seat lock protects, and that the services implement SeatLedger.         *)
(***************************************************************************)
EXTENDS GigDrive, TLAPS, FiniteSetTheorems

-----------------------------------------------------------------------------
(* Rows and arguments *)

\* The constructors of a handler's arguments build arguments.
LEMMA ArgumentsType ==
  ASSUME NEW op \in AllOps \cup {"none"}, NEW user \in Users \cup {Nobody},
         NEW b \in Bookings \cup {NoBooking}, NEW seats \in 0..MaxSeats,
         NEW now \in 0..MaxTime, NEW freed \in BOOLEAN
  PROVE  Arguments(op, user, b, seats, now, freed) \in Calls
  BY DEF Arguments, Calls

LEMMA NoCallType == NoCall \in Calls
<1>1. 0 \in 0..MaxSeats /\ 0 \in 0..MaxTime
  BY SeatsAssumption, BoundsAssumption
<1> QED
  BY <1>1, ArgumentsType DEF NoCall

LEMMA StartType ==
  ASSUME NEW op \in AllOps, NEW b \in Bookings, NEW p \in Users,
         NEW n \in 1..MaxSeats, NEW freed \in BOOLEAN, NEW now \in 0..MaxTime
  PROVE  /\ OnTrip(op) \in Calls
         /\ OnBooking(op, b) \in Calls
         /\ OnWaitlist(op, p) \in Calls
         /\ Arguments(op, p, b, n, 0, FALSE) \in Calls
         /\ Arguments(op, Nobody, b, 0, 0, freed) \in Calls
         /\ Arguments(op, Nobody, NoBooking, 0, now, FALSE) \in Calls
<1>1. 0 \in 0..MaxSeats /\ 0 \in 0..MaxTime /\ n \in 0..MaxSeats
  BY SeatsAssumption, BoundsAssumption
<1> QED
  BY <1>1, ArgumentsType DEF OnTrip, OnBooking, OnWaitlist

LEMMA NotifyType ==
  ASSUME mail \in [TripEvents -> 0..MailCap], NEW w \in Workers, Notify(w)
  PROVE  mail' \in [TripEvents -> 0..MailCap]
<1>1. CASE mail' = mail
  BY <1>1
<1>2. CASE /\ tripSeen[w].status \in TripEvents
           /\ mail' = [mail EXCEPT ![tripSeen[w].status] = IF @ < MailCap THEN @ + 1 ELSE @]
  BY <1>2, BoundsAssumption
<1> QED
  BY <1>1, <1>2 DEF Notify

\* Assigning a status to an entity keeps its type.
LEMMA TripStatusType ==
  ASSUME NEW t \in TripRow, NEW s \in TripStatus
  PROVE  [t EXCEPT !.status = s] \in TripRow
  BY DEF TripRow

LEMMA BookingStatusType ==
  ASSUME NEW r \in BookingRow, NEW s \in BookingStatus
  PROVE  [r EXCEPT !.status = s] \in BookingRow
  BY DEF BookingRow

LEMMA BookingPaidType ==
  ASSUME NEW r \in BookingRow, NEW paid \in BOOLEAN
  PROVE  [r EXCEPT !.paid = paid] \in BookingRow
  BY DEF BookingRow

LEMMA WrittenType ==
  ASSUME NEW t \in TripRow, NEW e \in TripRow, NEW cols
  PROVE  Written(t, e, cols) \in TripRow
  BY DEF TripRow, Written

LEMMA PatchedType ==
  ASSUME NEW t \in TripRow, NEW patch \in PatchChoices
  PROVE  Written(t, patch, DOMAIN patch) \in TripRow
  BY ChoicesAssumption DEF TripRow, Written, TripColumns

LEMMA WrittenBookingType ==
  ASSUME NEW r \in BookingRow, NEW e \in BookingRow, NEW cols
  PROVE  WrittenBooking(r, e, cols) \in BookingRow
  BY DEF BookingRow, WrittenBooking

LEMMA DeriveStatusType ==
  ASSUME NEW t \in TripRow, NEW n
  PROVE  DeriveStatus(t, n) \in TripStatus
  BY DEF DeriveStatus, TripRow, TripStatus

\* A stored row is not the absent row.
LEMMA NoRowIsNoBookingRow == NoRow \notin BookingRow
  BY DEF NoRow, BookingRow, BookingStatus

-----------------------------------------------------------------------------
(* Types *)

LEMMA TypeInvInit == Init => TypeInv
<1> SUFFICES ASSUME Init PROVE TypeInv
  OBVIOUS
<1>1. TypeOK
  <2>1. trip \in TripRow
    BY ChoicesAssumption DEF Init, Created
  <2>2. booking \in [Bookings -> BookingRow \cup {NoRow}]
    BY DEF Init
  <2>3. waitlist \in Seq(Users) /\ lock \in Workers \cup {Nobody} /\ owed \in SUBSET Users
    BY DEF Init
  <2>4. clock \in 0..MaxTime /\ mail \in [TripEvents -> 0..MailCap]
    BY BoundsAssumption DEF Init
  <2>5. pc \in [Workers -> Labels] /\ call \in [Workers -> Calls]
    BY NoCallType DEF Init, Labels
  <2>6. /\ tripSeen \in [Workers -> TripRow \cup {NoTrip}]
        /\ bookSeen \in [Workers -> BookingRow \cup {NoRow}]
        /\ dirty \in [Workers -> SUBSET (TripColumns \cup BookingColumns)]
    BY DEF Init
  <2> QED
    BY <2>1, <2>2, <2>3, <2>4, <2>5, <2>6 DEF TypeOK, TablesOK, LocalsOK
<1>2. Loaded
  BY DEF Init, Loaded, RequestLabels, BookingLabels, SaveLabels, TripLabels, JoinLabels
<1>3. Reserved
  BY DEF Init, Reserved, RequestLabels
<1> QED
  BY <1>1, <1>2, <1>3 DEF TypeInv

\* A handler moves on, ends, begins, or leaves its locals alone.
LEMMA GoToType ==
  ASSUME LocalsOK, NEW w \in Workers, NEW l \in Labels, GoTo(w, l)
  PROVE  pc' \in [Workers -> Labels]
  BY DEF LocalsOK, GoTo

LEMMA EndType ==
  ASSUME LocalsOK, NEW w \in Workers, End(w)
  PROVE  LocalsOK'
<1>1. "idle" \in Labels
  BY DEF Labels
<1> QED
  BY <1>1, NoCallType, GoToType DEF LocalsOK, End

LEMMA BeginType ==
  ASSUME LocalsOK, NEW w \in Workers, NEW l \in Labels, NEW c \in Calls, Begin(w, l, c)
  PROVE  pc' \in [Workers -> Labels] /\ call' \in [Workers -> Calls]
  BY GoToType DEF LocalsOK, Begin

LEMMA AfterTripSaveType ==
  ASSUME LocalsOK, NEW w \in Workers, AfterTripSave(w)
  PROVE  LocalsOK'
<1>1. "waitlist.find" \in Labels /\ "sweep.find" \in Labels
  BY DEF Labels
<1>2. CASE GoTo(w, "waitlist.find") /\ UNCHANGED locals
  BY <1>1, <1>2, GoToType DEF LocalsOK, locals
<1>3. CASE GoTo(w, "sweep.find") /\ UNCHANGED locals
  BY <1>1, <1>3, GoToType DEF LocalsOK, locals
<1>4. CASE End(w)
  BY <1>4, EndType
<1> QED
  BY <1>2, <1>3, <1>4 DEF AfterTripSave

\* Handlers that touch no row: their step keeps TypeOK when it keeps LocalsOK.
LEMMA TablesKept ==
  ASSUME TablesOK, UNCHANGED <<tables, lock, clock, history>>
  PROVE  TablesOK'
  BY DEF TablesOK, tables, history

\* The steps of the booking handlers keep the types.
LEMMA StartBookingType ==
  ASSUME TypeInv, NEW w \in Workers, StartBooking(w)
  PROVE  TypeOK'
<1> USE DEF TypeInv, TypeOK
<1>1. TablesOK'
  <2>1. UNCHANGED <<tables, lock, clock, history>>
    BY DEF StartBooking, RequestBooking, AcceptBooking, RejectBooking, CancelBooking, SetPaid
  <2> QED
    BY <2>1, TablesKept
<1>2. ASSUME NEW p \in Users, NEW n \in SeatChoices, RequestBooking(w, p, n)
      PROVE  LocalsOK'
  <2>1. PICK b \in FreshIds :
          Begin(w, "request.active", Arguments("request", p, b, n, 0, FALSE))
    BY <1>2 DEF RequestBooking
  <2>2. Arguments("request", p, b, n, 0, FALSE) \in Calls
    <3>1. "request" \in AllOps /\ n \in 1..MaxSeats /\ b \in Bookings
      BY SeatsAssumption DEF AllOps, FreshIds
    <3>2. 0 \in 0..MaxTime
      BY BoundsAssumption
    <3> QED
      BY <3>1, <3>2, StartType
  <2>3. pc' \in [Workers -> Labels] /\ call' \in [Workers -> Calls]
    <3>1. "request.active" \in Labels
      BY DEF Labels
    <3> QED
      BY <2>1, <2>2, <3>1, BeginType
  <2>4. /\ tripSeen' = [tripSeen EXCEPT ![w] = trip]
        /\ UNCHANGED <<bookSeen, dirty>>
    BY <1>2 DEF RequestBooking
  <2> QED
    BY <2>3, <2>4 DEF TablesOK, LocalsOK
<1>3. ASSUME NEW b \in Bookings, NEW c \in Calls, NEW l \in {"accept.lock", "booking.load"},
             NEW r \in BookingRow, Begin(w, l, c),
             bookSeen' = [bookSeen EXCEPT ![w] = r], UNCHANGED <<tripSeen, dirty>>
      PROVE  LocalsOK'
  <2>1. pc' \in [Workers -> Labels] /\ call' \in [Workers -> Calls]
    <3>1. l \in Labels
      BY DEF Labels
    <3> QED
      BY <1>3, <3>1, BeginType
  <2> QED
    BY <1>3, <2>1 DEF LocalsOK
<1>4. ASSUME NEW b \in Bookings, booking[b].status # "NONE"
      PROVE  booking[b] \in BookingRow
  BY <1>4 DEF TablesOK, NoRow
<1>5. ASSUME NEW op \in AllOps, NEW b \in Bookings, NEW freed \in BOOLEAN
      PROVE  OnBooking(op, b) \in Calls /\ Arguments(op, Nobody, b, 0, 0, freed) \in Calls
  <2>1. 0 \in 0..MaxSeats /\ 0 \in 0..MaxTime
    BY SeatsAssumption, BoundsAssumption
  <2> QED
    BY <2>1, ArgumentsType DEF OnBooking
<1>6. ASSUME NEW b \in Bookings, AcceptBooking(w, b) PROVE LocalsOK'
  <2>1. OnBooking("accept", b) \in Calls
    BY <1>5 DEF AllOps
  <2>2. booking[b] \in BookingRow
    BY <1>4, <1>6 DEF AcceptBooking
  <2> QED
    BY <1>3, <1>6, <2>1, <2>2 DEF AcceptBooking
<1>7. ASSUME NEW b \in Bookings, RejectBooking(w, b) PROVE LocalsOK'
  <2>1. OnBooking("reject", b) \in Calls
    BY <1>5 DEF AllOps
  <2>2. [booking[b] EXCEPT !.status = "REJECTED"] \in BookingRow
    BY <1>4, <1>7, BookingStatusType DEF RejectBooking, BookingStatus
  <2> QED
    BY <1>3, <1>7, <2>1, <2>2 DEF RejectBooking
<1>8. ASSUME NEW b \in Bookings, CancelBooking(w, b) PROVE LocalsOK'
  <2>1. Arguments("cancelBooking", Nobody, b, 0, 0, booking[b].status = "CONFIRMED") \in Calls
    BY <1>5 DEF AllOps
  <2>2. [booking[b] EXCEPT !.status = "CANCELLED_BY_PASSENGER"] \in BookingRow
    BY <1>4, <1>8, BookingStatusType DEF CancelBooking, BookingStatus
  <2> QED
    BY <1>3, <1>8, <2>1, <2>2 DEF CancelBooking
<1>9. ASSUME NEW b \in Bookings, NEW paid \in BOOLEAN, SetPaid(w, b, paid) PROVE LocalsOK'
  <2>1. OnBooking("setPaid", b) \in Calls
    BY <1>5 DEF AllOps
  <2>2. [booking[b] EXCEPT !.paid = paid] \in BookingRow
    BY <1>4, <1>9, BookingPaidType DEF SetPaid
  <2> QED
    BY <1>3, <1>9, <2>1, <2>2 DEF SetPaid
<1> QED
  BY <1>1, <1>2, <1>6, <1>7, <1>8, <1>9 DEF StartBooking

LEMMA StartTripType ==
  ASSUME TypeInv, NEW w \in Workers, StartTrip(w)
  PROVE  TypeOK'
<1> USE DEF TypeInv, TypeOK
<1>1. TablesOK'
  <2>1. UNCHANGED <<tables, lock, clock, history>>
    BY DEF StartTrip, UpdateTrip, ConfirmTrip, CancelTrip
  <2> QED
    BY <2>1, TablesKept
<1>2. ASSUME NEW op \in AllOps, NEW t \in TripRow, Begin(w, "trip.load", OnTrip(op)),
             tripSeen' = [tripSeen EXCEPT ![w] = t], UNCHANGED <<bookSeen, dirty>>
      PROVE  LocalsOK'
  <2>1. OnTrip(op) \in Calls
    <3>1. 0 \in 0..MaxSeats /\ 0 \in 0..MaxTime
      BY SeatsAssumption, BoundsAssumption
    <3> QED
      BY <3>1, ArgumentsType DEF OnTrip
  <2>2. "trip.load" \in Labels
    BY DEF Labels
  <2>3. pc' \in [Workers -> Labels] /\ call' \in [Workers -> Calls]
    BY <1>2, <2>1, <2>2, BeginType
  <2> QED
    BY <1>2, <2>3 DEF LocalsOK
<1>3. ASSUME NEW patch \in PatchChoices, UpdateTrip(w, patch) PROVE LocalsOK'
  <2>1. Written(trip, patch, DOMAIN patch) \in TripRow /\ "update" \in AllOps
    BY PatchedType DEF TablesOK, AllOps
  <2> QED
    BY <1>2, <1>3, <2>1 DEF UpdateTrip
<1>4. ASSUME ConfirmTrip(w) PROVE LocalsOK'
  <2>1. [trip EXCEPT !.status = "CONFIRMED"] \in TripRow /\ "confirm" \in AllOps
    BY TripStatusType DEF TablesOK, TripStatus, AllOps
  <2> QED
    BY <1>2, <1>4, <2>1 DEF ConfirmTrip
<1>5. ASSUME CancelTrip(w) PROVE LocalsOK'
  <2>1. [trip EXCEPT !.status = "CANCELLED"] \in TripRow /\ "cancelTrip" \in AllOps
    BY TripStatusType DEF TablesOK, TripStatus, AllOps
  <2> QED
    BY <1>2, <1>5, <2>1 DEF CancelTrip
<1> QED
  BY <1>1, <1>3, <1>4, <1>5 DEF StartTrip

LEMMA SweepType ==
  ASSUME TypeInv, Sweep
  PROVE  TypeOK'
<1> USE DEF TypeInv, TypeOK
<1> DEFINE c == Arguments("sweep", Nobody, NoBooking, 0, clock, FALSE)
<1>1. TablesOK'
  <2>1. UNCHANGED <<tables, lock, clock, history>>
    BY DEF Sweep
  <2> QED
    BY <2>1, TablesKept
<1>2. c \in Calls
  <2>1. "sweep" \in AllOps /\ 0 \in 0..MaxSeats /\ clock \in 0..MaxTime
    BY SeatsAssumption DEF AllOps, TablesOK
  <2> QED
    BY <2>1, ArgumentsType
<1>3. Cron \in Workers /\ "sweep.count" \in Labels /\ "sweep.find" \in Labels
  BY DEF Workers, Labels
<1>4. pc' \in [Workers -> Labels] /\ call' \in [Workers -> Calls]
  BY <1>2, <1>3, BeginType DEF Sweep
<1>5. tripSeen' \in [Workers -> TripRow \cup {NoTrip}] /\ UNCHANGED <<bookSeen, dirty>>
  BY <1>3 DEF Sweep, TablesOK, LocalsOK
<1> QED
  BY <1>1, <1>4, <1>5 DEF LocalsOK

LEMMA StartWaitlistType ==
  ASSUME TypeInv, NEW w \in Workers, StartWaitlist(w)
  PROVE  TypeOK'
<1> USE DEF TypeInv, TypeOK
<1>1. TablesOK'
  <2>1. UNCHANGED <<tables, lock, clock, history>>
    BY DEF StartWaitlist, JoinWaitlist, LeaveWaitlist
  <2> QED
    BY <2>1, TablesKept
<1>2. PICK p \in Users : JoinWaitlist(w, p) \/ LeaveWaitlist(w, p)
  BY DEF StartWaitlist
<1>3. OnWaitlist("join", p) \in Calls /\ OnWaitlist("leave", p) \in Calls
  <2>1. /\ "join" \in AllOps /\ "leave" \in AllOps
        /\ 0 \in 0..MaxSeats /\ 0 \in 0..MaxTime
    BY SeatsAssumption, BoundsAssumption DEF AllOps
  <2> QED
    BY <2>1, ArgumentsType DEF OnWaitlist
<1>4. "join.entry" \in Labels /\ "leave.remove" \in Labels
  BY DEF Labels
<1>5. pc' \in [Workers -> Labels] /\ call' \in [Workers -> Calls]
  BY <1>2, <1>3, <1>4, BeginType DEF JoinWaitlist, LeaveWaitlist
<1>6. UNCHANGED <<tripSeen, bookSeen, dirty>>
  BY <1>2 DEF JoinWaitlist, LeaveWaitlist
<1> QED
  BY <1>1, <1>5, <1>6 DEF LocalsOK

\* A handler that ends, or goes on with the locals it has, keeps their types.
LEMMA MoveType ==
  ASSUME LocalsOK, NEW w \in Workers, NEW l \in Labels,
         End(w) \/ (GoTo(w, l) /\ UNCHANGED locals)
  PROVE  LocalsOK'
  BY EndType, GoToType DEF LocalsOK, locals

\* The steps of the booking service.
LEMMA BookingStepType ==
  ASSUME TypeInv, NEW w \in Workers, BookingStep(w)
  PROVE  TypeOK'
<1> USE DEF TypeInv, TypeOK
<1> DEFINE b == call[w].booking
<1>1. CASE BookingSaveLoad(w)
  <2>1. TablesOK'
    BY <1>1, TablesKept DEF BookingSaveLoad
  <2>2. pc' \in [Workers -> Labels]
    BY <1>1, GoToType DEF BookingSaveLoad, Labels
  <2>3. dirty' \in [Workers -> SUBSET (TripColumns \cup BookingColumns)]
    BY <1>1 DEF BookingSaveLoad, LocalsOK
  <2> QED
    BY <1>1, <2>1, <2>2, <2>3 DEF BookingSaveLoad, LocalsOK
<1>2. CASE BookingSaveUpdate(w)
  <2>1. /\ b \in Bookings
        /\ booking[b] \in BookingRow
        /\ bookSeen[w] \in BookingRow
    BY <1>2 DEF BookingSaveUpdate, Loaded, BookingLabels, SaveLabels
  <2>2. WrittenBooking(booking[b], bookSeen[w], dirty[w]) \in BookingRow
    BY <2>1, WrittenBookingType
  <2>3. booking' \in [Bookings -> BookingRow \cup {NoRow}]
    BY <1>2, <2>1, <2>2 DEF BookingSaveUpdate, TablesOK
  <2>4. owed' \in SUBSET Users
    <3>1. Waiting \subseteq Users
      BY DEF TablesOK, Waiting
    <3> QED
      BY <1>2, <3>1 DEF BookingSaveUpdate, TablesOK
  <2>5. lock' \in Workers \cup {Nobody}
    BY <1>2 DEF BookingSaveUpdate, TablesOK
  <2>6. TablesOK'
    BY <1>2, <2>3, <2>4, <2>5 DEF BookingSaveUpdate, TablesOK
  <2>7. LocalsOK'
    BY <1>2, MoveType DEF BookingSaveUpdate, Labels
  <2> QED
    BY <2>6, <2>7
<1>3. CASE RequestCheckActive(w) \/ RequestCount(w)
  <2>1. TablesOK'
    BY <1>3, TablesKept DEF RequestCheckActive, RequestCount
  <2>2. LocalsOK'
    BY <1>3, MoveType DEF RequestCheckActive, RequestCount, Labels
  <2> QED
    BY <2>1, <2>2
<1>4. CASE RequestInsert(w)
  <2> DEFINE row == [passenger |-> call[w].user, seats |-> call[w].seats,
                     status |-> "PENDING", paid |-> FALSE]
  <2>1. b \in Bookings /\ row \in BookingRow
    BY <1>4 DEF RequestInsert, Loaded, RequestLabels, BookingRow, BookingStatus
  <2>2. booking' \in [Bookings -> BookingRow \cup {NoRow}]
    BY <1>4, <2>1 DEF RequestInsert, TablesOK
  <2>3. TablesOK'
    BY <1>4, <2>2 DEF RequestInsert, TablesOK, history
  <2>4. LocalsOK'
    BY <1>4, EndType DEF RequestInsert
  <2> QED
    BY <2>3, <2>4
<1>5. CASE AcceptLock(w)
  <2>1. TablesOK'
    BY <1>5 DEF AcceptLock, TablesOK, tables, history
  <2>2. CASE End(w)
    BY <2>1, <2>2, EndType
  <2>3. CASE /\ tripSeen' = [tripSeen EXCEPT ![w] = trip]
             /\ GoTo(w, "accept.count")
             /\ UNCHANGED <<call, bookSeen, dirty>>
    <3>1. pc' \in [Workers -> Labels]
      BY <2>3, GoToType DEF Labels
    <3> QED
      BY <2>1, <2>3, <3>1 DEF LocalsOK, TablesOK
  <2> QED
    BY <1>5, <2>2, <2>3 DEF AcceptLock
<1>6. CASE AcceptCount(w)
  <2>1. TablesOK'
    BY <1>6 DEF AcceptCount, TablesOK, tables, history
  <2>2. CASE End(w)
    BY <2>1, <2>2, EndType
  <2>3. CASE /\ bookSeen' = [bookSeen EXCEPT ![w] = [bookSeen[w] EXCEPT !.status = "CONFIRMED"]]
             /\ GoTo(w, "booking.load")
             /\ UNCHANGED <<call, tripSeen, dirty>>
    <3>1. pc' \in [Workers -> Labels]
      BY <2>3, GoToType DEF Labels
    <3>2. [bookSeen[w] EXCEPT !.status = "CONFIRMED"] \in BookingRow
      <4>1. bookSeen[w] \in BookingRow
        BY <1>6 DEF AcceptCount, Loaded, BookingLabels
      <4> QED
        BY <4>1, BookingStatusType DEF BookingStatus
    <3> QED
      BY <2>1, <2>3, <3>1, <3>2 DEF LocalsOK
  <2> QED
    BY <1>6, <2>2, <2>3 DEF AcceptCount
<1> QED
  BY <1>1, <1>2, <1>3, <1>4, <1>5, <1>6 DEF BookingStep

\* The steps of the trip service.
LEMMA TripStepType ==
  ASSUME TypeInv, NEW w \in Workers, TripStep(w)
  PROVE  TypeOK'
<1> USE DEF TypeInv, TypeOK
<1>1. CASE TripSaveLoad(w)
  <2>1. TablesOK'
    BY <1>1, TablesKept DEF TripSaveLoad
  <2>2. pc' \in [Workers -> Labels]
    BY <1>1, GoToType DEF TripSaveLoad, Labels
  <2>3. dirty' \in [Workers -> SUBSET (TripColumns \cup BookingColumns)]
    BY <1>1 DEF TripSaveLoad, LocalsOK
  <2> QED
    BY <1>1, <2>1, <2>2, <2>3 DEF TripSaveLoad, LocalsOK
<1>2. CASE TripSaveUpdate(w)
  <2>1. trip' \in TripRow
    BY <1>2, WrittenType DEF TripSaveUpdate, TablesOK, Loaded, TripLabels
  <2>2. mail' \in [TripEvents -> 0..MailCap]
    BY <1>2, NotifyType DEF TripSaveUpdate, TablesOK
  <2>3. TablesOK'
    BY <1>2, <2>1, <2>2 DEF TripSaveUpdate, TablesOK
  <2>4. LocalsOK'
    BY <1>2, AfterTripSaveType DEF TripSaveUpdate
  <2> QED
    BY <2>3, <2>4
<1>3. CASE RecomputeFind(w)
  <2>1. TablesOK'
    BY <1>3, TablesKept DEF RecomputeFind
  <2>2. pc' \in [Workers -> Labels]
    BY <1>3, GoToType DEF RecomputeFind, Labels
  <2> QED
    BY <1>3, <2>1, <2>2 DEF RecomputeFind, TablesOK, LocalsOK
<1>4. ASSUME NEW t \in TripRow, NEW l \in Labels, GoTo(w, l),
             tripSeen' = [tripSeen EXCEPT ![w] = t], UNCHANGED <<call, bookSeen, dirty>>
      PROVE  LocalsOK'
  BY <1>4, GoToType DEF LocalsOK
<1>5. "trip.load" \in Labels /\ "sweep.find" \in Labels
  BY DEF Labels
<1>6. CASE RecomputeCount(w)
  <2> DEFINE next == DeriveStatus(tripSeen[w], ConfirmedSeats)
  <2>1. TablesOK'
    BY <1>6, TablesKept DEF RecomputeCount
  <2>2. CASE AfterTripSave(w)
    BY <2>1, <2>2, AfterTripSaveType
  <2>3. CASE /\ tripSeen' = [tripSeen EXCEPT ![w] = [tripSeen[w] EXCEPT !.status = next]]
             /\ GoTo(w, "trip.load")
             /\ UNCHANGED <<call, bookSeen, dirty>>
    <3>1. tripSeen[w] \in TripRow
      BY <1>6 DEF RecomputeCount, Loaded, TripLabels
    <3>2. next \in TripStatus
      BY <3>1, DeriveStatusType
    <3>3. [tripSeen[w] EXCEPT !.status = next] \in TripRow
      BY <3>1, <3>2, TripStatusType
    <3> QED
      BY <1>4, <1>5, <2>1, <2>3, <3>3
  <2> QED
    BY <1>6, <2>2, <2>3 DEF RecomputeCount
<1>7. CASE SweepCount(w)
  <2>1. TablesOK'
    BY <1>7, TablesKept DEF SweepCount
  <2>2. CASE UNCHANGED tripSeen /\ GoTo(w, "sweep.find")
    BY <1>5, <1>7, <2>1, <2>2, GoToType DEF SweepCount, LocalsOK
  <2>3. CASE /\ tripSeen' = [tripSeen EXCEPT ![w] = [tripSeen[w] EXCEPT !.status = "CANCELLED"]]
             /\ GoTo(w, "trip.load")
    <3>1. tripSeen[w] \in TripRow
      BY <1>7 DEF SweepCount, Loaded, TripLabels
    <3>2. [tripSeen[w] EXCEPT !.status = "CANCELLED"] \in TripRow
      BY <3>1, TripStatusType DEF TripStatus
    <3> QED
      BY <1>4, <1>5, <1>7, <2>1, <2>3, <3>2 DEF SweepCount
  <2> QED
    BY <1>7, <2>2, <2>3 DEF SweepCount
<1>8. CASE SweepFind(w)
  <2>1. TablesOK'
    BY <1>8, TablesKept DEF SweepFind
  <2>2. CASE End(w)
    BY <2>1, <2>2, EndType
  <2>3. CASE /\ tripSeen' = [tripSeen EXCEPT ![w] = [trip EXCEPT !.status = "COMPLETED"]]
             /\ GoTo(w, "trip.load")
             /\ UNCHANGED <<call, bookSeen, dirty>>
    <3>1. [trip EXCEPT !.status = "COMPLETED"] \in TripRow
      BY TripStatusType DEF TripStatus, TablesOK
    <3> QED
      BY <1>4, <1>5, <2>1, <2>3, <3>1
  <2> QED
    BY <1>8, <2>2, <2>3 DEF SweepFind
<1> QED
  BY <1>1, <1>2, <1>3, <1>6, <1>7, <1>8 DEF TripStep

\* The steps of the waitlist service.
LEMMA WaitlistStepType ==
  ASSUME TypeInv, NEW w \in Workers, WaitlistStep(w)
  PROVE  TypeOK'
<1> USE DEF TypeInv, TypeOK
<1>1. LocalsOK'
  BY MoveType DEF WaitlistStep, JoinCheckEntry, JoinCheckActive, JoinInsert,
                  LeaveRemove, WaitlistNotify, Labels
<1>2. waitlist' \in Seq(Users)
  <2>1. CASE JoinInsert(w)
    <3>1. call[w].user \in Users
      BY <2>1 DEF JoinInsert, Loaded, JoinLabels
    <3> QED
      BY <2>1, <3>1 DEF JoinInsert, TablesOK
  <2>2. CASE LeaveRemove(w)
    <3>1. CASE call[w].user \in Waiting
      <4> DEFINE i == CHOOSE i \in DOMAIN waitlist : waitlist[i] = call[w].user
      <4>1. i \in 1..Len(waitlist)
        BY <3>1 DEF Waiting, TablesOK
      <4>2. RemoveAt(waitlist, i) \in Seq(Users)
        <5> HIDE DEF i
        <5>1. /\ SubSeq(waitlist, 1, i - 1) \in Seq(Users)
              /\ SubSeq(waitlist, i + 1, Len(waitlist)) \in Seq(Users)
          BY <4>1 DEF TablesOK
        <5> QED
          BY <5>1 DEF RemoveAt
      <4> QED
        BY <2>2, <3>1, <4>2 DEF LeaveRemove
    <3> QED
      BY <2>2, <3>1 DEF LeaveRemove, TablesOK
  <2>3. CASE UNCHANGED waitlist
    BY <2>3 DEF TablesOK
  <2> QED
    BY <2>1, <2>2, <2>3 DEF WaitlistStep, JoinCheckEntry, JoinCheckActive, WaitlistNotify, tables
<1>3. owed' \in SUBSET Users
  BY DEF WaitlistStep, JoinCheckEntry, JoinCheckActive, JoinInsert, LeaveRemove,
         WaitlistNotify, history, TablesOK
<1>4. UNCHANGED <<trip, booking, lock, clock, mail>>
  BY DEF WaitlistStep, JoinCheckEntry, JoinCheckActive, JoinInsert, LeaveRemove,
         WaitlistNotify, tables, history
<1> QED
  BY <1>1, <1>2, <1>3, <1>4 DEF TablesOK

\* Every step keeps the types.
LEMMA TypeOKNext ==
  ASSUME TypeInv, [Next]_vars
  PROVE  TypeOK'
<1>1. CASE \E w \in Requests : Start(w)
  <2>1. PICK w \in Workers : Start(w)
    BY <1>1 DEF Workers
  <2> QED
    BY <2>1, StartBookingType, StartTripType, StartWaitlistType DEF Start
<1>2. CASE \E w \in Workers : Step(w)
  BY <1>2, BookingStepType, TripStepType, WaitlistStepType DEF Step
<1>3. CASE Tick
  BY <1>3, BoundsAssumption DEF Tick, TypeInv, TypeOK, TablesOK, LocalsOK, tables, history, locals
<1>4. CASE UNCHANGED vars
  BY <1>4 DEF vars, TypeInv, TypeOK, TablesOK, LocalsOK
<1> QED
  BY <1>1, <1>2, <1>3, <1>4, SweepType DEF Next

\* A stored booking row stays stored.
LEMMA RowsStay ==
  ASSUME TypeInv, TypeOK', NEW w \in Workers, BookingSaveUpdate(w) \/ RequestInsert(w),
         NEW b \in Bookings, booking[b] \in BookingRow
  PROVE  booking'[b] \in BookingRow
<1>1. CASE BookingSaveUpdate(w)
  BY <1>1, WrittenBookingType
     DEF BookingSaveUpdate, TypeInv, TypeOK, TablesOK, Loaded, BookingLabels, SaveLabels
<1>2. CASE RequestInsert(w)
  BY <1>2, NoRowIsNoBookingRow
     DEF RequestInsert, TypeInv, TypeOK, TablesOK, Reserved, RequestLabels
<1> QED
  BY <1>1, <1>2

LEMMA LoadedNext ==
  ASSUME TypeInv, TypeOK', [Next]_vars
  PROVE  Loaded'
<1> USE DEF TypeInv, TypeOK, LocalsOK, TablesOK, Loaded, RequestLabels, BookingLabels,
            SaveLabels, TripLabels, JoinLabels, GoTo, tables, history, locals
<1>1. ASSUME NEW w \in Workers, StartBooking(w) PROVE Loaded'
  <2>1. ASSUME NEW p \in Users, NEW n \in SeatChoices, RequestBooking(w, p, n) PROVE Loaded'
    BY <2>1, SeatsAssumption DEF RequestBooking, Begin, Arguments, FreshIds
  <2>2. ASSUME NEW b \in Bookings, AcceptBooking(w, b) PROVE Loaded'
    BY <2>2 DEF AcceptBooking, Begin, OnBooking, Arguments, NoRow
  <2>3. ASSUME NEW b \in Bookings, RejectBooking(w, b) PROVE Loaded'
    <3>1. booking[b] \in BookingRow
      BY <2>3 DEF RejectBooking, NoRow
    <3>2. [booking[b] EXCEPT !.status = "REJECTED"] \in BookingRow
      BY <3>1, BookingStatusType DEF BookingStatus
    <3> QED
      BY <2>3, <3>1, <3>2 DEF RejectBooking, Begin, OnBooking, Arguments
  <2>4. ASSUME NEW b \in Bookings, CancelBooking(w, b) PROVE Loaded'
    <3>1. booking[b] \in BookingRow
      BY <2>4 DEF CancelBooking, NoRow
    <3>2. [booking[b] EXCEPT !.status = "CANCELLED_BY_PASSENGER"] \in BookingRow
      BY <3>1, BookingStatusType DEF BookingStatus
    <3> QED
      BY <2>4, <3>1, <3>2 DEF CancelBooking, Begin, Arguments
  <2>5. ASSUME NEW b \in Bookings, NEW paid \in BOOLEAN, SetPaid(w, b, paid) PROVE Loaded'
    BY <2>5, BookingPaidType DEF SetPaid, Begin, OnBooking, Arguments, NoRow
  <2> QED
    BY <1>1, <2>1, <2>2, <2>3, <2>4, <2>5 DEF StartBooking
<1>2. ASSUME NEW w \in Workers, StartTrip(w) PROVE Loaded'
  <2>1. ASSUME NEW patch \in PatchChoices, UpdateTrip(w, patch) PROVE Loaded'
    BY <2>1, PatchedType DEF UpdateTrip, Begin, OnTrip, Arguments
  <2>2. CASE ConfirmTrip(w)
    BY <2>2, TripStatusType DEF ConfirmTrip, Begin, OnTrip, Arguments, TripStatus
  <2>3. CASE CancelTrip(w)
    BY <2>3, TripStatusType DEF CancelTrip, Begin, OnTrip, Arguments, TripStatus
  <2> QED
    BY <1>2, <2>1, <2>2, <2>3 DEF StartTrip
<1>3. ASSUME NEW w \in Workers, StartWaitlist(w) PROVE Loaded'
  BY <1>3 DEF StartWaitlist, JoinWaitlist, LeaveWaitlist, Begin, OnWaitlist, Arguments
<1>4. ASSUME Sweep PROVE Loaded'
  BY <1>4 DEF Sweep, Begin, Arguments, Workers
<1>5. ASSUME NEW w \in Workers, BookingStep(w) PROVE Loaded'
  <2>1. CASE BookingSaveLoad(w)
    BY <2>1 DEF BookingSaveLoad
  <2>2. CASE BookingSaveUpdate(w)
    <3>1. \A b \in Bookings : booking[b] \in BookingRow => booking'[b] \in BookingRow
      BY <2>2, RowsStay
    <3>2. (UNCHANGED locals /\ GoTo(w, "recompute.find")) \/ End(w)
      BY <2>2 DEF BookingSaveUpdate
    <3> HIDE DEF TablesOK
    <3> QED
      BY <3>1, <3>2 DEF End
  <2>3. CASE RequestCheckActive(w)
    BY <2>3 DEF RequestCheckActive, End
  <2>4. CASE RequestCount(w)
    BY <2>4 DEF RequestCount, End
  <2>5. CASE RequestInsert(w)
    <3>1. \A b \in Bookings : booking[b] \in BookingRow => booking'[b] \in BookingRow
      BY <2>5, RowsStay
    <3> HIDE DEF TablesOK
    <3> QED
      BY <2>5, <3>1 DEF RequestInsert, End
  <2>6. CASE AcceptLock(w)
    BY <2>6 DEF AcceptLock, End
  <2>7. CASE AcceptCount(w)
    <3>1. [bookSeen[w] EXCEPT !.status = "CONFIRMED"] \in BookingRow
      BY <2>7, BookingStatusType DEF AcceptCount, BookingStatus
    <3> QED
      BY <2>7, <3>1 DEF AcceptCount, End
  <2> QED
    BY <1>5, <2>1, <2>2, <2>3, <2>4, <2>5, <2>6, <2>7 DEF BookingStep
<1>12. ASSUME NEW w \in Workers, NEW t \in TripRow, GoTo(w, "trip.load"),
              tripSeen' = [tripSeen EXCEPT ![w] = t], UNCHANGED <<booking, call, bookSeen>>
       PROVE  Loaded'
  BY <1>12
<1>13. ASSUME NEW w \in Workers, AfterTripSave(w), UNCHANGED booking PROVE Loaded'
  BY <1>13 DEF AfterTripSave, End
<1>6. ASSUME NEW w \in Workers, TripStep(w) PROVE Loaded'
  <2>1. CASE TripSaveLoad(w)
    BY <2>1 DEF TripSaveLoad
  <2>2. CASE TripSaveUpdate(w)
    BY <1>13, <2>2 DEF TripSaveUpdate
  <2>3. CASE RecomputeFind(w)
    BY <2>3 DEF RecomputeFind
  <2>4. CASE RecomputeCount(w)
    <3> DEFINE next == DeriveStatus(tripSeen[w], ConfirmedSeats)
    <3>1. tripSeen[w] \in TripRow /\ next \in TripStatus
      BY <2>4, DeriveStatusType DEF RecomputeCount
    <3>2. [tripSeen[w] EXCEPT !.status = next] \in TripRow
      BY <3>1, TripStatusType
    <3>3. UNCHANGED booking
      BY <2>4 DEF RecomputeCount
    <3>4. \/ AfterTripSave(w)
          \/ /\ tripSeen' = [tripSeen EXCEPT ![w] = [tripSeen[w] EXCEPT !.status = next]]
             /\ GoTo(w, "trip.load")
             /\ UNCHANGED <<call, bookSeen>>
      BY <2>4 DEF RecomputeCount
    <3> HIDE DEF next, Loaded, LocalsOK, TablesOK, GoTo
    <3> QED
      BY <1>12, <1>13, <3>2, <3>3, <3>4
  <2>5. CASE SweepCount(w)
    <3>1. [tripSeen[w] EXCEPT !.status = "CANCELLED"] \in TripRow
      BY <2>5, TripStatusType DEF SweepCount, TripStatus
    <3>2. CASE GoTo(w, "sweep.find") /\ UNCHANGED tripSeen
      BY <2>5, <3>2 DEF SweepCount
    <3>3. CASE /\ tripSeen' = [tripSeen EXCEPT ![w] = [tripSeen[w] EXCEPT !.status = "CANCELLED"]]
               /\ GoTo(w, "trip.load")
      BY <1>12, <2>5, <3>1, <3>3 DEF SweepCount
    <3> QED
      BY <2>5, <3>2, <3>3 DEF SweepCount
  <2>6. CASE SweepFind(w)
    <3>1. [trip EXCEPT !.status = "COMPLETED"] \in TripRow
      BY <2>6, TripStatusType DEF SweepFind, TripStatus
    <3>2. CASE End(w)
      BY <2>6, <3>2 DEF SweepFind, End
    <3>3. CASE /\ tripSeen' = [tripSeen EXCEPT ![w] = [trip EXCEPT !.status = "COMPLETED"]]
               /\ GoTo(w, "trip.load")
               /\ UNCHANGED <<call, bookSeen, dirty>>
      BY <1>12, <2>6, <3>1, <3>3 DEF SweepFind
    <3> QED
      BY <2>6, <3>2, <3>3 DEF SweepFind
  <2> QED
    BY <1>6, <2>1, <2>2, <2>3, <2>4, <2>5, <2>6 DEF TripStep
<1>7. ASSUME NEW w \in Workers, WaitlistStep(w) PROVE Loaded'
  <2> USE DEF End
  <2>1. CASE JoinCheckEntry(w)
    BY <2>1 DEF JoinCheckEntry
  <2>2. CASE JoinCheckActive(w)
    BY <2>2 DEF JoinCheckActive
  <2>3. CASE JoinInsert(w)
    BY <2>3 DEF JoinInsert
  <2>4. CASE LeaveRemove(w)
    BY <2>4 DEF LeaveRemove
  <2>5. CASE WaitlistNotify(w)
    BY <2>5 DEF WaitlistNotify
  <2> QED
    BY <1>7, <2>1, <2>2, <2>3, <2>4, <2>5 DEF WaitlistStep
<1>8. CASE Tick
  BY <1>8 DEF Tick
<1>9. CASE UNCHANGED vars
  BY <1>9 DEF vars
<1>10. CASE \E w \in Requests : Start(w)
  BY <1>1, <1>2, <1>3, <1>10 DEF Start, Workers
<1>11. CASE \E w \in Workers : Step(w)
  BY <1>5, <1>6, <1>7, <1>11 DEF Step
<1> QED
  BY <1>4, <1>8, <1>9, <1>10, <1>11 DEF Next

LEMMA ReservedNext ==
  ASSUME TypeInv, TypeOK', [Next]_vars
  PROVE  Reserved'
<1> USE DEF TypeInv, TypeOK, LocalsOK, TablesOK, Reserved, RequestLabels,
            GoTo, tables, history, locals
<1>0. ASSUME NEW w \in Workers, NEW l \in Labels \ RequestLabels, NEW c,
             Begin(w, l, c), UNCHANGED booking,
             c.booking \notin Bookings \/ booking[c.booking].status # "NONE"
      PROVE  Reserved'
  <2>1. SUFFICES ASSUME NEW v \in Workers, pc'[v] \in RequestLabels
                 PROVE  /\ booking'[call'[v].booking] = NoRow
                        /\ \A u \in Workers \ {v} : call'[u].booking # call'[v].booking
    OBVIOUS
  <2>2. v # w /\ pc[v] \in RequestLabels /\ call'[v] = call[v]
    BY <1>0, <2>1 DEF Begin
  <2>3. call[v].booking \in Bookings /\ booking[call[v].booking] = NoRow
    BY <2>2 DEF Loaded
  <2>4. c.booking # call[v].booking
    BY <1>0, <2>3 DEF NoRow
  <2>5. \A u \in Workers \ {v} : call'[u] = IF u = w THEN c ELSE call[u]
    BY <1>0 DEF Begin
  <2> QED
    <3>1. booking'[call'[v].booking] = NoRow
      BY <1>0, <2>2, <2>3
    <3>2. ASSUME NEW u \in Workers \ {v} PROVE call'[u].booking # call'[v].booking
      <4>1. CASE u = w
        BY <2>2, <2>4, <2>5, <4>1
      <4>2. CASE u # w
        BY <2>2, <2>5, <4>2
      <4> QED
        BY <4>1, <4>2
    <3> QED
      BY <3>1, <3>2
<1>1. ASSUME NEW w \in Workers, StartBooking(w) PROVE Reserved'
  <2> USE DEF Arguments
  <2>1. ASSUME NEW p \in Users, NEW n \in SeatChoices, RequestBooking(w, p, n) PROVE Reserved'
    <3>1. PICK b \in FreshIds :
            Begin(w, "request.active", Arguments("request", p, b, n, 0, FALSE))
      BY <2>1 DEF RequestBooking
    <3>2. booking[b] = NoRow
      BY <3>1, NoRowIsNoBookingRow DEF FreshIds, BookingRow, BookingStatus
    <3>3. /\ pc' = [pc EXCEPT ![w] = "request.active"]
          /\ call' = [call EXCEPT ![w] = Arguments("request", p, b, n, 0, FALSE)]
      BY <3>1 DEF Begin
    <3>4. \A v \in Workers : call[v].booking # b
      BY <3>1 DEF FreshIds
    <3> QED
      BY <2>1, <3>2, <3>3, <3>4 DEF RequestBooking
  <2>2. "accept.lock" \in Labels \ RequestLabels /\ "booking.load" \in Labels \ RequestLabels
    BY DEF Labels
  <2>3. ASSUME NEW b \in Bookings, AcceptBooking(w, b) PROVE Reserved'
    BY <1>0, <2>2, <2>3 DEF AcceptBooking, OnBooking
  <2>4. ASSUME NEW b \in Bookings, RejectBooking(w, b) PROVE Reserved'
    BY <1>0, <2>2, <2>4 DEF RejectBooking, OnBooking
  <2>5. ASSUME NEW b \in Bookings, CancelBooking(w, b) PROVE Reserved'
    BY <1>0, <2>2, <2>5 DEF CancelBooking
  <2>6. ASSUME NEW b \in Bookings, NEW paid \in BOOLEAN, SetPaid(w, b, paid) PROVE Reserved'
    BY <1>0, <2>2, <2>6 DEF SetPaid, OnBooking
  <2> QED
    BY <1>1, <2>1, <2>3, <2>4, <2>5, <2>6 DEF StartBooking
\* The other handlers have no booking id in their arguments.
<1>2. ASSUME NEW w \in Workers, StartTrip(w) \/ StartWaitlist(w) PROVE Reserved'
  <2>1. PICK l \in {"trip.load", "join.entry", "leave.remove"},
             c \in {OnTrip(op) : op \in AllOps}
                     \cup {OnWaitlist(op, p) : op \in AllOps, p \in Users} :
          Begin(w, l, c)
    <3>1. ASSUME StartTrip(w) PROVE \E op \in AllOps : Begin(w, "trip.load", OnTrip(op))
      BY <3>1 DEF StartTrip, UpdateTrip, ConfirmTrip, CancelTrip, AllOps
    <3>2. ASSUME StartWaitlist(w)
          PROVE  \E p \in Users : \/ Begin(w, "join.entry", OnWaitlist("join", p))
                                  \/ Begin(w, "leave.remove", OnWaitlist("leave", p))
      BY <3>2 DEF StartWaitlist, JoinWaitlist, LeaveWaitlist
    <3>3. "join" \in AllOps /\ "leave" \in AllOps
      BY DEF AllOps
    <3> QED
      BY <1>2, <3>1, <3>2, <3>3
  <2>2. UNCHANGED booking
    BY <1>2 DEF StartTrip, UpdateTrip, ConfirmTrip, CancelTrip,
                StartWaitlist, JoinWaitlist, LeaveWaitlist
  <2>3. c.booking \notin Bookings /\ l \in Labels \ RequestLabels
    BY BookingsAssumption DEF OnTrip, OnWaitlist, Arguments, Labels
  <2> QED
    BY <1>0, <2>1, <2>2, <2>3
<1>3. ASSUME Sweep PROVE Reserved'
  BY <1>3, BookingsAssumption DEF Sweep, Begin, Arguments, Workers, Loaded
<1>4. ASSUME NEW w \in Workers, UNCHANGED booking, End(w) PROVE Reserved'
  BY <1>4, BookingsAssumption DEF End, NoCall, Arguments, Loaded
<1>5. ASSUME NEW w \in Workers, NEW l, UNCHANGED <<booking, call>>, GoTo(w, l),
             l \notin RequestLabels \/ pc[w] \in RequestLabels
      PROVE  Reserved'
  BY <1>5
<1>6. ASSUME NEW w \in Workers, BookingStep(w) PROVE Reserved'
  <2>1. CASE BookingSaveUpdate(w)
    <3>1. \A v \in Workers : pc[v] \in RequestLabels => call[w].booking # call[v].booking
      BY <2>1 DEF BookingSaveUpdate
    <3>2. \A v \in Workers : pc[v] \in RequestLabels
            => booking'[call[v].booking] = booking[call[v].booking]
      BY <2>1, <3>1 DEF BookingSaveUpdate, Loaded
    <3>3. (UNCHANGED call /\ GoTo(w, "recompute.find")) \/ End(w)
      BY <2>1 DEF BookingSaveUpdate
    <3>4. CASE UNCHANGED call /\ GoTo(w, "recompute.find")
      BY <3>2, <3>4
    <3>5. CASE End(w)
      BY <3>2, <3>5, BookingsAssumption DEF End, NoCall, Arguments, Loaded
    <3> QED
      BY <3>3, <3>4, <3>5
  <2>2. CASE RequestInsert(w)
    <3>1. \A v \in Workers \ {w} : pc[v] \in RequestLabels
            => booking'[call[v].booking] = booking[call[v].booking]
      BY <2>2 DEF RequestInsert, Loaded
    <3> QED
      BY <2>2, <3>1, BookingsAssumption DEF RequestInsert, End, NoCall, Arguments, Loaded
  <2>3. CASE BookingSaveLoad(w) \/ RequestCheckActive(w) \/ RequestCount(w)
             \/ AcceptLock(w) \/ AcceptCount(w)
    BY <1>4, <1>5, <2>3
       DEF BookingSaveLoad, RequestCheckActive, RequestCount, AcceptLock, AcceptCount
  <2> QED
    BY <1>6, <2>1, <2>2, <2>3 DEF BookingStep
<1>7. ASSUME NEW w \in Workers, TripStep(w) PROVE Reserved'
  BY <1>4, <1>5, <1>7
     DEF TripStep, TripSaveLoad, TripSaveUpdate, RecomputeFind, RecomputeCount,
         SweepCount, SweepFind, AfterTripSave
<1>8. ASSUME NEW w \in Workers, WaitlistStep(w) PROVE Reserved'
  BY <1>4, <1>5, <1>8
     DEF WaitlistStep, JoinCheckEntry, JoinCheckActive, JoinInsert, LeaveRemove, WaitlistNotify
<1>9. CASE Tick
  BY <1>9 DEF Tick
<1>10. CASE UNCHANGED vars
  BY <1>10 DEF vars
<1>11. CASE \E w \in Requests : Start(w)
  BY <1>1, <1>2, <1>11 DEF Start, Workers
<1>12. CASE \E w \in Workers : Step(w)
  BY <1>6, <1>7, <1>8, <1>12 DEF Step
<1> QED
  BY <1>3, <1>9, <1>10, <1>11, <1>12 DEF Next

LEMMA TypeInvNext == TypeInv /\ [Next]_vars => TypeInv'
  BY TypeOKNext, LoadedNext, ReservedNext DEF TypeInv

\* In every behaviour the rows of the three tables, and the entities and
\* arguments of the handlers, have their declared types, a handler holds the
\* rows it is about to save, and no two requests insert the same row.
THEOREM TypeInvCorrect == Spec => []TypeInv
  BY TypeInvInit, TypeInvNext, PTL DEF Spec

\* Type correctness of the trip core.
THEOREM TypeCorrect == Spec => []TypeOK
<1>1. TypeInv => TypeOK
  BY DEF TypeInv
<1> QED
  BY <1>1, TypeInvCorrect, PTL

-----------------------------------------------------------------------------
(* Counting seats *)

LEMMA SeatsFinite ==
  ASSUME NEW rows
  PROVE  /\ IsFiniteSet(SeatPairs(rows))
         /\ SeatsTaken(rows) \in Nat
<1>1. IsFiniteSet(1..MaxSeats)
  BY FS_Interval, SeatsAssumption
<1>2. IsFiniteSet(Bookings \X (1..MaxSeats))
  BY <1>1, FS_Product, BookingsAssumption
<1>3. SeatPairs(rows) \in SUBSET (Bookings \X (1..MaxSeats))
  BY DEF SeatPairs
<1>4. IsFiniteSet(SeatPairs(rows))
  BY <1>2, <1>3, FS_Subset
<1> QED
  BY <1>4, FS_CardinalityType DEF SeatsTaken

\* Where fewer bookings are confirmed, no more seats are taken.
LEMMA SeatsShrink ==
  ASSUME NEW old, NEW new,
         \A b \in Bookings : new[b].status = "CONFIRMED"
           => old[b].status = "CONFIRMED" /\ new[b].seats = old[b].seats
  PROVE  SeatsTaken(new) <= SeatsTaken(old)
<1>1. SeatPairs(new) \in SUBSET SeatPairs(old)
  BY DEF SeatPairs
<1> QED
  BY <1>1, SeatsFinite, FS_Subset DEF SeatsTaken

\* A booking that is confirmed for n seats takes at most n more.
LEMMA SeatsGrow ==
  ASSUME NEW old, NEW new, NEW b \in Bookings, NEW n \in 1..MaxSeats,
         new[b].seats = n,
         \A a \in Bookings \ {b} : new[a] = old[a]
  PROVE  SeatsTaken(new) <= SeatsTaken(old) + n
<1> DEFINE own == {b} \X (1..n)
<1>1. IsFiniteSet(own) /\ Cardinality(own) = n
  <2>1. IsFiniteSet(1..n) /\ Cardinality(1..n) = n
    BY FS_Interval, SeatsAssumption
  <2>2. IsFiniteSet({b}) /\ Cardinality({b}) = 1
    BY FS_Singleton
  <2>3. IsFiniteSet(own) /\ Cardinality(own) = Cardinality({b}) * Cardinality(1..n)
    BY <2>1, <2>2, FS_Product
  <2> QED
    BY <2>1, <2>2, <2>3, SeatsAssumption
<1>2. SeatPairs(new) \in SUBSET (SeatPairs(old) \cup own)
  <2>1. ASSUME NEW u \in SeatPairs(new) PROVE u \in SeatPairs(old) \cup own
    <3>1. u \in Bookings \X (1..MaxSeats) /\ new[u[1]].status = "CONFIRMED" /\ u[2] <= new[u[1]].seats
      BY <2>1 DEF SeatPairs
    <3>2. CASE u[1] = b
      BY <3>1, <3>2, SeatsAssumption
    <3>3. CASE u[1] # b
      BY <3>1, <3>3 DEF SeatPairs
    <3> QED
      BY <3>2, <3>3
  <2> QED
    BY <2>1
<1> HIDE DEF own
<1>3. /\ IsFiniteSet(SeatPairs(old) \cup own)
      /\ Cardinality(SeatPairs(old) \cup own)
           = SeatsTaken(old) + n - Cardinality(SeatPairs(old) \cap own)
  BY <1>1, SeatsFinite, FS_Union DEF SeatsTaken
<1>4. Cardinality(SeatPairs(old) \cap own) \in Nat
  <2>1. IsFiniteSet(SeatPairs(old) \cap own)
    BY <1>1, FS_Subset
  <2> QED
    BY <2>1, FS_CardinalityType
<1>5. SeatsTaken(new) <= Cardinality(SeatPairs(old) \cup own)
  BY <1>2, <1>3, FS_Subset DEF SeatsTaken
<1> QED
  BY <1>3, <1>4, <1>5, SeatsFinite, SeatsAssumption

-----------------------------------------------------------------------------
(* The lock *)

LEMMA LockHeldNext ==
  ASSUME TypeInv, LockHeld, [Next]_vars
  PROVE  LockHeld'
<1> USE DEF TypeInv, TypeOK, LocalsOK, TablesOK, LockHeld, HoldsLock, SaveLabels,
            GoTo, tables, history, locals
\* The worker that moves is the only one whose claim to the lock can change.
<1>1. ASSUME NEW w \in Workers, NEW l \in Labels, NEW c, Begin(w, l, c), UNCHANGED lock,
             l # "accept.count", c.op # "accept" \/ l \notin SaveLabels
      PROVE  LockHeld'
  BY <1>1 DEF Begin
<1>2. ASSUME NEW w \in Workers, UNCHANGED lock, End(w), ~HoldsLock(w) PROVE LockHeld'
  BY <1>2 DEF End
<1>3. ASSUME NEW w \in Workers, NEW l \in Labels, UNCHANGED <<lock, call>>, GoTo(w, l),
             HoldsLock(w) <=> (l = "accept.count" \/ (call[w].op = "accept" /\ l \in SaveLabels))
      PROVE  LockHeld'
  BY <1>3
<1>4. ASSUME NEW w \in Workers, StartBooking(w) PROVE LockHeld'
  <2>1. \E l \in {"request.active", "accept.lock", "booking.load"} : \E c :
          /\ Begin(w, l, c)
          /\ c.op # "accept" \/ l # "booking.load"
    <3>1. ASSUME NEW p \in Users, NEW n \in SeatChoices, RequestBooking(w, p, n)
          PROVE  \E c : Begin(w, "request.active", c)
      BY <3>1 DEF RequestBooking
    <3>2. ASSUME NEW b \in Bookings, AcceptBooking(w, b)
          PROVE  \E c : Begin(w, "accept.lock", c)
      BY <3>2 DEF AcceptBooking
    <3>3. ASSUME NEW b \in Bookings, NEW paid \in BOOLEAN,
                 RejectBooking(w, b) \/ CancelBooking(w, b) \/ SetPaid(w, b, paid)
          PROVE  \E c : Begin(w, "booking.load", c) /\ c.op # "accept"
      BY <3>3 DEF RejectBooking, CancelBooking, SetPaid, OnBooking, Arguments
    <3> QED
      BY <1>4, <3>1, <3>2, <3>3 DEF StartBooking
  <2>2. UNCHANGED lock
    BY <1>4 DEF StartBooking, RequestBooking, AcceptBooking, RejectBooking, CancelBooking, SetPaid
  <2> QED
    BY <1>1, <2>1, <2>2 DEF Labels
<1>5. ASSUME NEW w \in Workers, StartTrip(w) \/ StartWaitlist(w) PROVE LockHeld'
  <2>1. \E l \in {"trip.load", "join.entry", "leave.remove"} : \E c : Begin(w, l, c)
    BY <1>5 DEF StartTrip, UpdateTrip, ConfirmTrip, CancelTrip,
                StartWaitlist, JoinWaitlist, LeaveWaitlist
  <2>2. UNCHANGED lock
    BY <1>5 DEF StartTrip, UpdateTrip, ConfirmTrip, CancelTrip,
                StartWaitlist, JoinWaitlist, LeaveWaitlist
  <2> QED
    BY <1>1, <2>1, <2>2 DEF Labels
<1>6. ASSUME Sweep PROVE LockHeld'
  <2>1. \E l \in {"sweep.count", "sweep.find"} : \E c : Begin(Cron, l, c)
    BY <1>6 DEF Sweep
  <2>2. UNCHANGED lock /\ Cron \in Workers
    BY <1>6 DEF Sweep, Workers
  <2> QED
    BY <1>1, <2>1, <2>2 DEF Labels
<1>7. ASSUME NEW w \in Workers, BookingStep(w) PROVE LockHeld'
  <2>1. CASE BookingSaveLoad(w)
    BY <1>3, <2>1 DEF BookingSaveLoad, Labels
  <2>2. CASE BookingSaveUpdate(w)
    <3>1. pc' = [pc EXCEPT ![w] = "recompute.find"] \/ pc' = [pc EXCEPT ![w] = "idle"]
      BY <2>2 DEF BookingSaveUpdate, End
    <3>2. \A v \in Workers \ {w} : call'[v] = call[v]
      BY <2>2 DEF BookingSaveUpdate, End
    <3>3. lock' = IF lock = w THEN Nobody ELSE lock
      BY <2>2 DEF BookingSaveUpdate
    <3> QED
      BY <3>1, <3>2, <3>3, UsersAssumption
  <2>3. CASE RequestCheckActive(w) \/ RequestCount(w)
    BY <1>2, <1>3, <2>3 DEF RequestCheckActive, RequestCount, Labels
  <2>4. CASE RequestInsert(w)
    BY <1>2, <2>4 DEF RequestInsert
  <2>5. CASE AcceptLock(w)
    <3>1. CASE End(w) /\ UNCHANGED lock
      BY <1>2, <2>5, <3>1 DEF AcceptLock
    <3>2. CASE lock' = w /\ GoTo(w, "accept.count") /\ UNCHANGED call
      <4>1. \A v \in Workers : ~HoldsLock(v)
        BY <2>5, UsersAssumption DEF AcceptLock, TripRowFree
      <4> QED
        BY <3>2, <4>1
    <3> QED
      BY <2>5, <3>1, <3>2 DEF AcceptLock
  <2>6. CASE AcceptCount(w)
    <3>1. CASE End(w) /\ lock' = Nobody
      <4>1. lock = w
        BY <2>6 DEF AcceptCount
      <4> QED
        BY <3>1, <4>1, UsersAssumption DEF End
    <3>2. CASE GoTo(w, "booking.load") /\ UNCHANGED <<lock, call>>
      <4>1. HoldsLock(w) /\ call[w].op = "accept"
        BY <2>6 DEF AcceptCount, Loaded
      <4> QED
        BY <1>3, <3>2, <4>1 DEF Labels
    <3> QED
      BY <2>6, <3>1, <3>2 DEF AcceptCount
  <2> QED
    BY <1>7, <2>1, <2>2, <2>3, <2>4, <2>5, <2>6 DEF BookingStep
<1>8. ASSUME NEW w \in Workers, TripStep(w) PROVE LockHeld'
  BY <1>2, <1>3, <1>8
     DEF TripStep, TripSaveLoad, TripSaveUpdate, RecomputeFind, RecomputeCount,
         SweepCount, SweepFind, AfterTripSave, Labels
<1>9. ASSUME NEW w \in Workers, WaitlistStep(w) PROVE LockHeld'
  BY <1>2, <1>3, <1>9
     DEF WaitlistStep, JoinCheckEntry, JoinCheckActive, JoinInsert, LeaveRemove,
         WaitlistNotify, Labels
<1>10. CASE Tick
  BY <1>10 DEF Tick
<1>11. CASE UNCHANGED vars
  BY <1>11 DEF vars
<1>12. CASE \E w \in Requests : Start(w)
  BY <1>4, <1>5, <1>12 DEF Start, Workers
<1>13. CASE \E w \in Workers : Step(w)
  BY <1>7, <1>8, <1>9, <1>13 DEF Step
<1> QED
  BY <1>6, <1>10, <1>11, <1>12, <1>13 DEF Next

-----------------------------------------------------------------------------
(* Who changes what *)

\* A step of one handler leaves the locals of the others alone.
LEMMA OthersAlone ==
  ASSUME LocalsOK, NEW w \in Workers, Start(w) \/ Step(w) \/ (w = Cron /\ Sweep),
         NEW v \in Workers \ {w}
  PROVE  /\ pc'[v] = pc[v]
         /\ call'[v] = call[v]
         /\ tripSeen'[v] = tripSeen[v]
         /\ bookSeen'[v] = bookSeen[v]
         /\ dirty'[v] = dirty[v]
<1> USE DEF GoTo, Begin, End, locals, LocalsOK
<1>1. CASE Start(w)
  <2>1. CASE StartBooking(w)
    BY <2>1 DEF StartBooking, RequestBooking, AcceptBooking, RejectBooking, CancelBooking, SetPaid
  <2>2. CASE StartTrip(w)
    BY <2>2 DEF StartTrip, UpdateTrip, ConfirmTrip, CancelTrip
  <2>3. CASE StartWaitlist(w)
    BY <2>3 DEF StartWaitlist, JoinWaitlist, LeaveWaitlist
  <2> QED
    BY <1>1, <2>1, <2>2, <2>3 DEF Start
<1>2. CASE BookingStep(w)
  BY <1>2 DEF BookingStep, BookingSaveLoad, BookingSaveUpdate, RequestCheckActive, RequestCount,
              RequestInsert, AcceptLock, AcceptCount
<1>3. CASE TripStep(w)
  BY <1>3 DEF TripStep, TripSaveLoad, TripSaveUpdate, RecomputeFind, RecomputeCount, SweepCount,
              SweepFind, AfterTripSave
<1>4. CASE WaitlistStep(w)
  BY <1>4 DEF WaitlistStep, JoinCheckEntry, JoinCheckActive, JoinInsert, LeaveRemove, WaitlistNotify
<1>5. CASE w = Cron /\ Sweep
  BY <1>5 DEF Sweep
<1> QED
  BY <1>1, <1>2, <1>3, <1>4, <1>5 DEF Step

\* Every step is one worker's, or time passing, or none.
LEMMA OneWorker ==
  ASSUME [Next]_vars
  PROVE  \/ \E w \in Workers : Start(w) \/ Step(w) \/ (w = Cron /\ Sweep)
         \/ UNCHANGED <<tables, lock, pc, locals, history>>
  BY DEF Next, Workers, Tick, vars, tables, locals, history

\* Booking rows change in two places, the trip row in one.
LEMMA Writers ==
  ASSUME [Next]_vars
  PROVE  /\ \/ UNCHANGED booking
            \/ \E w \in Workers : BookingSaveUpdate(w) \/ RequestInsert(w)
         /\ UNCHANGED trip \/ \E w \in Workers : TripSaveUpdate(w)
<1> USE DEF tables
<1>1. ASSUME NEW w \in Workers, Start(w) PROVE UNCHANGED tables
  <2>1. CASE StartBooking(w)
    BY <2>1 DEF StartBooking, RequestBooking, AcceptBooking, RejectBooking, CancelBooking, SetPaid
  <2>2. CASE StartTrip(w)
    BY <2>2 DEF StartTrip, UpdateTrip, ConfirmTrip, CancelTrip
  <2>3. CASE StartWaitlist(w)
    BY <2>3 DEF StartWaitlist, JoinWaitlist, LeaveWaitlist
  <2> QED
    BY <1>1, <2>1, <2>2, <2>3 DEF Start
<1>2. ASSUME NEW w \in Workers, BookingStep(w)
      PROVE  UNCHANGED trip /\ (UNCHANGED booking \/ BookingSaveUpdate(w) \/ RequestInsert(w))
  BY <1>2 DEF BookingStep, BookingSaveLoad, BookingSaveUpdate, RequestCheckActive, RequestCount,
              RequestInsert, AcceptLock, AcceptCount
<1>3. ASSUME NEW w \in Workers, TripStep(w)
      PROVE  UNCHANGED booking /\ (UNCHANGED trip \/ TripSaveUpdate(w))
  BY <1>3 DEF TripStep, TripSaveLoad, TripSaveUpdate, RecomputeFind, RecomputeCount,
              SweepCount, SweepFind
<1>4. ASSUME NEW w \in Workers, WaitlistStep(w) PROVE UNCHANGED <<trip, booking>>
  BY <1>4 DEF WaitlistStep, JoinCheckEntry, JoinCheckActive, JoinInsert, LeaveRemove, WaitlistNotify
<1>5. Sweep \/ Tick \/ UNCHANGED vars => UNCHANGED tables
  BY DEF Sweep, Tick, vars
<1>6. CASE \E w \in Requests : Start(w)
  BY <1>1, <1>6 DEF Workers
<1>7. CASE \E w \in Workers : Step(w)
  BY <1>2, <1>3, <1>4, <1>7 DEF Step
<1> QED
  BY <1>5, <1>6, <1>7 DEF Next

\* Nobody writes the capacity.
LEMMA CapacityFixed ==
  ASSUME TypeInv, SameCapacity, [Next]_vars
  PROVE  trip'.max = trip.max
<1>1. ASSUME NEW w \in Workers, TripSaveUpdate(w) PROVE trip'.max = trip.max
  BY <1>1 DEF TripSaveUpdate, SameCapacity, Written
<1>2. CASE UNCHANGED trip
  BY <1>2
<1> QED
  BY <1>1, <1>2, Writers

LEMMA NoTripIsNoTripRow == NoTrip \notin TripRow
  BY DEF NoTrip, TripRow, TripStatus

LEMMA SameCapacityNext ==
  ASSUME TypeInv, SameCapacity, "update" \notin Ops, [Next]_vars
  PROVE  SameCapacity'
<1> DEFINE Same(w) == /\ tripSeen'[w] \in TripRow => tripSeen'[w].max = trip.max
                      /\ pc'[w] = "trip.update" => "max" \notin dirty'[w]
<1> USE NoTripIsNoTripRow DEF TypeInv, TypeOK, LocalsOK, TablesOK, SameCapacity, GoTo, locals
<1>1. ASSUME NEW w \in Workers, Start(w) PROVE Same(w)
  <2>1. ~\E patch \in PatchChoices : UpdateTrip(w, patch)
    BY DEF UpdateTrip, Begin, OnTrip, Arguments
  <2>2. pc'[w] # "trip.update"
    BY <1>1 DEF Start, StartBooking, RequestBooking, AcceptBooking, RejectBooking, CancelBooking,
                SetPaid, StartTrip, UpdateTrip, ConfirmTrip, CancelTrip,
                StartWaitlist, JoinWaitlist, LeaveWaitlist, Begin
  <2>3. CASE StartBooking(w) \/ StartWaitlist(w)
    BY <2>2, <2>3 DEF StartBooking, RequestBooking, AcceptBooking, RejectBooking, CancelBooking,
                      SetPaid, StartWaitlist, JoinWaitlist, LeaveWaitlist
  <2>4. CASE ConfirmTrip(w)
    BY <2>2, <2>4 DEF ConfirmTrip, TripRow
  <2>5. CASE CancelTrip(w)
    BY <2>2, <2>5 DEF CancelTrip, TripRow
  <2> QED
    BY <1>1, <2>1, <2>3, <2>4, <2>5 DEF Start, StartTrip
<1>2. ASSUME NEW w \in Workers, w = Cron, Sweep PROVE Same(w)
  BY <1>2 DEF Sweep, Begin
<1>3. ASSUME NEW w \in Workers, End(w) PROVE Same(w)
  BY <1>3 DEF End
<1>4. ASSUME NEW w \in Workers, NEW l \in Labels \ {"trip.update"}, GoTo(w, l), UNCHANGED tripSeen
      PROVE  Same(w)
  BY <1>4
<1>5. ASSUME NEW w \in Workers, BookingStep(w) PROVE Same(w)
  <2>1. CASE AcceptLock(w)
    BY <1>3, <2>1 DEF AcceptLock
  <2> QED
    BY <1>3, <1>4, <1>5, <2>1
       DEF BookingStep, BookingSaveLoad, BookingSaveUpdate, RequestCheckActive, RequestCount,
           RequestInsert, AcceptCount, Labels
<1>6. ASSUME NEW w \in Workers, AfterTripSave(w) PROVE Same(w)
  BY <1>3, <1>4, <1>6 DEF AfterTripSave, Labels
<1>7. ASSUME NEW w \in Workers, TripStep(w) PROVE Same(w)
  <2>1. CASE TripSaveLoad(w)
    <3>1. tripSeen[w].max = trip.max
      BY <2>1 DEF TripSaveLoad, Loaded, TripLabels
    <3>2. "max" \notin dirty'[w]
      <4> DEFINE changed == {c \in TripColumns : tripSeen[w][c] # trip[c]}
      <4>1. dirty'[w] = changed
        BY <2>1 DEF TripSaveLoad
      <4>2. "max" \notin changed
        BY <2>1, <3>1 DEF TripSaveLoad, Loaded, TripLabels, TripRow
      <4> QED
        BY <4>1, <4>2
    <3>3. UNCHANGED tripSeen
      BY <2>1 DEF TripSaveLoad
    <3> QED
      BY <3>1, <3>2, <3>3
  <2>2. CASE RecomputeFind(w)
    BY <2>2 DEF RecomputeFind
  <2>3. CASE RecomputeCount(w)
    <3>1. tripSeen[w] \in TripRow
      BY <2>3 DEF RecomputeCount, Loaded, TripLabels
    <3> DEFINE row == [tripSeen[w] EXCEPT !.status = DeriveStatus(tripSeen[w], ConfirmedSeats)]
    <3>2. row.max = tripSeen[w].max
      BY <3>1 DEF TripRow
    <3>3. CASE tripSeen' = [tripSeen EXCEPT ![w] = row] /\ GoTo(w, "trip.load")
      <4>1. tripSeen'[w] = row
        BY <3>3
      <4> HIDE DEF row
      <4> QED
        BY <3>1, <3>2, <3>3, <4>1
    <3> QED
      BY <1>6, <2>3, <3>3 DEF RecomputeCount
  <2>4. CASE SweepCount(w)
    <3>1. tripSeen[w] \in TripRow
      BY <2>4 DEF SweepCount, Loaded, TripLabels
    <3>2. [tripSeen[w] EXCEPT !.status = "CANCELLED"].max = tripSeen[w].max
      BY <3>1 DEF TripRow
    <3> QED
      BY <2>4, <3>1, <3>2 DEF SweepCount
  <2>5. CASE SweepFind(w)
    <3>1. [trip EXCEPT !.status = "COMPLETED"].max = trip.max
      BY DEF TripRow
    <3> QED
      BY <1>3, <2>5, <3>1 DEF SweepFind
  <2> QED
    BY <1>6, <1>7, <2>1, <2>2, <2>3, <2>4, <2>5 DEF TripStep, TripSaveUpdate
<1>8. ASSUME NEW w \in Workers, WaitlistStep(w) PROVE Same(w)
  BY <1>3, <1>4, <1>8
     DEF WaitlistStep, JoinCheckEntry, JoinCheckActive, JoinInsert, LeaveRemove,
         WaitlistNotify, Labels
<1>9. ASSUME NEW w \in Workers, Start(w) \/ Step(w) \/ (w = Cron /\ Sweep) PROVE SameCapacity'
  <2>1. Same(w)
    BY <1>1, <1>2, <1>5, <1>7, <1>8, <1>9 DEF Step
  <2>2. \A v \in Workers \ {w} : /\ pc'[v] = pc[v]
                                 /\ tripSeen'[v] = tripSeen[v]
                                 /\ dirty'[v] = dirty[v]
    BY <1>9, OthersAlone
  <2>3. trip'.max = trip.max
    BY CapacityFixed
  <2> QED
    BY <2>1, <2>2, <2>3
<1> QED
  BY <1>9, OneWorker DEF tables

-----------------------------------------------------------------------------
(* What is about to be saved *)

LEMMA DecidedNext ==
  ASSUME TypeInv, TypeOK', Decided, "setPaid" \notin Ops, [Next]_vars
  PROVE  Decided'
<1> DEFINE Fits(w) ==
      /\ pc'[w] \in BookingLabels =>
           bookSeen'[w].seats = booking'[call'[w].booking].seats
      /\ pc'[w] \in SaveLabels =>
           (bookSeen'[w].status = "CONFIRMED" <=> call'[w].op = "accept")
<1> USE DEF TypeInv, TypeOK, LocalsOK, TablesOK, Decided, BookingLabels, SaveLabels, GoTo, locals, tables
<1>1. ASSUME NEW w \in Workers, StartBooking(w) PROVE Fits(w)
  <2> USE DEF Begin
  <2>1. ASSUME NEW b \in Bookings, booking[b].status # "NONE" PROVE booking[b] \in BookingRow
    BY <2>1 DEF NoRow
  <2>2. ASSUME NEW p \in Users, NEW n \in SeatChoices, RequestBooking(w, p, n) PROVE Fits(w)
    BY <2>2 DEF RequestBooking
  <2>3. ASSUME NEW b \in Bookings, AcceptBooking(w, b) PROVE Fits(w)
    BY <2>3 DEF AcceptBooking, OnBooking, Arguments
  <2>4. ASSUME NEW b \in Bookings, RejectBooking(w, b) PROVE Fits(w)
    <3>1. booking[b] \in BookingRow
      BY <2>1, <2>4 DEF RejectBooking
    <3>2. /\ [booking[b] EXCEPT !.status = "REJECTED"].seats = booking[b].seats
          /\ [booking[b] EXCEPT !.status = "REJECTED"].status = "REJECTED"
      BY <3>1 DEF BookingRow
    <3> QED
      BY <2>4, <3>2 DEF RejectBooking, OnBooking, Arguments
  <2>5. ASSUME NEW b \in Bookings, CancelBooking(w, b) PROVE Fits(w)
    <3> DEFINE row == [booking[b] EXCEPT !.status = "CANCELLED_BY_PASSENGER"]
    <3>1. booking[b] \in BookingRow
      BY <2>1, <2>5 DEF CancelBooking
    <3>2. row.seats = booking[b].seats /\ row.status = "CANCELLED_BY_PASSENGER"
      BY <3>1 DEF BookingRow
    <3> QED
      BY <2>5, <3>2 DEF CancelBooking, Arguments
  <2>6. ~\E b \in Bookings, paid \in BOOLEAN : SetPaid(w, b, paid)
    BY DEF SetPaid, OnBooking, Arguments
  <2> QED
    BY <1>1, <2>2, <2>3, <2>4, <2>5, <2>6 DEF StartBooking
<1>2. ASSUME NEW w \in Workers, NEW l \in Labels \ BookingLabels, GoTo(w, l) PROVE Fits(w)
  BY <1>2
<1>3. ASSUME NEW w \in Workers, StartTrip(w) \/ StartWaitlist(w) \/ (w = Cron /\ Sweep)
      PROVE  Fits(w)
  <2>1. \E l \in {"trip.load", "join.entry", "leave.remove", "sweep.count", "sweep.find"} :
          GoTo(w, l)
    BY <1>3 DEF StartTrip, UpdateTrip, ConfirmTrip, CancelTrip,
                StartWaitlist, JoinWaitlist, LeaveWaitlist, Sweep, Begin
  <2> HIDE DEF Fits
  <2> QED
    BY <1>2, <2>1 DEF Labels
<1>4. ASSUME NEW w \in Workers, BookingStep(w) PROVE Fits(w)
  <2>1. CASE BookingSaveLoad(w)
    BY <2>1 DEF BookingSaveLoad
  <2>2. CASE BookingSaveUpdate(w) \/ RequestCheckActive(w) \/ RequestCount(w) \/ RequestInsert(w)
    BY <1>2, <2>2 DEF BookingSaveUpdate, RequestCheckActive, RequestCount, RequestInsert, End, Labels
  <2>3. CASE AcceptLock(w)
    <3>1. CASE End(w)
      BY <1>2, <3>1 DEF End, Labels
    <3>2. CASE GoTo(w, "accept.count") /\ UNCHANGED <<call, bookSeen, booking>>
      BY <2>3, <3>2 DEF AcceptLock
    <3> QED
      BY <2>3, <3>1, <3>2 DEF AcceptLock
  <2>4. CASE AcceptCount(w)
    <3>1. CASE End(w)
      BY <1>2, <3>1 DEF End, Labels
    <3>2. CASE /\ GoTo(w, "booking.load")
               /\ bookSeen' = [bookSeen EXCEPT ![w] = [bookSeen[w] EXCEPT !.status = "CONFIRMED"]]
               /\ UNCHANGED <<call, booking>>
      <4> DEFINE row == [bookSeen[w] EXCEPT !.status = "CONFIRMED"]
      <4>1. bookSeen[w] \in BookingRow /\ call[w].op = "accept"
        BY <2>4 DEF AcceptCount, Loaded
      <4>2. row.seats = bookSeen[w].seats /\ row.status = "CONFIRMED"
        BY <4>1 DEF BookingRow
      <4>3. bookSeen'[w] = row
        BY <3>2
      <4> HIDE DEF row
      <4> QED
        BY <2>4, <3>2, <4>1, <4>2, <4>3 DEF AcceptCount
    <3> QED
      BY <2>4, <3>1, <3>2 DEF AcceptCount
  <2> QED
    BY <1>4, <2>1, <2>2, <2>3, <2>4 DEF BookingStep
<1>5. ASSUME NEW w \in Workers, TripStep(w) PROVE Fits(w)
  BY <1>2, <1>5
     DEF TripStep, TripSaveLoad, TripSaveUpdate, RecomputeFind, RecomputeCount,
         SweepCount, SweepFind, AfterTripSave, End, Labels
<1>6. ASSUME NEW w \in Workers, WaitlistStep(w) PROVE Fits(w)
  BY <1>2, <1>6
     DEF WaitlistStep, JoinCheckEntry, JoinCheckActive, JoinInsert, LeaveRemove,
         WaitlistNotify, End, Labels
\* No row another handler has loaded changes its seats.
<1>7. ASSUME NEW b \in Bookings, booking[b] \in BookingRow PROVE booking'[b].seats = booking[b].seats
  <2>1. CASE UNCHANGED booking
    BY <2>1
  <2>2. ASSUME NEW w \in Workers, BookingSaveUpdate(w) PROVE booking'[b].seats = booking[b].seats
    BY <2>2 DEF BookingSaveUpdate, WrittenBooking, Loaded
  <2>3. ASSUME NEW w \in Workers, RequestInsert(w) PROVE booking'[b].seats = booking[b].seats
    BY <1>7, <2>3, NoRowIsNoBookingRow DEF RequestInsert, Reserved, Loaded, RequestLabels
  <2>4. \/ UNCHANGED booking
        \/ \E w \in Workers : BookingSaveUpdate(w) \/ RequestInsert(w)
    BY Writers
  <2> QED
    BY <2>1, <2>2, <2>3, <2>4
<1>8. ASSUME NEW w \in Workers, Start(w) \/ Step(w) \/ (w = Cron /\ Sweep) PROVE Decided'
  <2>1. Fits(w)
    BY <1>1, <1>3, <1>4, <1>5, <1>6, <1>8 DEF Start, Step
  <2>2. ASSUME NEW v \in Workers \ {w} PROVE Fits(v)
    <3>1. pc'[v] = pc[v] /\ call'[v] = call[v] /\ bookSeen'[v] = bookSeen[v]
      BY <1>8, OthersAlone
    <3>2. pc[v] \in BookingLabels =>
            booking'[call[v].booking].seats = booking[call[v].booking].seats
      BY <1>7 DEF Loaded
    <3> QED
      BY <3>1, <3>2
  <2> QED
    BY <2>1, <2>2
<1> QED
  BY <1>8, OneWorker

-----------------------------------------------------------------------------
(* The seats *)

\* No step but the save of an accepted booking takes seats, and that one takes
\* at most the seats it was accepted for.
LEMMA SeatsStep ==
  ASSUME TypeInv, Decided, [Next]_vars
  PROVE  \/ SeatsTaken(booking') <= ConfirmedSeats
         \/ \E w \in Workers :
              /\ BookingSaveUpdate(w)
              /\ call[w].op = "accept"
              /\ SeatsTaken(booking') <= ConfirmedSeats + bookSeen[w].seats
<1> USE DEF TypeInv, TypeOK, TablesOK, ConfirmedSeats
<1>1. CASE UNCHANGED booking
  BY <1>1, SeatsShrink
<1>2. ASSUME NEW w \in Workers, RequestInsert(w)
      PROVE  SeatsTaken(booking') <= ConfirmedSeats
  <2>1. /\ call[w].booking \in Bookings
        /\ booking'[call[w].booking].status = "PENDING"
        /\ \A b \in Bookings \ {call[w].booking} : booking'[b] = booking[b]
    BY <1>2 DEF RequestInsert, Loaded, RequestLabels
  <2> QED
    BY <2>1, SeatsShrink
<1>3. ASSUME NEW w \in Workers, BookingSaveUpdate(w)
      PROVE  \/ SeatsTaken(booking') <= ConfirmedSeats
             \/ /\ call[w].op = "accept"
                /\ SeatsTaken(booking') <= ConfirmedSeats + bookSeen[w].seats
  <2> DEFINE b == call[w].booking
  <2>1. /\ b \in Bookings /\ booking[b] \in BookingRow /\ bookSeen[w] \in BookingRow
        /\ bookSeen[w].seats = booking[b].seats
        /\ bookSeen[w].status = "CONFIRMED" <=> call[w].op = "accept"
    BY <1>3 DEF BookingSaveUpdate, Loaded, Decided, BookingLabels, SaveLabels
  <2>2. /\ booking'[b].seats = booking[b].seats
        /\ booking'[b].status \in {booking[b].status, bookSeen[w].status}
        /\ \A a \in Bookings \ {b} : booking'[a] = booking[a]
    BY <1>3, <2>1 DEF BookingSaveUpdate, WrittenBooking
  <2>3. booking[b].seats \in 1..MaxSeats
    BY <2>1 DEF BookingRow
  <2> HIDE DEF b
  <2>4. CASE call[w].op = "accept"
    BY <2>1, <2>2, <2>3, <2>4, SeatsGrow
  <2>5. CASE call[w].op # "accept"
    BY <2>1, <2>2, <2>5, SeatsShrink
  <2> QED
    BY <2>4, <2>5
<1> QED
  BY <1>1, <1>2, <1>3, Writers

LEMMA SeatsFitNext ==
  ASSUME CapacityInv, [Next]_vars
  PROVE  SeatsFit'
<1> USE DEF CapacityInv, TypeInv, TypeOK, TablesOK
<1>1. trip'.max = trip.max /\ trip.max \in Nat
  BY CapacityFixed DEF TripRow
<1>2. SeatsTaken(booking') <= trip.max
  <2>1. SeatsTaken(booking) \in Nat /\ SeatsTaken(booking') \in Nat
    BY SeatsFinite
  <2>2. CASE SeatsTaken(booking') <= ConfirmedSeats
    BY <1>1, <2>1, <2>2 DEF SeatsFit, ConfirmedSeats
  <2>3. ASSUME NEW w \in Workers, BookingSaveUpdate(w), call[w].op = "accept",
               SeatsTaken(booking') <= ConfirmedSeats + bookSeen[w].seats
        PROVE  SeatsTaken(booking') <= trip.max
    <3>1. ConfirmedSeats + bookSeen[w].seats <= trip.max
      BY <2>3 DEF BookingSaveUpdate, RoomKept, SaveLabels
    <3>2. bookSeen[w].seats \in Nat
      BY <2>3, SeatsAssumption DEF BookingSaveUpdate, Loaded, BookingLabels, SaveLabels, BookingRow
    <3> QED
      BY <1>1, <2>1, <2>3, <3>1, <3>2 DEF ConfirmedSeats
  <2> QED
    BY <2>2, <2>3, SeatsStep
<1> QED
  BY <1>1, <1>2 DEF SeatsFit, ConfirmedSeats

LEMMA RoomKeptNext ==
  ASSUME CapacityInv, TypeInv', LockHeld', Decided', [Next]_vars
  PROVE  RoomKept'
<1> USE DEF CapacityInv, TypeInv, TypeOK, TablesOK, LocalsOK
<1>1. SUFFICES ASSUME NEW w \in Workers, call'[w].op = "accept", pc'[w] \in SaveLabels
               PROVE  SeatsTaken(booking') + bookSeen'[w].seats <= trip.max
  BY CapacityFixed DEF RoomKept, ConfirmedSeats
<1>2. /\ SeatsTaken(booking) \in Nat /\ SeatsTaken(booking') \in Nat
      /\ trip.max \in Nat /\ bookSeen'[w].seats \in Nat
  <2>1. bookSeen'[w] \in BookingRow
    BY <1>1 DEF Loaded, BookingLabels
  <2> QED
    BY <2>1, SeatsFinite, SeatsAssumption DEF BookingRow, TripRow
<1>3. \* Nobody else can be saving an accepted booking: w still holds the lock.
      ASSUME NEW v \in Workers, BookingSaveUpdate(v), call[v].op = "accept" PROVE FALSE
  <2>1. lock = v /\ lock' = Nobody
    BY <1>3, UsersAssumption DEF BookingSaveUpdate, LockHeld, HoldsLock, SaveLabels
  <2>2. lock' = w
    BY <1>1 DEF LockHeld, HoldsLock
  <2> QED
    BY <2>1, <2>2, UsersAssumption
<1>4. SeatsTaken(booking') <= ConfirmedSeats
  BY <1>3, SeatsStep
<1>5. CASE call[w].op = "accept" /\ pc[w] \in SaveLabels /\ bookSeen'[w] = bookSeen[w]
  BY <1>2, <1>4, <1>5 DEF RoomKept, ConfirmedSeats
<1>6. CASE AcceptCount(w)
  <2>1. bookSeen[w] \in BookingRow
    BY <1>6 DEF AcceptCount, Loaded, BookingLabels
  <2>2. pc'[w] # "idle"
    BY <1>1 DEF SaveLabels
  <2>3. /\ ConfirmedSeats + bookSeen[w].seats <= tripSeen[w].max
        /\ bookSeen' = [bookSeen EXCEPT ![w] = [bookSeen[w] EXCEPT !.status = "CONFIRMED"]]
    BY <1>6, <2>2 DEF AcceptCount, End, GoTo
  <2>4. [bookSeen[w] EXCEPT !.status = "CONFIRMED"].seats = bookSeen[w].seats
    BY <2>1 DEF BookingRow
  <2>5. bookSeen'[w].seats = bookSeen[w].seats
    BY <2>3, <2>4
  <2>6. tripSeen[w].max = trip.max
    BY <1>6 DEF AcceptCount, Loaded, TripLabels, SameCapacity
  <2> QED
    BY <1>2, <1>4, <2>3, <2>5, <2>6 DEF ConfirmedSeats
<1>7. \/ call[w].op = "accept" /\ pc[w] \in SaveLabels /\ bookSeen'[w] = bookSeen[w]
      \/ AcceptCount(w)
  <2>1. CASE UNCHANGED <<pc, call, bookSeen>>
    BY <1>1, <2>1
  <2>2. ASSUME NEW v \in Workers, v # w, Start(v) \/ Step(v) \/ (v = Cron /\ Sweep)
        PROVE  pc'[w] = pc[w] /\ call'[w] = call[w] /\ bookSeen'[w] = bookSeen[w]
    BY <2>2, OthersAlone
  <2> USE DEF GoTo, locals
  <2>3. CASE BookingStep(w)
    BY <1>1, <2>3 DEF BookingStep, BookingSaveLoad, BookingSaveUpdate, RequestCheckActive,
                      RequestCount, RequestInsert, AcceptLock, End, SaveLabels
  <2>4. ~TripStep(w) /\ ~WaitlistStep(w)
    BY <1>1 DEF TripStep, TripSaveLoad, TripSaveUpdate, RecomputeFind, RecomputeCount, SweepCount,
                SweepFind, AfterTripSave, WaitlistStep, JoinCheckEntry, JoinCheckActive, JoinInsert,
                LeaveRemove, WaitlistNotify, End, SaveLabels
  <2>5. ~Start(w) /\ ~(w = Cron /\ Sweep)
    <3> USE DEF Begin, SaveLabels
    <3>1. ~StartBooking(w)
      BY <1>1 DEF StartBooking, RequestBooking, AcceptBooking, RejectBooking,
                  CancelBooking, SetPaid, OnBooking, Arguments
    <3>2. ~StartTrip(w) /\ ~StartWaitlist(w) /\ ~(w = Cron /\ Sweep)
      BY <1>1 DEF StartTrip, UpdateTrip, ConfirmTrip, CancelTrip,
                  StartWaitlist, JoinWaitlist, LeaveWaitlist, Sweep
    <3> QED
      BY <3>1, <3>2 DEF Start
  <2> QED
    BY <1>1, <2>1, <2>2, <2>3, <2>4, <2>5, OneWorker DEF Step
<1> QED
  BY <1>5, <1>6, <1>7

-----------------------------------------------------------------------------
(* Theorems *)

\* With no row confirmed no seat is taken.
LEMMA NoSeats ==
  ASSUME NEW rows, \A b \in Bookings : rows[b].status # "CONFIRMED"
  PROVE  SeatsTaken(rows) = 0
<1>1. SeatPairs(rows) = {}
  BY DEF SeatPairs
<1> QED
  BY <1>1, FS_EmptySet DEF SeatsTaken

LEMMA CapacityInit == Init => CapacityInv
<1> SUFFICES ASSUME Init PROVE CapacityInv
  OBVIOUS
<1>1. TypeInv
  BY TypeInvInit
<1>2. LockHeld
  BY UsersAssumption DEF Init, LockHeld, HoldsLock, SaveLabels
<1>3. SameCapacity
  BY NoTripIsNoTripRow DEF Init, SameCapacity
<1>4. Decided
  BY DEF Init, Decided, BookingLabels, SaveLabels
<1>5. RoomKept
  BY DEF Init, RoomKept, SaveLabels
<1>6. SeatsFit
  <2>1. ConfirmedSeats = 0
    BY NoSeats DEF Init, NoRow, ConfirmedSeats
  <2>2. trip.max \in Nat
    BY <1>1 DEF TypeInv, TypeOK, TablesOK, TripRow
  <2> QED
    BY <2>1, <2>2 DEF SeatsFit
<1> QED
  BY <1>1, <1>2, <1>3, <1>4, <1>5, <1>6 DEF CapacityInv

\* The inductive invariant of the seats: where no trip is edited and no booking
\* is marked paid, the lock belongs to the accept() inside its transaction, and
\* the seats it has checked stay free until it commits.
THEOREM CapacityCorrect ==
  ASSUME "update" \notin Ops, "setPaid" \notin Ops
  PROVE  Spec => []CapacityInv
<1>1. CapacityInv /\ [Next]_vars => CapacityInv'
  <2> SUFFICES ASSUME CapacityInv, [Next]_vars PROVE CapacityInv'
    OBVIOUS
  <2> USE DEF CapacityInv
  <2>1. TypeInv' /\ TypeOK'
    BY TypeInvNext DEF TypeInv
  <2>2. LockHeld'
    BY LockHeldNext
  <2>3. SameCapacity'
    BY SameCapacityNext
  <2>4. Decided'
    BY <2>1, DecidedNext
  <2>5. RoomKept'
    BY <2>1, <2>2, <2>4, RoomKeptNext
  <2>6. SeatsFit'
    BY SeatsFitNext
  <2> QED
    BY <2>1, <2>2, <2>3, <2>4, <2>5, <2>6
<1> QED
  BY <1>1, CapacityInit, PTL DEF Spec

\* No overbooking: concurrent accepts never confirm more seats than the trip
\* offers, however many handlers race (accept, bookings.service.ts:91-93).
THEOREM NoOverbooking ==
  ASSUME "update" \notin Ops, "setPaid" \notin Ops
  PROVE  Spec => []SeatsFit
<1>1. CapacityInv => SeatsFit
  BY DEF CapacityInv
<1> QED
  BY <1>1, CapacityCorrect, PTL

\* The ledger counts the seats the services count.
LEMMA LedgerCounts == Ledger!Taken = ConfirmedSeats
<1>1. {u \in Bookings \X (1..MaxSeats) : u[2] <= SeatsHeld[u[1]]} = SeatPairs(booking)
  BY SeatsAssumption DEF SeatPairs, SeatsHeld
<1> QED
  BY <1>1, Zenon DEF Ledger!Taken, ConfirmedSeats, SeatsTaken, Ledger!Cardinality, Cardinality

\* A change of one row changes the ledger by the seats that row holds.
LEMMA HeldChange ==
  ASSUME NEW b \in Bookings, \A a \in Bookings \ {b} : booking'[a] = booking[a]
  PROVE  SeatsHeld' = [SeatsHeld EXCEPT ![b] = IF booking'[b].status = "CONFIRMED"
                                               THEN booking'[b].seats ELSE 0]
  BY DEF SeatsHeld

\* The trip core implements the seat ledger: a save that confirms a booking
\* takes its seats while they fit, one that cancels it gives them back, and no
\* other step of any handler is seen.
THEOREM ImplementsLedger ==
  ASSUME "update" \notin Ops, "setPaid" \notin Ops
  PROVE  Spec => KeepsLedger
<1>1. Init => Ledger!Open
  <2> SUFFICES ASSUME Init PROVE Ledger!Open
    OBVIOUS
  <2>1. trip.max \in Nat
    BY TypeInvInit DEF TypeInv, TypeOK, TablesOK, TripRow
  <2>2. SeatsHeld = [b \in Bookings |-> 0]
    BY DEF Init, NoRow, SeatsHeld
  <2> QED
    BY <2>1, <2>2 DEF Ledger!Open
<1>2. CapacityInv /\ [Next]_vars => [Ledger!Ledger]_(Ledger!ledger)
  <2> SUFFICES ASSUME CapacityInv, [Next]_vars
               PROVE  Ledger!Ledger \/ UNCHANGED <<SeatsHeld, trip.max>>
    BY DEF Ledger!ledger
  <2> USE DEF CapacityInv, TypeInv, TypeOK, TablesOK
  <2>1. trip'.max = trip.max
    BY CapacityFixed
  <2>2. ASSUME UNCHANGED booking PROVE UNCHANGED SeatsHeld
    BY <2>2 DEF SeatsHeld
  <2>3. ASSUME NEW w \in Workers, RequestInsert(w) PROVE UNCHANGED SeatsHeld
    <3>1. call[w].booking \in Bookings /\ booking[call[w].booking] = NoRow
      BY <2>3 DEF RequestInsert, Loaded, Reserved, RequestLabels
    <3>2. booking'[call[w].booking].status = "PENDING"
      BY <2>3, <3>1 DEF RequestInsert
    <3>3. \A b \in Bookings \ {call[w].booking} : booking'[b] = booking[b]
      BY <2>3, <3>1 DEF RequestInsert
    <3>4. SeatsHeld' = [SeatsHeld EXCEPT ![call[w].booking] = 0]
      BY <3>1, <3>2, <3>3, HeldChange
    <3>5. SeatsHeld[call[w].booking] = 0
      BY <3>1 DEF NoRow, SeatsHeld
    <3> QED
      BY <3>4, <3>5 DEF SeatsHeld
  <2>4. ASSUME NEW w \in Workers, BookingSaveUpdate(w) PROVE Ledger!Ledger \/ UNCHANGED SeatsHeld
    <3> DEFINE b == call[w].booking
    <3>1. /\ b \in Bookings /\ booking[b] \in BookingRow /\ bookSeen[w] \in BookingRow
          /\ bookSeen[w].seats = booking[b].seats
          /\ bookSeen[w].status = "CONFIRMED" <=> call[w].op = "accept"
      BY <2>4 DEF BookingSaveUpdate, Loaded, Decided, BookingLabels, SaveLabels
    <3>2. /\ booking'[b].seats = booking[b].seats
          /\ booking'[b].status \in {booking[b].status, bookSeen[w].status}
          /\ \A a \in Bookings \ {b} : booking'[a] = booking[a]
      BY <2>4, <3>1 DEF BookingSaveUpdate, WrittenBooking
    <3>3. booking[b].seats \in 1..MaxSeats
      BY <3>1 DEF BookingRow
    <3>4. SeatsHeld' = [SeatsHeld EXCEPT ![b] = IF booking'[b].status = "CONFIRMED"
                                                THEN booking'[b].seats ELSE 0]
      BY <3>1, <3>2, HeldChange
    <3>5. SeatsHeld[b] = IF booking[b].status = "CONFIRMED" THEN booking[b].seats ELSE 0
      BY <3>1 DEF SeatsHeld
    <3> HIDE DEF b
    <3>6. CASE booking'[b].status = "CONFIRMED" <=> booking[b].status = "CONFIRMED"
      BY <3>2, <3>4, <3>5, <3>6 DEF SeatsHeld
    <3>7. CASE booking'[b].status = "CONFIRMED" /\ booking[b].status # "CONFIRMED"
      <4>1. ConfirmedSeats + booking[b].seats <= trip.max
        BY <2>4, <3>1, <3>2, <3>7 DEF RoomKept, BookingSaveUpdate, SaveLabels
      <4>2. SeatsHeld[b] = 0 /\ SeatsHeld' = [SeatsHeld EXCEPT ![b] = booking[b].seats]
        BY <3>2, <3>4, <3>5, <3>7
      <4>3. Ledger!Take(b, booking[b].seats)
        BY <2>1, <4>1, <4>2, LedgerCounts DEF Ledger!Take
      <4>4. Ledger!Ledger
        BY <3>1, <3>3, <4>3 DEF Ledger!Ledger
      <4> QED
        BY <4>4
    <3>8. CASE booking'[b].status # "CONFIRMED" /\ booking[b].status = "CONFIRMED"
      <4>1. SeatsHeld[b] # 0 /\ SeatsHeld' = [SeatsHeld EXCEPT ![b] = 0]
        BY <3>3, <3>4, <3>5, <3>8, SeatsAssumption
      <4>2. Ledger!Release(b)
        BY <2>1, <4>1 DEF Ledger!Release
      <4>3. Ledger!Ledger
        BY <3>1, <4>2 DEF Ledger!Ledger
      <4> QED
        BY <4>3
    <3> QED
      BY <3>6, <3>7, <3>8
  <2> QED
    BY <2>1, <2>2, <2>3, <2>4, Writers
<1> QED
  BY <1>1, <1>2, CapacityCorrect, PTL DEF Spec, KeepsLedger, Ledger!LedgerSpec
=============================================================================
