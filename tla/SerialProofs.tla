----------------------------- MODULE SerialProofs -----------------------------
(***************************************************************************)
(* The services as their authors thought of them, one handler at a time:   *)
(* what the runs serial and editing check, for every number of users and   *)
(* bookings, every capacity and, where nothing else is said, every choice  *)
(* of operations and of edits.                                             *)
(***************************************************************************)
EXTENDS GigDriveProofs

-----------------------------------------------------------------------------
(* One at a time *)

\* A handler begins only when every other is at rest.
LEMMA BeginsAlone ==
  ASSUME MaxInFlight = 1, TypeInv, NEW w \in Workers, NEW l, NEW c, Begin(w, l, c)
  PROVE  \A v \in Workers : pc[v] = "idle"
<1>1. IsFiniteSet(Busy)
  <2>1. IsFiniteSet(Workers)
    BY FS_AddElement, WorkersAssumption DEF Workers
  <2> QED
    BY <2>1, FS_Subset DEF Busy
<1>2. Cardinality(Busy) \in Nat /\ Cardinality(Busy) < 1
  BY <1>1, FS_CardinalityType DEF Begin
<1>3. Busy = {}
  BY <1>1, <1>2, FS_EmptySet
<1> QED
  BY <1>3 DEF Busy

LEMMA StartBegins ==
  ASSUME NEW w \in Workers, Start(w) \/ (w = Cron /\ Sweep)
  PROVE  \E l, c : Begin(w, l, c)
<1>1. CASE StartBooking(w)
  BY <1>1 DEF StartBooking, RequestBooking, AcceptBooking, RejectBooking, CancelBooking, SetPaid
<1>2. CASE StartTrip(w)
  BY <1>2 DEF StartTrip, UpdateTrip, ConfirmTrip, CancelTrip
<1>3. CASE StartWaitlist(w)
  BY <1>3 DEF StartWaitlist, JoinWaitlist, LeaveWaitlist
<1>4. CASE w = Cron /\ Sweep
  BY <1>4 DEF Sweep
<1> QED
  BY <1>1, <1>2, <1>3, <1>4 DEF Start

LEMMA StepsBusy ==
  ASSUME NEW w \in Workers, Step(w)
  PROVE  pc[w] # "idle"
<1>1. CASE BookingStep(w)
  BY <1>1 DEF BookingStep, BookingSaveLoad, BookingSaveUpdate, RequestCheckActive, RequestCount,
              RequestInsert, AcceptLock, AcceptCount
<1>2. CASE TripStep(w)
  BY <1>2 DEF TripStep, TripSaveLoad, TripSaveUpdate, RecomputeFind, RecomputeCount, SweepCount,
              SweepFind
<1>3. CASE WaitlistStep(w)
  BY <1>3 DEF WaitlistStep, JoinCheckEntry, JoinCheckActive, JoinInsert, LeaveRemove, WaitlistNotify
<1> QED
  BY <1>1, <1>2, <1>3 DEF Step

\* While one handler moves the others rest, before and after.
LEMMA OthersRest ==
  ASSUME MaxInFlight = 1, TypeInv, Alone, NEW w \in Workers,
         Start(w) \/ Step(w) \/ (w = Cron /\ Sweep)
  PROVE  \A v \in Workers \ {w} : pc[v] = "idle" /\ pc'[v] = "idle"
<1>1. \A v \in Workers \ {w} : pc[v] = "idle"
  <2>1. CASE Step(w)
    BY <2>1, StepsBusy DEF Alone
  <2>2. CASE Start(w) \/ (w = Cron /\ Sweep)
    BY <2>2, StartBegins, BeginsAlone
  <2> QED
    BY <2>1, <2>2
<1>2. LocalsOK
  BY DEF TypeInv, TypeOK
<1> QED
  BY <1>1, <1>2, OthersAlone

LEMMA AloneNext ==
  ASSUME MaxInFlight = 1, TypeInv, Alone, [Next]_vars
  PROVE  Alone'
<1>1. ASSUME NEW w \in Workers, Start(w) \/ Step(w) \/ (w = Cron /\ Sweep) PROVE Alone'
  BY <1>1, OthersRest DEF Alone
<1>2. CASE UNCHANGED pc
  BY <1>2 DEF Alone
<1> QED
  BY <1>1, <1>2, OneWorker

-----------------------------------------------------------------------------
(* What a handler has read is still so *)

\* Writing the columns that differ makes the row the entity.
LEMMA WrittenWhole ==
  ASSUME NEW t \in TripRow, NEW e \in TripRow
  PROVE  Written(t, e, {c \in TripColumns : e[c] # t[c]}) = e
  BY DEF Written, TripRow, TripColumns

LEMMA DeriveInBand ==
  ASSUME NEW t \in TripRow, NEW n, t.status \in Band
  PROVE  DeriveStatus(t, n) \in Band
  BY DEF DeriveStatus, Band

LEMMA StoredIsRow ==
  ASSUME TypeInv, NEW b \in Bookings, booking[b].status # "NONE"
  PROVE  booking[b] \in BookingRow
  BY DEF TypeInv, TypeOK, TablesOK, NoRow

LEMMA BookingFreshNext ==
  ASSUME SerialInv, NEW w \in Workers, Start(w) \/ Step(w) \/ (w = Cron /\ Sweep)
  PROVE  BookingFresh(w)'
<1> USE DEF SerialInv, TypeInv, TypeOK, LocalsOK, TablesOK, BookingFresh, BookingLabels, SaveLabels,
            GoTo, locals, tables
<1>1. CASE StartBooking(w)
  <2> USE DEF Begin, Arguments, OnBooking, Active
  <2>1. ASSUME NEW p \in Users, NEW n \in SeatChoices, RequestBooking(w, p, n) PROVE BookingFresh(w)'
    BY <2>1 DEF RequestBooking
  <2>2. ASSUME NEW b \in Bookings, AcceptBooking(w, b) PROVE BookingFresh(w)'
    BY <2>2 DEF AcceptBooking
  <2>3. ASSUME NEW b \in Bookings, RejectBooking(w, b) PROVE BookingFresh(w)'
    <3>1. [booking[b] EXCEPT !.status = "REJECTED"].status = "REJECTED"
      BY <2>3, StoredIsRow DEF RejectBooking, BookingRow
    <3> QED
      BY <2>3, <3>1 DEF RejectBooking
  <2>4. ASSUME NEW b \in Bookings, CancelBooking(w, b) PROVE BookingFresh(w)'
    <3>1. [booking[b] EXCEPT !.status = "CANCELLED_BY_PASSENGER"].status = "CANCELLED_BY_PASSENGER"
      BY <2>4, StoredIsRow DEF CancelBooking, BookingRow
    <3> QED
      BY <2>4, <3>1 DEF CancelBooking
  <2>5. ASSUME NEW b \in Bookings, NEW paid \in BOOLEAN, SetPaid(w, b, paid) PROVE BookingFresh(w)'
    <3>1. [booking[b] EXCEPT !.paid = paid].status = booking[b].status
      BY <2>5, StoredIsRow DEF SetPaid, BookingRow
    <3> QED
      BY <2>5, <3>1 DEF SetPaid
  <2> QED
    BY <1>1, <2>1, <2>2, <2>3, <2>4, <2>5 DEF StartBooking
<1>2. CASE StartTrip(w) \/ StartWaitlist(w) \/ (w = Cron /\ Sweep)
  BY <1>2 DEF StartTrip, UpdateTrip, ConfirmTrip, CancelTrip, StartWaitlist, JoinWaitlist,
              LeaveWaitlist, Sweep, Begin
<1>3. ASSUME NEW l, GoTo(w, l), l \notin BookingLabels PROVE BookingFresh(w)'
  BY <1>3
<1>4. ASSUME End(w) PROVE BookingFresh(w)'
  BY <1>4 DEF End
<1>5. CASE BookingStep(w)
  <2>1. CASE BookingSaveLoad(w)
    BY <2>1, <1>5 DEF BookingSaveLoad, Fresh
  <2>2. CASE AcceptLock(w)
    BY <2>2, <1>4 DEF AcceptLock, Fresh, Loaded
  <2>3. CASE AcceptCount(w)
    BY <2>3, <1>4 DEF AcceptCount, Fresh, Loaded
  <2>4. CASE RequestCheckActive(w) \/ RequestCount(w) \/ RequestInsert(w) \/ BookingSaveUpdate(w)
    BY <1>3, <1>4, <2>4 DEF RequestCheckActive, RequestCount, RequestInsert, BookingSaveUpdate
  <2> QED
    BY <1>5, <2>1, <2>2, <2>3, <2>4 DEF BookingStep
<1>6. CASE TripStep(w)
  BY <1>3, <1>4, <1>6 DEF TripStep, TripSaveLoad, TripSaveUpdate, RecomputeFind, RecomputeCount,
                          SweepCount, SweepFind, AfterTripSave
<1>7. CASE WaitlistStep(w)
  BY <1>3, <1>4, <1>7 DEF WaitlistStep, JoinCheckEntry, JoinCheckActive, JoinInsert, LeaveRemove,
                          WaitlistNotify
<1> QED
  BY <1>1, <1>2, <1>5, <1>6, <1>7 DEF Start, Step

\* The steps that start a handler which saves the trip.
LEMMA StartTripFresh ==
  ASSUME SerialInv, NEW w \in Workers, StartTrip(w)
  PROVE  TripFresh(w)'
<1> USE DEF SerialInv, TypeInv, TypeOK, LocalsOK, TablesOK, Begin, OnTrip, Arguments, GoTo, tables
<1>1. ASSUME NEW op \in AllOps, NEW t \in TripRow, Begin(w, "trip.load", OnTrip(op)),
             tripSeen' = [tripSeen EXCEPT ![w] = t],
             UNCHANGED <<trip, booking>>, call'[w].op = op /\ tripSeen'[w] = t => Pending(w)'
      PROVE  TripFresh(w)'
  BY <1>1 DEF TripFresh
<1>2. ASSUME NEW patch \in PatchChoices, UpdateTrip(w, patch) PROVE TripFresh(w)'
  <2> DEFINE merged == Written(trip, patch, DOMAIN patch)
  <2>1. merged \in TripRow /\ merged.status = trip.status
    BY PatchedType, ChoicesAssumption DEF Written
  <2>2. /\ trip.status = "OPEN"
        /\ ValidCapacity(merged, VehicleSeats)
        /\ ValidSchedule(merged, ConcertAt)
        /\ tripSeen' = [tripSeen EXCEPT ![w] = merged]
        /\ UNCHANGED <<trip, booking>>
    BY <1>2 DEF UpdateTrip, IsEditable
  <2>3. Begin(w, "trip.load", OnTrip("update"))
    BY <1>2 DEF UpdateTrip
  <2> HIDE DEF merged
  <2>4. call'[w].op = "update" /\ tripSeen'[w] = merged => Pending(w)'
    BY <2>1, <2>2 DEF Pending, Edits, ValidCapacity, ValidSchedule
  <2> QED
    BY <1>1, <2>1, <2>2, <2>3, <2>4 DEF AllOps
<1>3. CASE ConfirmTrip(w)
  <2> DEFINE t == [trip EXCEPT !.status = "CONFIRMED"]
  <2>1. t \in TripRow
    BY TripStatusType DEF TripStatus
  <2>2. call'[w].op = "confirm" /\ tripSeen'[w] = t => Pending(w)'
    BY <1>3 DEF ConfirmTrip, IsConfirmable, Pending, Becomes
  <2>3. /\ Begin(w, "trip.load", OnTrip("confirm"))
        /\ tripSeen' = [tripSeen EXCEPT ![w] = t]
        /\ UNCHANGED <<trip, booking>>
    BY <1>3 DEF ConfirmTrip
  <2> HIDE DEF t
  <2> QED
    BY <1>1, <2>1, <2>2, <2>3 DEF AllOps
<1>4. CASE CancelTrip(w)
  <2> DEFINE t == [trip EXCEPT !.status = "CANCELLED"]
  <2>1. t \in TripRow
    BY TripStatusType DEF TripStatus
  <2>2. call'[w].op = "cancelTrip" /\ tripSeen'[w] = t => Pending(w)'
    <3>1. trip.status \in TripStatus \ Finished
      BY <1>4 DEF CancelTrip, IsCancellable, TripRow
    <3> QED
      BY <1>4, <3>1 DEF CancelTrip, Pending, Becomes
  <2>3. /\ Begin(w, "trip.load", OnTrip("cancelTrip"))
        /\ tripSeen' = [tripSeen EXCEPT ![w] = t]
        /\ UNCHANGED <<trip, booking>>
    BY <1>4 DEF CancelTrip
  <2> HIDE DEF t
  <2> QED
    BY <1>1, <2>1, <2>2, <2>3 DEF AllOps
<1> QED
  BY <1>2, <1>3, <1>4 DEF StartTrip

\* What is pending depends on the rows, and on the entity and the operation.
LEMMA PendingStays ==
  ASSUME NEW w \in Workers, Pending(w), UNCHANGED <<trip, booking>>,
         call'[w] = call[w], tripSeen'[w] = tripSeen[w]
  PROVE  Pending(w)'
  BY DEF Pending, Edits, Becomes, ConfirmedSeats, ValidCapacity, ValidSchedule

LEMMA TripStepFresh ==
  ASSUME SerialInv, NEW w \in Workers, TripStep(w)
  PROVE  TripFresh(w)'
<1> USE DEF SerialInv, TypeInv, TypeOK, LocalsOK, TablesOK, GoTo, tables, locals
<1>0. TripFresh(w) /\ Loaded
  BY DEF Fresh
<1>1. ASSUME AfterTripSave(w) PROVE TripFresh(w)'
  BY <1>1 DEF AfterTripSave, End, TripFresh
<1>2. ASSUME End(w) PROVE TripFresh(w)'
  BY <1>2 DEF End, TripFresh
<1>4. CASE TripSaveLoad(w)
  <2>1. Pending(w)'
    BY <1>0, <1>4, PendingStays DEF TripSaveLoad, TripFresh
  <2>2. /\ pc'[w] = "trip.update"
        /\ dirty'[w] = {c \in TripColumns : tripSeen[w][c] # trip[c]}
        /\ UNCHANGED <<trip, tripSeen>>
    BY <1>4 DEF TripSaveLoad
  <2> QED
    BY <2>1, <2>2 DEF TripFresh
<1>5. CASE TripSaveUpdate(w)
  BY <1>1, <1>5 DEF TripSaveUpdate
<1>6. CASE RecomputeFind(w)
  BY <1>0, <1>6 DEF RecomputeFind, TripFresh
<1>7. CASE RecomputeCount(w)
  <2> DEFINE next == DeriveStatus(tripSeen[w], ConfirmedSeats)
             t    == [tripSeen[w] EXCEPT !.status = next]
  <2>1. tripSeen[w] = trip /\ call[w].op \in Rederives
    BY <1>0, <1>7 DEF RecomputeCount, TripFresh
  <2>2. CASE AfterTripSave(w)
    BY <1>1, <2>2
  <2>3. CASE /\ next # tripSeen[w].status
             /\ tripSeen' = [tripSeen EXCEPT ![w] = t]
             /\ GoTo(w, "trip.load")
             /\ UNCHANGED call
    <3>1. trip.status \in Band
      BY <2>1, <2>3 DEF DeriveStatus
    <3>2. UNCHANGED <<trip, booking>>
      BY <1>7 DEF RecomputeCount
    <3>3. tripSeen'[w] = [trip EXCEPT !.status = DeriveStatus(trip, ConfirmedSeats)]
      BY <2>1, <2>3
    <3>4. DeriveStatus(trip, ConfirmedSeats)' = DeriveStatus(trip, ConfirmedSeats)
      BY <3>2 DEF ConfirmedSeats
    <3>5. Becomes(w, Rederives, Band, DeriveStatus(trip, ConfirmedSeats))'
      BY <2>1, <2>3, <3>1, <3>2, <3>3, <3>4 DEF Becomes
    <3>6. Pending(w)' /\ pc'[w] = "trip.load"
      BY <2>3, <3>5 DEF Pending
    <3> QED
      BY <3>6 DEF TripFresh
  <2> QED
    BY <1>7, <2>2, <2>3 DEF RecomputeCount
<1>8. CASE SweepCount(w)
  <2>1. /\ tripSeen[w] = trip /\ call[w].op = "sweep" /\ trip.status \in Band
        /\ UNCHANGED <<trip, booking, call>>
    BY <1>0, <1>8 DEF SweepCount, TripFresh
  <2>2. CASE GoTo(w, "sweep.find")
    BY <2>1, <2>2 DEF TripFresh
  <2>3. CASE /\ tripSeen' = [tripSeen EXCEPT ![w] = [tripSeen[w] EXCEPT !.status = "CANCELLED"]]
             /\ GoTo(w, "trip.load")
    <3>1. Becomes(w, {"sweep"}, Band, "CANCELLED")'
      BY <2>1, <2>3 DEF Becomes
    <3>2. Pending(w)' /\ pc'[w] = "trip.load"
      BY <2>3, <3>1 DEF Pending
    <3> QED
      BY <3>2 DEF TripFresh
  <2> QED
    BY <1>8, <2>2, <2>3 DEF SweepCount
<1>9. CASE SweepFind(w)
  <2>1. call[w].op = "sweep" /\ UNCHANGED <<trip, booking>>
    BY <1>0, <1>9 DEF SweepFind, TripFresh
  <2>2. CASE /\ trip.status = "CONFIRMED"
             /\ tripSeen' = [tripSeen EXCEPT ![w] = [trip EXCEPT !.status = "COMPLETED"]]
             /\ GoTo(w, "trip.load")
             /\ UNCHANGED call
    <3>1. Becomes(w, {"sweep"}, {"CONFIRMED"}, "COMPLETED")'
      BY <2>1, <2>2 DEF Becomes
    <3>2. Pending(w)' /\ pc'[w] = "trip.load"
      BY <2>2, <3>1 DEF Pending
    <3> QED
      BY <3>2 DEF TripFresh
  <2> QED
    BY <1>2, <1>9, <2>2 DEF SweepFind
<1> QED
  BY <1>4, <1>5, <1>6, <1>7, <1>8, <1>9 DEF TripStep

LEMMA TripFreshNext ==
  ASSUME SerialInv, NEW w \in Workers, Start(w) \/ Step(w) \/ (w = Cron /\ Sweep)
  PROVE  TripFresh(w)'
<1> USE DEF SerialInv, TypeInv, TypeOK, LocalsOK, TablesOK, GoTo, tables, locals
<1>1. CASE StartBooking(w) \/ StartWaitlist(w)
  BY <1>1 DEF StartBooking, RequestBooking, AcceptBooking, RejectBooking, CancelBooking, SetPaid,
              StartWaitlist, JoinWaitlist, LeaveWaitlist, Begin, TripFresh
<1>2. CASE w = Cron /\ Sweep
  BY <1>2 DEF Sweep, Begin, Arguments, TripFresh
<1>3. ASSUME End(w) PROVE TripFresh(w)'
  BY <1>3 DEF End, TripFresh
<1>4. ASSUME NEW l \in BookingLabels \cup RequestLabels \cup JoinLabels, GoTo(w, l)
      PROVE  TripFresh(w)'
  BY <1>4 DEF BookingLabels, SaveLabels, RequestLabels, JoinLabels, TripFresh
<1>5. CASE BookingStep(w)
  <2>1. CASE BookingSaveUpdate(w)
    <3>1. CASE /\ call[w].op = "accept" \/ call[w].freed
               /\ GoTo(w, "recompute.find") /\ UNCHANGED locals
      <4>1. pc[w] \in BookingLabels /\ BookingFresh(w)
        BY <2>1 DEF BookingSaveUpdate, BookingLabels, SaveLabels, Fresh
      <4>2. call[w].op \in Rederives
        BY <3>1, <4>1 DEF BookingFresh, Rederives
      <4> QED
        BY <3>1, <4>2 DEF TripFresh
    <3> QED
      BY <1>3, <2>1, <3>1 DEF BookingSaveUpdate
  <2> QED
    BY <1>3, <1>4, <1>5, <2>1
       DEF BookingStep, BookingSaveLoad, RequestCheckActive, RequestCount, RequestInsert,
           AcceptLock, AcceptCount, BookingLabels, SaveLabels, RequestLabels
<1>6. CASE WaitlistStep(w)
  BY <1>3, <1>4, <1>6 DEF WaitlistStep, JoinCheckEntry, JoinCheckActive, JoinInsert, LeaveRemove,
                          WaitlistNotify, JoinLabels
<1> QED
  BY <1>1, <1>2, <1>5, <1>6, StartTripFresh, TripStepFresh DEF Start, Step

LEMMA SerialInvInit == Init => SerialInv
<1> SUFFICES ASSUME Init PROVE SerialInv
  OBVIOUS
<1>1. TypeInv
  BY TypeInvInit
<1>2. \A w \in Workers : pc[w] = "idle"
  BY DEF Init
<1>3. Alone /\ Fresh
  BY <1>2 DEF Alone, Fresh, BookingFresh, TripFresh, BookingLabels, SaveLabels
<1> QED
  BY <1>1, <1>3 DEF SerialInv

LEMMA SerialInvNext ==
  ASSUME MaxInFlight = 1, SerialInv, [Next]_vars
  PROVE  SerialInv'
<1>1. TypeInv' /\ Alone'
  BY TypeInvNext, AloneNext DEF SerialInv
<1>2. ASSUME NEW w \in Workers, Start(w) \/ Step(w) \/ (w = Cron /\ Sweep) PROVE Fresh'
  <2>1. BookingFresh(w)' /\ TripFresh(w)'
    BY <1>2, BookingFreshNext, TripFreshNext
  <2>2. ASSUME NEW v \in Workers \ {w} PROVE BookingFresh(v)' /\ TripFresh(v)'
    <3>1. pc'[v] = "idle"
      BY <1>2, OthersRest DEF SerialInv
    <3> QED
      BY <3>1 DEF BookingFresh, TripFresh, BookingLabels, SaveLabels
  <2> QED
    BY <2>1, <2>2 DEF Fresh
<1>3. ASSUME UNCHANGED <<tables, lock, pc, locals, history>> PROVE Fresh'
  <2>1. ASSUME NEW w \in Workers PROVE BookingFresh(w)' /\ TripFresh(w)'
    <3>1. BookingFresh(w) /\ TripFresh(w)
      BY DEF SerialInv, Fresh
    <3>2. Pending(w) => Pending(w)'
      BY <1>3, PendingStays DEF tables, locals
    <3> QED
      BY <1>3, <3>1, <3>2 DEF BookingFresh, TripFresh, tables, locals
  <2> QED
    BY <2>1 DEF Fresh
<1> QED
  BY <1>1, <1>2, <1>3, OneWorker DEF SerialInv

-----------------------------------------------------------------------------
(* What one handler at a time keeps *)

\* A save of the trip writes what is pending.
LEMMA SavesPending ==
  ASSUME SerialInv, NEW w \in Workers, TripSaveUpdate(w)
  PROVE  trip' = tripSeen[w] /\ trip' \in TripRow /\ Pending(w) /\ UNCHANGED booking
<1>1. pc[w] = "trip.update" /\ trip' = Written(trip, tripSeen[w], dirty[w]) /\ UNCHANGED booking
  BY DEF TripSaveUpdate
<1>2. TripFresh(w) /\ trip \in TripRow /\ tripSeen[w] \in TripRow
  BY <1>1 DEF SerialInv, Fresh, TypeInv, TypeOK, TablesOK, Loaded, TripLabels
<1>3. Pending(w) /\ dirty[w] = {c \in TripColumns : tripSeen[w][c] # trip[c]}
  BY <1>1, <1>2 DEF TripFresh
<1> QED
  BY <1>1, <1>2, <1>3, WrittenWhole

\* What is pending, by the status it leads to.
LEMMA PendingStatus ==
  ASSUME SerialInv, NEW w \in Workers, Pending(w)
  PROVE  /\ trip.status \notin Finished
         /\ tripSeen[w].status \in TripStatus
         /\ tripSeen[w].status = "CONFIRMED" => call[w].op = "confirm" /\ trip.status = "READY"
         /\ tripSeen[w].status = "READY" =>
              call[w].op \in Rederives /\ DeriveStatus(trip, ConfirmedSeats) = "READY"
         /\ tripSeen[w].status \in Band =>
              call[w].op \in Rederives \cup {"update"}
         /\ call[w].op \in Rederives =>
              /\ trip.status \in Band
              /\ tripSeen[w].status = DeriveStatus(trip, ConfirmedSeats)
         /\ call[w].op = "update" => trip.status = "OPEN" /\ tripSeen[w].status = "OPEN"
         /\ call[w].op # "update" =>
              \A c \in TripColumns \ {"status"} : tripSeen[w][c] = trip[c]
<1> USE DEF SerialInv, TypeInv, TypeOK, TablesOK
<1>1. trip \in TripRow
  OBVIOUS
<1>2. ASSUME NEW s, tripSeen[w] = [trip EXCEPT !.status = s]
      PROVE  /\ tripSeen[w].status = s
             /\ \A c \in TripColumns \ {"status"} : tripSeen[w][c] = trip[c]
  BY <1>1, <1>2 DEF TripRow, TripColumns
<1>3. CASE Edits(w)
  BY <1>1, <1>3 DEF Edits, Finished, TripStatus, Band, Rederives
<1>4. CASE Becomes(w, {"confirm"}, {"READY"}, "CONFIRMED")
  BY <1>2, <1>4 DEF Becomes, Finished, TripStatus, Band, Rederives
<1>5. CASE Becomes(w, {"cancelTrip"}, TripStatus \ Finished, "CANCELLED")
  BY <1>2, <1>5 DEF Becomes, Finished, TripStatus, Band, Rederives
<1>6. CASE Becomes(w, {"sweep"}, Band, "CANCELLED")
  BY <1>2, <1>6 DEF Becomes, Finished, TripStatus, Band, Rederives
<1>7. CASE Becomes(w, {"sweep"}, {"CONFIRMED"}, "COMPLETED")
  BY <1>2, <1>7 DEF Becomes, Finished, TripStatus, Band, Rederives
<1>8. CASE Becomes(w, Rederives, Band, DeriveStatus(trip, ConfirmedSeats))
  <2>1. DeriveStatus(trip, ConfirmedSeats) \in Band
    BY <1>1, <1>8, DeriveInBand DEF Becomes
  <2>2. tripSeen[w].status = DeriveStatus(trip, ConfirmedSeats)
    BY <1>2, <1>8 DEF Becomes
  <2>3. \A c \in TripColumns \ {"status"} : tripSeen[w][c] = trip[c]
    BY <1>2, <1>8 DEF Becomes
  <2>4. call[w].op \in Rederives /\ trip.status \in Band
    BY <1>8 DEF Becomes
  <2> HIDE DEF SerialInv
  <2> QED
    BY <2>1, <2>2, <2>3, <2>4 DEF Finished, TripStatus, Band, Rederives
<1> QED
  BY <1>3, <1>4, <1>5, <1>6, <1>7, <1>8 DEF Pending

\* What a save of a booking changes.
LEMMA SavesBooking ==
  ASSUME SerialInv, NEW w \in Workers, BookingSaveUpdate(w)
  PROVE  \E b \in Bookings, row \in BookingRow :
           /\ booking' = [booking EXCEPT ![b] = row]
           /\ booking[b] \in BookingRow /\ booking[b].status \in Active
           /\ row.passenger = booking[b].passenger /\ row.seats = booking[b].seats
           /\ \/ row.status = "CONFIRMED" <=> booking[b].status = "CONFIRMED"
              \/ pc'[w] = "recompute.find"
           /\ booking[b].status = "CONFIRMED" /\ row.status # "CONFIRMED"
                => pc'[w] = "recompute.find" /\ call'[w].op = "cancelBooking"
<1> DEFINE b   == call[w].booking
           row == WrittenBooking(booking[b], bookSeen[w], dirty[w])
<1>1. /\ pc[w] = "booking.update"
      /\ booking' = [booking EXCEPT ![b] = row]
      /\ \/ /\ call[w].op = "accept" \/ call[w].freed
            /\ GoTo(w, "recompute.find")
            /\ UNCHANGED locals
         \/ call[w].op # "accept" /\ ~call[w].freed
  BY DEF BookingSaveUpdate
<1>2. /\ b \in Bookings /\ booking[b] \in BookingRow /\ bookSeen[w] \in BookingRow
      /\ call[w].op \in {"accept", "reject", "cancelBooking", "setPaid"}
  BY <1>1 DEF SerialInv, TypeInv, Loaded, BookingLabels, SaveLabels
<1>3. row \in BookingRow
  BY <1>2, WrittenBookingType
<1>4. /\ row.passenger = booking[b].passenger /\ row.seats = booking[b].seats
      /\ row.status \in {booking[b].status, bookSeen[w].status}
  BY DEF WrittenBooking
<1>5. BookingFresh(w) /\ pc[w] \in BookingLabels
  BY <1>1 DEF SerialInv, Fresh, BookingLabels, SaveLabels
<1>6. pc \in [Workers -> Labels]
  BY DEF SerialInv, TypeInv, TypeOK, LocalsOK
<1>7. CASE /\ call[w].op = "accept" \/ call[w].freed
           /\ GoTo(w, "recompute.find")
           /\ UNCHANGED locals
  <2>1. pc'[w] = "recompute.find" /\ call'[w] = call[w]
    BY <1>6, <1>7 DEF GoTo, locals
  <2>2. booking[b].status \in Active
        /\ (booking[b].status = "CONFIRMED" => call[w].op = "cancelBooking")
    BY <1>5, <1>7 DEF BookingFresh
  <2> HIDE DEF row, b
  <2> QED
    BY <1>1, <1>2, <1>3, <1>4, <2>1, <2>2
<1>8. CASE call[w].op # "accept" /\ ~call[w].freed
  <2>1. booking[b].status \in Active
    BY <1>5 DEF BookingFresh
  <2>2. row.status = "CONFIRMED" <=> booking[b].status = "CONFIRMED"
    BY <1>2, <1>4, <1>5, <1>8 DEF BookingFresh
  <2> HIDE DEF row, b
  <2> QED
    BY <1>1, <1>2, <1>3, <1>4, <2>1, <2>2
<1> QED
  BY <1>1, <1>7, <1>8

\* What a request inserts.
LEMMA InsertsBooking ==
  ASSUME SerialInv, NEW w \in Workers, RequestInsert(w)
  PROVE  \E b \in Bookings, row \in BookingRow :
           /\ booking' = [booking EXCEPT ![b] = row]
           /\ booking[b] = NoRow
           /\ row.passenger = call[w].user /\ row.status = "PENDING"
<1> DEFINE row == [passenger |-> call[w].user, seats |-> call[w].seats,
                   status |-> "PENDING", paid |-> FALSE]
<1>1. call[w].booking \in Bookings /\ row \in BookingRow
  BY DEF RequestInsert, SerialInv, TypeInv, Loaded, RequestLabels, BookingRow, BookingStatus
<1>2. booking[call[w].booking] = NoRow
  BY DEF RequestInsert, SerialInv, TypeInv, Reserved, RequestLabels
<1> QED
  BY <1>1, <1>2 DEF RequestInsert

\* Where the confirmed bookings are the same, so are the seats taken.
LEMMA SeatsSame ==
  ASSUME NEW old, NEW new,
         \A b \in Bookings : new[b].status = "CONFIRMED" <=> old[b].status = "CONFIRMED",
         \A b \in Bookings : new[b].status = "CONFIRMED" => new[b].seats = old[b].seats
  PROVE  SeatsTaken(new) = SeatsTaken(old)
<1>1. SeatPairs(new) = SeatPairs(old)
  BY DEF SeatPairs
<1> QED
  BY <1>1 DEF SeatsTaken

\* Seats change only in a step that unsettles the trip.
LEMMA SeatsUnsettle ==
  ASSUME MaxInFlight = 1, SerialInv, Settled', [Next]_vars
  PROVE  ConfirmedSeats' = ConfirmedSeats
<1>1. CASE UNCHANGED booking
  BY <1>1 DEF ConfirmedSeats
<1>2. ASSUME NEW w \in Workers, BookingSaveUpdate(w) PROVE ConfirmedSeats' = ConfirmedSeats
  <2>1. PICK b \in Bookings, row \in BookingRow :
           /\ booking' = [booking EXCEPT ![b] = row]
           /\ row.seats = booking[b].seats
           /\ \/ row.status = "CONFIRMED" <=> booking[b].status = "CONFIRMED"
              \/ pc'[w] = "recompute.find"
    BY <1>2, SavesBooking
  <2>2. pc'[w] # "recompute.find"
    BY DEF Settled, Unsettled
  <2>3. booking \in [Bookings -> BookingRow \cup {NoRow}]
    BY DEF SerialInv, TypeInv, TypeOK, TablesOK
  <2> QED
    BY <2>1, <2>2, <2>3, SeatsSame DEF ConfirmedSeats
<1>3. ASSUME NEW w \in Workers, RequestInsert(w) PROVE ConfirmedSeats' = ConfirmedSeats
  <2>1. PICK b \in Bookings, row \in BookingRow :
           /\ booking' = [booking EXCEPT ![b] = row]
           /\ booking[b] = NoRow /\ row.status = "PENDING"
    BY <1>3, InsertsBooking
  <2>2. booking \in [Bookings -> BookingRow \cup {NoRow}]
    BY DEF SerialInv, TypeInv, TypeOK, TablesOK
  <2>3. booking[b].status # "CONFIRMED"
    BY <2>1 DEF NoRow
  <2>4. \A a \in Bookings : booking'[a].status = "CONFIRMED" <=> booking[a].status = "CONFIRMED"
    BY <2>1, <2>2, <2>3
  <2>5. \A a \in Bookings : booking'[a].status = "CONFIRMED" => booking'[a].seats = booking[a].seats
    BY <2>1, <2>2, <2>3
  <2>6. SeatsTaken(booking') = SeatsTaken(booking)
    BY <2>4, <2>5, SeatsSame
  <2> QED
    BY <2>6 DEF ConfirmedSeats
<1> QED
  BY <1>1, <1>2, <1>3, Writers

-----------------------------------------------------------------------------
(* One active booking *)

LEMMA OneActiveNext ==
  ASSUME MaxInFlight = 1, SerialInv, OneActiveBooking, \A w \in Workers : NoneActive(w), [Next]_vars
  PROVE  OneActiveBooking'
<1> USE DEF OneActiveBooking
<1>0. booking \in [Bookings -> BookingRow \cup {NoRow}]
  BY DEF SerialInv, TypeInv, TypeOK, TablesOK
<1>1. CASE UNCHANGED booking
  BY <1>1
<1>2. ASSUME NEW w \in Workers, BookingSaveUpdate(w) PROVE OneActiveBooking'
  BY <1>0, <1>2, SavesBooking DEF Active
<1>3. ASSUME NEW w \in Workers, RequestInsert(w) PROVE OneActiveBooking'
  <2>1. PICK b \in Bookings, row \in BookingRow :
           /\ booking' = [booking EXCEPT ![b] = row]
           /\ row.passenger = call[w].user
    BY <1>3, InsertsBooking
  <2>2. \A a \in Bookings : booking[a].status \in {"PENDING", "CONFIRMED"}
                              => booking[a].passenger # call[w].user
    BY <1>3 DEF RequestInsert, NoneActive, HasActiveBooking
  <2> QED
    BY <1>0, <2>1, <2>2
<1> QED
  BY <1>1, <1>2, <1>3, Writers

LEMMA NoneActiveNext ==
  ASSUME MaxInFlight = 1, SerialInv, \A w \in Workers : NoneActive(w), [Next]_vars
  PROVE  \A w \in Workers : NoneActive(w)'
<1> USE DEF NoneActive
<1>1. ASSUME NEW w \in Workers, Start(w) \/ Step(w) \/ (w = Cron /\ Sweep)
      PROVE  NoneActive(w)'
  <2> USE DEF SerialInv, TypeInv, TypeOK, LocalsOK, GoTo, tables, locals
  <2>1. CASE Start(w) \/ (w = Cron /\ Sweep)
    BY <2>1 DEF Start, StartBooking, RequestBooking, AcceptBooking, RejectBooking, CancelBooking,
                SetPaid, StartTrip, UpdateTrip, ConfirmTrip, CancelTrip,
                StartWaitlist, JoinWaitlist, LeaveWaitlist, Sweep, Begin
  <2>2. CASE BookingStep(w)
    <3>1. CASE RequestCheckActive(w) \/ RequestCount(w)
      BY <3>1 DEF RequestCheckActive, RequestCount, End, HasActiveBooking
    <3> QED
      BY <2>2, <3>1 DEF BookingStep, BookingSaveLoad, BookingSaveUpdate, RequestInsert, AcceptLock,
                        AcceptCount, End
  <2>3. CASE TripStep(w)
    BY <2>3 DEF TripStep, TripSaveLoad, TripSaveUpdate, RecomputeFind, RecomputeCount, SweepCount,
                SweepFind, AfterTripSave, End
  <2>4. CASE WaitlistStep(w)
    BY <2>4 DEF WaitlistStep, JoinCheckEntry, JoinCheckActive, JoinInsert, LeaveRemove,
                WaitlistNotify, End
  <2> QED
    BY <1>1, <2>1, <2>2, <2>3, <2>4 DEF Step
<1>2. ASSUME NEW w \in Workers, Start(w) \/ Step(w) \/ (w = Cron /\ Sweep)
      PROVE  \A v \in Workers : NoneActive(v)'
  BY <1>1, <1>2, OthersRest DEF SerialInv
<1>3. CASE UNCHANGED <<tables, lock, pc, locals, history>>
  BY <1>3 DEF tables, locals, HasActiveBooking
<1> QED
  BY <1>2, <1>3, OneWorker

\* One handler at a time, a passenger never has two bookings that are PENDING or
\* CONFIRMED: what assertNoActiveBooking has found still holds at the INSERT, and
\* a save never brings a booking back.
THEOREM OneActiveBookingAlways ==
  ASSUME MaxInFlight = 1
  PROVE  Spec => []OneActiveBooking
<1> DEFINE Inv == SerialInv /\ OneActiveBooking /\ \A w \in Workers : NoneActive(w)
<1>1. Init => Inv
  <2>1. Init => OneActiveBooking /\ \A w \in Workers : NoneActive(w)
    BY DEF Init, OneActiveBooking, NoRow, NoneActive
  <2> QED
    BY <2>1, SerialInvInit
<1>2. Inv /\ [Next]_vars => Inv'
  BY SerialInvNext, OneActiveNext, NoneActiveNext
<1> QED
  BY <1>1, <1>2, PTL DEF Spec

-----------------------------------------------------------------------------
(* The status follows the seats *)

\* How a trip is settled: recomputeStatus saves it, or finds it as it should be.
LEMMA Settles ==
  ASSUME MaxInFlight = 1, SerialInv, ~Settled, Settled', [Next]_vars
  PROVE  \E w \in Workers :
           \/ TripSaveUpdate(w) /\ call[w].op \in Rederives
           \/ UNCHANGED trip /\ DeriveStatus(trip, ConfirmedSeats) = trip.status
<1> USE DEF Unsettled
<1>1. PICK v \in Workers : Unsettled(v)
  BY DEF Settled
<1>2. ~Unsettled(v)'
  BY DEF Settled
<1>3. TripFresh(v) /\ pc \in [Workers -> Labels]
  BY DEF SerialInv, Fresh, TypeInv, TypeOK, LocalsOK
<1>4. CASE UNCHANGED <<tables, lock, pc, locals, history>>
  BY <1>1, <1>2, <1>4 DEF locals
<1>5. ASSUME NEW w \in Workers, Start(w) \/ Step(w) \/ (w = Cron /\ Sweep)
      PROVE  w = v /\ Step(v)
  <2>1. pc[v] # "idle"
    BY <1>1
  <2>2. w = v
    BY <1>5, <2>1, OthersRest DEF SerialInv
  <2>3. \/ Step(w)
        \/ \E l, c : Begin(w, l, c)
    BY <1>5, StartBegins
  <2> QED
    BY <2>1, <2>2, <2>3 DEF Begin
<1>6. ASSUME Step(v)
      PROVE  \/ TripSaveUpdate(v) /\ call[v].op \in Rederives
             \/ UNCHANGED trip /\ DeriveStatus(trip, ConfirmedSeats) = trip.status
  <2> USE DEF GoTo
  <2>1. TripSaveLoad(v) \/ TripSaveUpdate(v) \/ RecomputeFind(v) \/ RecomputeCount(v)
    <3>1. ~BookingStep(v)
      BY <1>1 DEF BookingStep, BookingSaveLoad, BookingSaveUpdate, RequestCheckActive,
                  RequestCount, RequestInsert, AcceptLock, AcceptCount
    <3>2. ~WaitlistStep(v)
      BY <1>1 DEF WaitlistStep, JoinCheckEntry, JoinCheckActive, JoinInsert, LeaveRemove,
                  WaitlistNotify
    <3>3. ~SweepCount(v) /\ ~SweepFind(v)
      BY <1>1 DEF SweepCount, SweepFind
    <3> QED
      BY <1>6, <3>1, <3>2, <3>3 DEF Step, TripStep
  <2>2. ~TripSaveLoad(v) /\ ~RecomputeFind(v)
    BY <1>1, <1>2, <1>3 DEF TripSaveLoad, RecomputeFind
  <2>3. CASE TripSaveUpdate(v)
    BY <1>1, <2>3 DEF TripSaveUpdate
  <2>4. CASE RecomputeCount(v)
    <3>1. tripSeen[v] = trip /\ call[v].op \in Rederives /\ UNCHANGED trip
      BY <1>3, <2>4 DEF RecomputeCount, TripFresh, tables
    <3> QED
      BY <1>2, <1>3, <2>4, <3>1 DEF RecomputeCount
  <2> QED
    BY <2>1, <2>2, <2>3, <2>4
<1> QED
  BY <1>4, <1>5, <1>6, OneWorker

\* Deriving the status of a trip again changes nothing.
LEMMA DeriveIsStable ==
  ASSUME NEW t \in TripRow, NEW e \in TripRow, NEW n,
         t.status \in Band, e.status = DeriveStatus(t, n),
         \A c \in TripColumns \ {"status"} : e[c] = t[c]
  PROVE  DeriveStatus(e, n) = e.status
<1>1. e.min = t.min /\ e.max = t.max
  BY DEF TripColumns
<1> QED
  BY <1>1 DEF DeriveStatus, Band, IsFull, HasMinReached

\* Who runs is one of the operations the run exercises.
OpsRun == \A w \in Workers : call[w].op \in Ops \cup {"none"}

LEMMA OpsRunNext ==
  ASSUME TypeInv, OpsRun, [Next]_vars
  PROVE  OpsRun'
<1> USE DEF TypeInv, TypeOK, LocalsOK
<1>1. ASSUME NEW w \in Workers, UNCHANGED call \/ End(w) PROVE call'[w].op \in Ops \cup {"none"}
  BY <1>1 DEF OpsRun, End, NoCall, Arguments
<1>2. ASSUME NEW w \in Workers, Start(w) \/ Step(w) \/ (w = Cron /\ Sweep)
      PROVE  call'[w].op \in Ops \cup {"none"}
  <2>1. CASE Start(w) \/ (w = Cron /\ Sweep)
    BY <2>1, StartBegins DEF Begin
  <2>2. CASE BookingStep(w)
    BY <1>1, <2>2 DEF BookingStep, BookingSaveLoad, BookingSaveUpdate, RequestCheckActive,
                      RequestCount, RequestInsert, AcceptLock, AcceptCount, locals
  <2>3. CASE TripStep(w)
    BY <1>1, <2>3 DEF TripStep, TripSaveLoad, TripSaveUpdate, RecomputeFind, RecomputeCount,
                      SweepCount, SweepFind, AfterTripSave, locals
  <2>4. CASE WaitlistStep(w)
    BY <1>1, <2>4 DEF WaitlistStep, JoinCheckEntry, JoinCheckActive, JoinInsert, LeaveRemove,
                      WaitlistNotify, locals
  <2> QED
    BY <1>2, <2>1, <2>2, <2>3, <2>4 DEF Step
<1>3. ASSUME NEW w \in Workers, Start(w) \/ Step(w) \/ (w = Cron /\ Sweep) PROVE OpsRun'
  BY <1>2, <1>3, OthersAlone DEF OpsRun
<1>4. CASE UNCHANGED <<tables, lock, pc, locals, history>>
  BY <1>4 DEF locals, OpsRun
<1> QED
  BY <1>3, <1>4, OneWorker

LEMMA StatusFollowsNext ==
  ASSUME MaxInFlight = 1, "update" \notin Ops, SerialInv, OpsRun, StatusFollows, [Next]_vars
  PROVE  StatusFollows'
<1> SUFFICES ASSUME Settled'
             PROVE  trip'.status = DeriveStatus(trip', ConfirmedSeats')
  BY DEF StatusFollows
<1>1. ConfirmedSeats' = ConfirmedSeats
  BY SeatsUnsettle
<1>2. ASSUME NEW w \in Workers, TripSaveUpdate(w)
      PROVE  trip'.status = DeriveStatus(trip', ConfirmedSeats)
  <2>1. /\ trip' = tripSeen[w] /\ trip' \in TripRow /\ trip \in TripRow
        /\ call[w].op # "update"
    BY <1>2, SavesPending DEF SerialInv, TypeInv, TypeOK, TablesOK, OpsRun
  <2>2. /\ trip'.status \in Band => call[w].op \in Rederives
        /\ call[w].op \in Rederives =>
             trip.status \in Band /\ trip'.status = DeriveStatus(trip, ConfirmedSeats)
        /\ \A c \in TripColumns \ {"status"} : trip'[c] = trip[c]
    BY <1>2, <2>1, SavesPending, PendingStatus
  <2>3. CASE call[w].op \in Rederives
    BY <2>1, <2>2, <2>3, DeriveIsStable
  <2>4. CASE trip'.status \notin Band
    BY <2>4 DEF DeriveStatus
  <2> QED
    BY <2>2, <2>3, <2>4
<1>3. ASSUME UNCHANGED trip PROVE trip.status = DeriveStatus(trip, ConfirmedSeats)
  <2>1. CASE Settled
    BY <2>1 DEF StatusFollows
  <2>2. CASE ~Settled
    <3>1. \E w \in Workers :
            \/ TripSaveUpdate(w)
            \/ DeriveStatus(trip, ConfirmedSeats) = trip.status
      BY <2>2, Settles
    <3> QED
      BY <1>2, <1>3, <3>1
  <2> QED
    BY <2>1, <2>2
<1> QED
  BY <1>1, <1>2, <1>3, Writers

\* A trip no handler works at is settled.
LEMMA QuietIsSettled ==
  ASSUME Quiet
  PROVE  Settled
  BY DEF Quiet, Busy, Settled, Unsettled

\* One handler at a time and no PATCH, the status of the trip is the one its
\* confirmed seats call for whenever no handler runs: every save that moves
\* seats is followed by recomputeStatus before the next handler starts.
THEOREM StatusTracksSeatsAlways ==
  ASSUME MaxInFlight = 1, "update" \notin Ops
  PROVE  Spec => []StatusTracksSeats
<1> DEFINE Inv == SerialInv /\ OpsRun /\ StatusFollows
<1>1. Init => Inv
  <2> SUFFICES ASSUME Init PROVE OpsRun /\ StatusFollows
    BY SerialInvInit
  <2>1. OpsRun
    BY DEF Init, OpsRun, NoCall, Arguments
  <2>2. trip \in TripRow /\ trip.status = "OPEN" /\ trip.min # 0 /\ trip.min <= trip.max
    BY ChoicesAssumption DEF Init, Created, ValidCapacity
  <2>3. ConfirmedSeats = 0
    BY NoSeats DEF Init, NoRow, ConfirmedSeats
  <2>4. DeriveStatus(trip, 0) = "OPEN"
    BY <2>2 DEF DeriveStatus, IsFull, HasMinReached, TripRow
  <2> QED
    BY <2>1, <2>2, <2>3, <2>4 DEF StatusFollows
<1>2. Inv /\ [Next]_vars => Inv'
  <2>1. SerialInv => TypeInv
    BY DEF SerialInv
  <2> QED
    BY <2>1, SerialInvNext, OpsRunNext, StatusFollowsNext
<1>3. Inv => StatusTracksSeats
  BY QuietIsSettled DEF StatusFollows, StatusTracksSeats
<1> QED
  BY <1>1, <1>2, <1>3, PTL DEF Spec

-----------------------------------------------------------------------------
(* The terms of the trip, and what a driver confirms *)

\* A save that is an edit was validated as a whole; any other keeps the terms.
LEMMA SavesTerms ==
  ASSUME SerialInv, NEW w \in Workers, TripSaveUpdate(w)
  PROVE  \/ /\ trip.status = "OPEN"
            /\ ValidCapacity(trip', VehicleSeats) /\ ValidSchedule(trip', ConcertAt)
         \/ \A c \in TripColumns \ {"status"} : trip'[c] = trip[c]
<1>1. trip' = tripSeen[w] /\ Pending(w)
  BY SavesPending
<1>2. CASE call[w].op = "update"
  BY <1>1, <1>2 DEF Pending, Becomes, Edits, Rederives, ValidCapacity, ValidSchedule
<1>3. CASE call[w].op # "update"
  BY <1>1, <1>3, PendingStatus
<1> QED
  BY <1>2, <1>3

\* One handler at a time, no sequence of edits takes a trip out of FR-TRIP-02,
\* though each body names some of the columns only: what the entity merged is
\* what the row becomes.
THEOREM TripStaysValidAlways ==
  ASSUME MaxInFlight = 1
  PROVE  Spec => []TripStaysValid
<1>1. Init => SerialInv /\ TripStaysValid
  BY SerialInvInit DEF Init, Created, TripStaysValid
<1>2. ASSUME SerialInv, TripStaysValid, [Next]_vars PROVE TripStaysValid'
  <2> USE DEF TripStaysValid
  <2>1. ASSUME NEW w \in Workers, TripSaveUpdate(w) PROVE TripStaysValid'
    <3>1. CASE ValidCapacity(trip', VehicleSeats) /\ ValidSchedule(trip', ConcertAt)
      BY <3>1 DEF ValidCapacity, ValidSchedule
    <3>2. CASE \A c \in TripColumns \ {"status"} : trip'[c] = trip[c]
      <4>1. /\ trip'.min = trip.min /\ trip'.max = trip.max
            /\ trip'.deadline = trip.deadline /\ trip'.departure = trip.departure
        BY <3>2 DEF TripColumns
      <4> QED
        BY <1>2, <4>1 DEF ValidCapacity, ValidSchedule
    <3> QED
      BY <1>2, <2>1, <3>1, <3>2, SavesTerms
  <2>2. CASE UNCHANGED trip
    BY <1>2, <2>2 DEF ValidCapacity, ValidSchedule
  <2> QED
    BY <1>2, <2>1, <2>2, Writers
<1> QED
  BY <1>1, <1>2, SerialInvNext, PTL DEF Spec

\* One handler at a time, what the passengers agreed to changes only while the
\* trip is OPEN: an edit that was let in finds it OPEN still when it saves.
THEOREM TermsFixed ==
  ASSUME MaxInFlight = 1
  PROVE  Spec => TermsFixedOnceCommitted
<1>1. ASSUME SerialInv, [Next]_vars
      PROVE  [trip.status # "OPEN" => \A c \in TripColumns \ {"status"} : trip'[c] = trip[c]]_trip
  BY <1>1, SavesTerms, Writers
<1> QED
  BY <1>1, SerialInvInit, SerialInvNext, PTL DEF Spec, TermsFixedOnceCommitted

LEMMA ReadyHasMinimumNext ==
  ASSUME MaxInFlight = 1, SerialInv, ReadyHasMinimum, [Next]_vars
  PROVE  ReadyHasMinimum'
<1> SUFFICES ASSUME Settled', trip'.status = "READY"
             PROVE  HasMinReached(trip, ConfirmedSeats) /\ trip'.min = trip.min
  <2>1. Settled' => ConfirmedSeats' = ConfirmedSeats
    BY SeatsUnsettle
  <2> QED
    BY <2>1 DEF ReadyHasMinimum, HasMinReached
<1>0. ASSUME DeriveStatus(trip, ConfirmedSeats) = "READY", trip.status \in Band
      PROVE  HasMinReached(trip, ConfirmedSeats)
  BY <1>0 DEF DeriveStatus
<1>1. ASSUME NEW w \in Workers, TripSaveUpdate(w)
      PROVE  HasMinReached(trip, ConfirmedSeats) /\ trip'.min = trip.min
  <2>1. trip' = tripSeen[w] /\ Pending(w)
    BY <1>1, SavesPending
  <2>2. call[w].op \in Rederives /\ DeriveStatus(trip, ConfirmedSeats) = "READY"
    BY <2>1, PendingStatus
  <2>3. trip.status \in Band /\ \A c \in TripColumns \ {"status"} : trip'[c] = trip[c]
    BY <2>1, <2>2, PendingStatus DEF Rederives
  <2> QED
    BY <1>0, <2>2, <2>3 DEF TripColumns
<1>2. ASSUME UNCHANGED trip PROVE HasMinReached(trip, ConfirmedSeats)
  <2>1. CASE Settled
    BY <1>2, <2>1 DEF ReadyHasMinimum
  <2>2. CASE ~Settled
    <3>1. \E w \in Workers :
            \/ TripSaveUpdate(w)
            \/ DeriveStatus(trip, ConfirmedSeats) = trip.status
      BY <2>2, Settles
    <3> QED
      BY <1>0, <1>1, <1>2, <3>1 DEF Band
  <2> QED
    BY <2>1, <2>2
<1> QED
  BY <1>1, <1>2, Writers

\* One handler at a time, whatever edits the driver makes, a trip is confirmed
\* only with its minimum: a READY trip has it whenever its status has caught up
\* with its seats, and confirm() runs beside no handler that moves seats.
THEOREM ConfirmedHasMinimum ==
  ASSUME MaxInFlight = 1
  PROVE  Spec => ConfirmedWithMinimum
<1> DEFINE Inv == SerialInv /\ ReadyHasMinimum
<1>1. Init => Inv
  BY SerialInvInit DEF Init, Created, ReadyHasMinimum
<1>2. Inv /\ [Next]_vars => Inv'
  BY SerialInvNext, ReadyHasMinimumNext
<1>3. ASSUME Inv, [Next]_vars
      PROVE  [trip'.status = "CONFIRMED" /\ trip.status # "CONFIRMED"
                => HasMinReached(trip, ConfirmedSeats)]_trip
  <2> SUFFICES ASSUME NEW w \in Workers, TripSaveUpdate(w),
                      trip'.status = "CONFIRMED", trip.status # "CONFIRMED"
               PROVE  HasMinReached(trip, ConfirmedSeats)
    BY <1>3, Writers
  <2>1. call[w].op = "confirm" /\ trip.status = "READY"
    BY <1>3, SavesPending, PendingStatus
  <2>2. pc[w] = "trip.update" /\ \A v \in Workers : pc[v] # "idle" => v = w
    BY <1>3 DEF TripSaveUpdate, SerialInv, Alone
  <2>3. Settled
    BY <2>1, <2>2 DEF Settled, Unsettled, Rederives
  <2> QED
    BY <1>3, <2>1, <2>3 DEF ReadyHasMinimum
<1> QED
  BY <1>1, <1>2, <1>3, PTL DEF Spec, ConfirmedWithMinimum

-----------------------------------------------------------------------------
(* Who is told *)

\* Mail about the trip goes out with a save of its row, and nobody but a save
\* of a booking makes anyone owed a mail.
LEMMA MailWriters ==
  ASSUME [Next]_vars
  PROVE  /\ UNCHANGED mail \/ \E w \in Workers : TripSaveUpdate(w)
         /\ \/ UNCHANGED <<waitlist, owed>>
            \/ \E w \in Workers : \/ BookingSaveUpdate(w) /\ UNCHANGED waitlist
                                  \/ JoinInsert(w) \/ LeaveRemove(w) \/ WaitlistNotify(w)
<1> USE DEF tables, history
<1>1. ASSUME NEW w \in Workers, Start(w) PROVE UNCHANGED <<waitlist, history>>
  <2>1. CASE StartBooking(w)
    BY <2>1 DEF StartBooking, RequestBooking, AcceptBooking, RejectBooking, CancelBooking, SetPaid
  <2>2. CASE StartTrip(w)
    BY <2>2 DEF StartTrip, UpdateTrip, ConfirmTrip, CancelTrip
  <2>3. CASE StartWaitlist(w)
    BY <2>3 DEF StartWaitlist, JoinWaitlist, LeaveWaitlist
  <2> QED
    BY <1>1, <2>1, <2>2, <2>3 DEF Start
<1>2. ASSUME NEW w \in Workers, BookingStep(w)
      PROVE  UNCHANGED <<mail, waitlist>> /\ (UNCHANGED owed \/ BookingSaveUpdate(w))
  BY <1>2 DEF BookingStep, BookingSaveLoad, BookingSaveUpdate, RequestCheckActive, RequestCount,
              RequestInsert, AcceptLock, AcceptCount
<1>3. ASSUME NEW w \in Workers, TripStep(w)
      PROVE  UNCHANGED <<waitlist, owed>> /\ (UNCHANGED mail \/ TripSaveUpdate(w))
  BY <1>3 DEF TripStep, TripSaveLoad, TripSaveUpdate, RecomputeFind, RecomputeCount,
              SweepCount, SweepFind
<1>4. ASSUME NEW w \in Workers, WaitlistStep(w)
      PROVE  /\ UNCHANGED mail
             /\ \/ UNCHANGED <<waitlist, owed>>
                \/ JoinInsert(w) \/ LeaveRemove(w) \/ WaitlistNotify(w)
  BY <1>4 DEF WaitlistStep, JoinCheckEntry, JoinCheckActive, JoinInsert, LeaveRemove, WaitlistNotify
<1>5. Sweep \/ Tick \/ UNCHANGED vars => UNCHANGED <<waitlist, history>>
  BY DEF Sweep, Tick, vars
<1>6. CASE \E w \in Requests : Start(w)
  BY <1>1, <1>6 DEF Workers
<1>7. CASE \E w \in Workers : Step(w)
  BY <1>2, <1>3, <1>4, <1>7 DEF Step
<1> QED
  BY <1>5, <1>6, <1>7 DEF Next

\* One handler at a time, a trip that is cancelled or completed is mailed so
\* once, by the save that ended it: nothing ends it twice, no edit or
\* recomputation brings it back, and the sweep does not come again.
THEOREM EndIsMailedOnceAlways ==
  ASSUME MaxInFlight = 1, MailCap # 0
  PROVE  Spec => []EndIsMailedOnce
<1> DEFINE Inv == SerialInv /\ MailedOnce
<1>1. Init => Inv
  BY SerialInvInit DEF Init, Created, MailedOnce, Finished, TripEvents
<1>2. ASSUME Inv, [Next]_vars PROVE MailedOnce'
  <2>1. CASE UNCHANGED <<trip, mail>>
    BY <1>2, <2>1 DEF MailedOnce
  <2>2. ASSUME NEW w \in Workers, TripSaveUpdate(w) PROVE MailedOnce'
    <3> DEFINE e == tripSeen[w].status
    <3>1. /\ trip'.status = e /\ e \in TripStatus /\ trip.status \notin Finished
          /\ call[w].op = "update" => e = "OPEN"
      BY <1>2, <2>2, SavesPending, PendingStatus
    <3>2. /\ mail \in [TripEvents -> 0..MailCap]
          /\ \A s \in Finished : mail[s] = 0
          /\ MailCap \in Nat
      BY <1>2, <3>1, BoundsAssumption DEF SerialInv, TypeInv, TypeOK, TablesOK, MailedOnce
    <3>3. mail' = IF e \in TripEvents /\ call[w].op # "update"
                  THEN [mail EXCEPT ![e] = IF @ < MailCap THEN @ + 1 ELSE @]
                  ELSE mail
      BY <2>2 DEF TripSaveUpdate, Notify
    <3> HIDE DEF e
    <3>4. CASE e \in Finished
      <4>1. e \in TripEvents /\ call[w].op # "update" /\ mail[e] = 0
        BY <3>1, <3>2, <3>4 DEF Finished, TripEvents
      <4>2. mail' = [mail EXCEPT ![e] = 1]
        <5>1. 0 < MailCap
          BY <3>2
        <5>2. mail' = [mail EXCEPT ![e] = IF mail[e] < MailCap THEN mail[e] + 1 ELSE mail[e]]
          BY <3>3, <4>1
        <5> QED
          BY <4>1, <5>1, <5>2
      <4> QED
        BY <3>1, <3>2, <3>4, <4>1, <4>2 DEF MailedOnce
    <3>5. CASE e \notin Finished
      BY <3>1, <3>2, <3>3, <3>5 DEF MailedOnce
    <3> QED
      BY <3>4, <3>5
  <2> QED
    BY <1>2, <2>1, <2>2, MailWriters, Writers
<1>3. Inv => EndIsMailedOnce
  BY DEF MailedOnce, EndIsMailedOnce
<1> QED
  BY <1>1, <1>2, <1>3, SerialInvNext, PTL DEF Spec

\* The save that makes waiters owed a mail is a cancellation that goes on.
LEMMA SavesOwed ==
  ASSUME SerialInv, NEW w \in Workers, BookingSaveUpdate(w), owed' # owed
  PROVE  owed' = owed \cup Waiting /\ Telling(w)'
<1>1. /\ owed' = owed \cup Waiting
      /\ booking[call[w].booking].status = "CONFIRMED"
      /\ booking'[call[w].booking].status # "CONFIRMED"
  <2>1. booking \in [Bookings -> BookingRow \cup {NoRow}] /\ call[w].booking \in Bookings
    BY DEF BookingSaveUpdate, SerialInv, TypeInv, TypeOK, TablesOK, Loaded, BookingLabels, SaveLabels
  <2> QED
    BY <2>1 DEF BookingSaveUpdate
<1>2. pc'[w] = "recompute.find" /\ call'[w].op = "cancelBooking"
  <2>1. PICK b \in Bookings, row \in BookingRow :
           /\ booking' = [booking EXCEPT ![b] = row]
           /\ booking[b].status = "CONFIRMED" /\ row.status # "CONFIRMED"
                => pc'[w] = "recompute.find" /\ call'[w].op = "cancelBooking"
    BY SavesBooking
  <2>2. booking \in [Bookings -> BookingRow \cup {NoRow}]
    BY DEF SerialInv, TypeInv, TypeOK, TablesOK
  <2> QED
    BY <1>1, <2>1, <2>2
<1> QED
  BY <1>1, <1>2 DEF Telling, Unsettled

\* The cancellation that owes mails goes on until it has sent them.
LEMMA TellingStays ==
  ASSUME MaxInFlight = 1, SerialInv, NEW v \in Workers, Telling(v), [Next]_vars
  PROVE  Telling(v)' \/ WaitlistNotify(v)
<1> USE DEF Telling, Unsettled, GoTo, locals
<1>1. /\ pc[v] # "idle" /\ call[v].op = "cancelBooking"
      /\ pc \in [Workers -> Labels] /\ call \in [Workers -> Calls]
  BY DEF SerialInv, TypeInv, TypeOK, LocalsOK
<1>2. CASE UNCHANGED <<tables, lock, pc, locals, history>>
  BY <1>2
<1>3. ASSUME NEW w \in Workers, Start(w) \/ Step(w) \/ (w = Cron /\ Sweep)
      PROVE  Step(v)
  <2>1. w = v
    BY <1>1, <1>3, OthersRest DEF SerialInv
  <2>2. Step(w) \/ \E l, c : Begin(w, l, c)
    BY <1>3, StartBegins
  <2> QED
    BY <1>1, <2>1, <2>2 DEF Begin
<1>4. CASE BookingStep(v)
  BY <1>4 DEF BookingStep, BookingSaveLoad, BookingSaveUpdate, RequestCheckActive,
              RequestCount, RequestInsert, AcceptLock, AcceptCount
<1>5. CASE TripStep(v)
  BY <1>1, <1>5 DEF TripStep, TripSaveLoad, TripSaveUpdate, RecomputeFind, RecomputeCount,
                    SweepCount, SweepFind, AfterTripSave, Rederives
<1>6. CASE WaitlistStep(v)
  BY <1>6 DEF WaitlistStep, JoinCheckEntry, JoinCheckActive, JoinInsert, LeaveRemove, WaitlistNotify
<1> QED
  BY <1>2, <1>3, <1>4, <1>5, <1>6, OneWorker DEF Step

LEMMA OwedIsComingNext ==
  ASSUME MaxInFlight = 1, SerialInv, OwedIsComing, [Next]_vars
  PROVE  OwedIsComing'
<1>1. CASE owed = {}
  <2> SUFFICES ASSUME owed' # {} PROVE OwedIsComing'
    BY DEF OwedIsComing
  <2>1. PICK w \in Workers : BookingSaveUpdate(w) /\ UNCHANGED waitlist
    BY <1>1, MailWriters DEF JoinInsert, LeaveRemove, WaitlistNotify, history
  <2>2. owed' = Waiting /\ Telling(w)'
    BY <1>1, <2>1, SavesOwed
  <2>3. Waiting' = Waiting
    BY <2>1 DEF Waiting
  <2> QED
    BY <2>2, <2>3 DEF OwedIsComing
<1>2. CASE owed # {}
  <2>1. PICK v \in Workers : Telling(v)
    BY <1>2 DEF OwedIsComing
  <2>2. CASE WaitlistNotify(v)
    BY <1>2, <2>2 DEF WaitlistNotify, OwedIsComing
  <2>3. CASE Telling(v)' /\ ~WaitlistNotify(v)
    <3>1. UNCHANGED <<waitlist, owed>>
      <4>1. \A w \in Workers : Step(w) => w = v
        BY <2>1, StepsBusy DEF SerialInv, Alone, Telling, Unsettled
      <4>2. ASSUME NEW w \in Workers,
                   BookingSaveUpdate(w) \/ JoinInsert(w) \/ LeaveRemove(w) \/ WaitlistNotify(w)
            PROVE  FALSE
        <5>1. w = v
          BY <4>1, <4>2 DEF Step, BookingStep, WaitlistStep
        <5> QED
          BY <2>1, <2>3, <4>2, <5>1
             DEF Telling, Unsettled, BookingSaveUpdate, JoinInsert, LeaveRemove
      <4> QED
        BY <4>2, MailWriters
    <3> QED
      BY <1>2, <2>3, <3>1 DEF OwedIsComing, Waiting
  <2> QED
    BY <2>1, <2>2, <2>3, TellingStays
<1> QED
  BY <1>1, <1>2

\* One handler at a time, everyone who waits while a confirmed booking is
\* cancelled is mailed before the cancellation ends, through recomputeStatus
\* and the save it may make, and nobody is lost between.
THEOREM WaitersAreToldAlways ==
  ASSUME MaxInFlight = 1
  PROVE  Spec => []WaitersAreTold
<1> DEFINE Inv == SerialInv /\ OwedIsComing
<1>1. Init => Inv
  BY SerialInvInit DEF Init, OwedIsComing
<1>2. Inv /\ [Next]_vars => Inv'
  BY SerialInvNext, OwedIsComingNext
<1>3. Inv => WaitersAreTold
  BY DEF OwedIsComing, WaitersAreTold, Quiet, Busy, Telling, Unsettled
<1> QED
  BY <1>1, <1>2, <1>3, PTL DEF Spec

=============================================================================
