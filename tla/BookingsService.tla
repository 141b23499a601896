--------------------------- MODULE BookingsService ---------------------------
(***************************************************************************)
(* bookings.service.ts: request, accept, reject, cancel and setPaid, one   *)
(* action per awaited call.  The loads and updates of save(), and          *)
(* recomputeStatus, are the shared steps of Store.                         *)
(***************************************************************************)
EXTENDS Store

\* request(): the trip is read and must be bookable; the driver cannot ask.
RequestBooking(w, p, n) ==
  /\ p # Driver
  /\ IsBookable(trip.status)
  /\ \E b \in FreshIds :
       Begin(w, "request.active", Arguments("request", p, b, n, 0, FALSE))
  /\ tripSeen' = [tripSeen EXCEPT ![w] = trip]
  /\ UNCHANGED <<tables, lock, clock, bookSeen, dirty, history>>

\* assertNoActiveBooking: an active booking makes the request throw.
RequestCheckActive(w) ==
  /\ pc[w] = "request.active"
  /\ \/ /\ HasActiveBooking(call[w].user)
        /\ End(w)
     \/ /\ ~HasActiveBooking(call[w].user)
        /\ GoTo(w, "request.count")
        /\ UNCHANGED locals
  /\ UNCHANGED <<tables, lock, clock, history>>

\* The soft capacity check, against the trip read at the start.
RequestCount(w) ==
  /\ pc[w] = "request.count"
  /\ \/ /\ ConfirmedSeats + call[w].seats > tripSeen[w].max
        /\ End(w)
     \/ /\ ConfirmedSeats + call[w].seats <= tripSeen[w].max
        /\ GoTo(w, "request.insert")
        /\ UNCHANGED locals
  /\ UNCHANGED <<tables, lock, clock, history>>

RequestInsert(w) ==
  /\ pc[w] = "request.insert"
  /\ TripRowFree
  /\ booking' = [booking EXCEPT ![call[w].booking] =
       [passenger |-> call[w].user, seats |-> call[w].seats,
        status |-> "PENDING", paid |-> FALSE]]
  /\ End(w)
  /\ UNCHANGED <<trip, waitlist, lock, clock, history>>

-----------------------------------------------------------------------------

\* accept(): the booking is read, and tested, before the transaction starts.
AcceptBooking(w, b) ==
  /\ booking[b].status = "PENDING"
  /\ Begin(w, "accept.lock", OnBooking("accept", b))
  /\ bookSeen' = [bookSeen EXCEPT ![w] = booking[b]]
  /\ UNCHANGED <<tables, lock, clock, tripSeen, dirty, history>>

\* Faulty variant: the trip is read without a lock.
AcceptReadUnlocked(w) ==
  /\ pc[w] = "accept.lock"
  /\ IsBookable(trip.status)
  /\ tripSeen' = [tripSeen EXCEPT ![w] = trip]
  /\ GoTo(w, "accept.count")
  /\ UNCHANGED <<tables, lock, clock, call, bookSeen, dirty, history>>

\* SELECT ... FOR UPDATE waits for the row, then returns its latest version.
AcceptLock(w) ==
  /\ pc[w] = "accept.lock"
  /\ TripRowFree
  /\ \/ /\ ~IsBookable(trip.status)
        /\ End(w)
        /\ UNCHANGED lock
     \/ /\ IsBookable(trip.status)
        /\ lock' = w
        /\ tripSeen' = [tripSeen EXCEPT ![w] = trip]
        /\ GoTo(w, "accept.count")
        /\ UNCHANGED <<call, bookSeen, dirty>>
  /\ UNCHANGED <<tables, clock, history>>

\* Faulty variant: a refusal returns without ending the transaction.
AcceptKeepsLock(w) ==
  /\ pc[w] = "accept.count"
  /\ \/ /\ ConfirmedSeats + bookSeen[w].seats > tripSeen[w].max
        /\ End(w)
     \/ /\ ConfirmedSeats + bookSeen[w].seats <= tripSeen[w].max
        /\ bookSeen' = [bookSeen EXCEPT ![w] = [bookSeen[w] EXCEPT !.status = "CONFIRMED"]]
        /\ GoTo(w, "booking.load")
        /\ UNCHANGED <<call, tripSeen, dirty>>
  /\ UNCHANGED <<tables, lock, clock, history>>

\* The capacity check inside the transaction; a failure rolls back.
AcceptCount(w) ==
  /\ pc[w] = "accept.count"
  /\ \/ /\ ConfirmedSeats + bookSeen[w].seats > tripSeen[w].max
        /\ lock' = Nobody
        /\ End(w)
     \/ /\ ConfirmedSeats + bookSeen[w].seats <= tripSeen[w].max
        /\ bookSeen' = [bookSeen EXCEPT ![w] = [bookSeen[w] EXCEPT !.status = "CONFIRMED"]]
        /\ GoTo(w, "booking.load")
        /\ UNCHANGED <<lock, call, tripSeen, dirty>>
  /\ UNCHANGED <<tables, clock, history>>

-----------------------------------------------------------------------------

RejectBooking(w, b) ==
  /\ booking[b].status = "PENDING"
  /\ Begin(w, "booking.load", OnBooking("reject", b))
  /\ bookSeen' = [bookSeen EXCEPT ![w] = [booking[b] EXCEPT !.status = "REJECTED"]]
  /\ UNCHANGED <<tables, lock, clock, tripSeen, dirty, history>>

\* Faulty variant: no cancellation is taken for one that frees seats.
CancelFreesNothing(w, b) ==
  /\ booking[b].status \in {"PENDING", "CONFIRMED"}
  /\ Begin(w, "booking.load", OnBooking("cancelBooking", b))
  /\ bookSeen' = [bookSeen EXCEPT ![w] =
                    [booking[b] EXCEPT !.status = "CANCELLED_BY_PASSENGER"]]
  /\ UNCHANGED <<tables, lock, clock, tripSeen, dirty, history>>

\* cancel(): wasConfirmed is what the read returned, not what is overwritten.
CancelBooking(w, b) ==
  /\ booking[b].status \in {"PENDING", "CONFIRMED"}
  /\ Begin(w, "booking.load",
           Arguments("cancelBooking", Nobody, b, 0, 0, booking[b].status = "CONFIRMED"))
  /\ bookSeen' = [bookSeen EXCEPT ![w] =
                    [booking[b] EXCEPT !.status = "CANCELLED_BY_PASSENGER"]]
  /\ UNCHANGED <<tables, lock, clock, tripSeen, dirty, history>>

SetPaid(w, b, paid) ==
  /\ booking[b].status = "CONFIRMED"
  /\ Begin(w, "booking.load", OnBooking("setPaid", b))
  /\ bookSeen' = [bookSeen EXCEPT ![w] = [booking[b] EXCEPT !.paid = paid]]
  /\ UNCHANGED <<tables, lock, clock, tripSeen, dirty, history>>

-----------------------------------------------------------------------------

StartBooking(w) ==
  \/ \E p \in Users, n \in SeatChoices : RequestBooking(w, p, n)
  \/ \E b \in Bookings : \/ AcceptBooking(w, b)
                         \/ RejectBooking(w, b)
                         \/ CancelBooking(w, b)
                         \/ \E paid \in BOOLEAN : SetPaid(w, b, paid)

BookingStep(w) ==
  \/ BookingSaveLoad(w)
  \/ BookingSaveUpdate(w)
  \/ RequestCheckActive(w)
  \/ RequestCount(w)
  \/ RequestInsert(w)
  \/ AcceptLock(w)
  \/ AcceptCount(w)
=============================================================================
