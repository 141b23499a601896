----------------------------- MODULE TripsService -----------------------------
(***************************************************************************)
(* trips.service.ts: the driver's update, confirm and cancel, and the      *)
(* sweep TripSweepJob runs every hour.  Creation is Init; recomputeStatus  *)
(* and save() are the shared steps of Store.                               *)
(***************************************************************************)
EXTENDS Store

\* Faulty variant: the body is validated where it speaks, not merged.
UpdateTripUnmerged(w, patch) ==
  /\ IsEditable(trip.status)
  /\ "max" \in DOMAIN patch => patch["max"] <= VehicleSeats
  /\ tripSeen' = [tripSeen EXCEPT ![w] = Written(trip, patch, DOMAIN patch)]
  /\ Begin(w, "trip.load", OnTrip("update"))
  /\ UNCHANGED <<tables, lock, clock, bookSeen, dirty, history>>

\* Faulty variant: any trip that is not finished may be edited.
UpdateUnfinishedTrip(w, patch) ==
  /\ trip.status \notin Finished
  /\ LET merged == Written(trip, patch, DOMAIN patch) IN
     /\ ValidCapacity(merged, VehicleSeats)
     /\ ValidSchedule(merged, ConcertAt)
     /\ tripSeen' = [tripSeen EXCEPT ![w] = merged]
  /\ Begin(w, "trip.load", OnTrip("update"))
  /\ UNCHANGED <<tables, lock, clock, bookSeen, dirty, history>>

\* update(): the row is read, must be OPEN, and the merged body must be
\* valid.  Vehicle and concert are fixed here.  Confirmed seats are not read.
UpdateTrip(w, patch) ==
  /\ IsEditable(trip.status)
  /\ LET merged == Written(trip, patch, DOMAIN patch) IN
     /\ ValidCapacity(merged, VehicleSeats)
     /\ ValidSchedule(merged, ConcertAt)
     /\ tripSeen' = [tripSeen EXCEPT ![w] = merged]
  /\ Begin(w, "trip.load", OnTrip("update"))
  /\ UNCHANGED <<tables, lock, clock, bookSeen, dirty, history>>

\* confirm(): the seats counted on the way are not part of the decision.
ConfirmTrip(w) ==
  /\ IsConfirmable(trip.status)
  /\ Begin(w, "trip.load", OnTrip("confirm"))
  /\ tripSeen' = [tripSeen EXCEPT ![w] = [trip EXCEPT !.status = "CONFIRMED"]]
  /\ UNCHANGED <<tables, lock, clock, bookSeen, dirty, history>>

CancelTrip(w) ==
  /\ IsCancellable(trip.status)
  /\ Begin(w, "trip.load", OnTrip("cancelTrip"))
  /\ tripSeen' = [tripSeen EXCEPT ![w] = [trip EXCEPT !.status = "CANCELLED"]]
  /\ UNCHANGED <<tables, lock, clock, bookSeen, dirty, history>>

-----------------------------------------------------------------------------
(* sweepExpired *)

\* Faulty variant: a deadline that is now has not passed.
SweepLate ==
  LET c == Arguments("sweep", Nobody, NoBooking, 0, clock, FALSE) IN
  /\ \/ /\ trip.status \in Band
        /\ trip.deadline < clock
        /\ Begin(Cron, "sweep.count", c)
        /\ tripSeen' = [tripSeen EXCEPT ![Cron] = trip]
     \/ /\ ~(trip.status \in Band /\ trip.deadline < clock)
        /\ Begin(Cron, "sweep.find", c)
        /\ UNCHANGED tripSeen
  /\ UNCHANGED <<tables, lock, clock, bookSeen, dirty, history>>

\* The clock is read, then the trips in the band; one whose deadline has
\* passed goes on to the count.
Sweep ==
  LET c == Arguments("sweep", Nobody, NoBooking, 0, clock, FALSE) IN
  /\ \/ /\ trip.status \in Band
        /\ trip.deadline <= clock
        /\ Begin(Cron, "sweep.count", c)
        /\ tripSeen' = [tripSeen EXCEPT ![Cron] = trip]
     \/ /\ ~(trip.status \in Band /\ trip.deadline <= clock)
        /\ Begin(Cron, "sweep.find", c)
        /\ UNCHANGED tripSeen
  /\ UNCHANGED <<tables, lock, clock, bookSeen, dirty, history>>

SweepCount(w) ==
  /\ pc[w] = "sweep.count"
  /\ \/ /\ HasMinReached(tripSeen[w], ConfirmedSeats)
        /\ GoTo(w, "sweep.find")
        /\ UNCHANGED tripSeen
     \/ /\ ~HasMinReached(tripSeen[w], ConfirmedSeats)
        /\ tripSeen' = [tripSeen EXCEPT ![w] = [tripSeen[w] EXCEPT !.status = "CANCELLED"]]
        /\ GoTo(w, "trip.load")
  /\ UNCHANGED <<tables, lock, clock, call, bookSeen, dirty, history>>

\* Faulty variant: the sweep stops after its first half.
SweepFindNothing(w) ==
  /\ pc[w] = "sweep.find"
  /\ End(w)
  /\ UNCHANGED <<tables, lock, clock, history>>

\* The second half: CONFIRMED trips whose departure has passed, by the time
\* read at the start of the sweep.
SweepFind(w) ==
  /\ pc[w] = "sweep.find"
  /\ \/ /\ trip.status = "CONFIRMED"
        /\ trip.departure <= call[w].now
        /\ tripSeen' = [tripSeen EXCEPT ![w] = [trip EXCEPT !.status = "COMPLETED"]]
        /\ GoTo(w, "trip.load")
        /\ UNCHANGED <<call, bookSeen, dirty>>
     \/ /\ ~(trip.status = "CONFIRMED" /\ trip.departure <= call[w].now)
        /\ End(w)
  /\ UNCHANGED <<tables, lock, clock, history>>

-----------------------------------------------------------------------------

StartTrip(w) ==
  \/ \E patch \in PatchChoices : UpdateTrip(w, patch)
  \/ ConfirmTrip(w)
  \/ CancelTrip(w)

TripStep(w) ==
  \/ TripSaveLoad(w)
  \/ TripSaveUpdate(w)
  \/ RecomputeFind(w)
  \/ RecomputeCount(w)
  \/ SweepCount(w)
  \/ SweepFind(w)
=============================================================================
