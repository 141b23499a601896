------------------------------- MODULE Garage -------------------------------
(***************************************************************************)
(* The vehicles of a driver and the trips he writes with them: the         *)
(* handlers of VehiclesService and of TripsService.create and update, step *)
(* by step between their awaits, and the vehicles page that drives the     *)
(* former (vehicles.ts).  A trip row and its stops are written without a   *)
(* transaction.                                                            *)
(*                                                                         *)
(* Every request is sent once, by one driver from several tabs; a vehicle  *)
(* is its seats, a trip its vehicle and the seats it offers.               *)
(***************************************************************************)
EXTENDS Naturals, FiniteSets

CONSTANTS
  Requests,
  Vehicles,  \* ids of vehicles, each given out once
  Rides,     \* ids of trips, each given out once
  Nothing,
  Bodies,    \* the bodies requests may have
  MaxSeats   \* bound: seats of a vehicle, seats offered by a trip

Writes == {"addVehicle", "editVehicle", "removeVehicle", "create", "update"}

ASSUME GarageAssumption ==
  /\ MaxSeats \in Nat \ {0}
  /\ Nothing \notin Vehicles /\ Nothing \notin Rides
  /\ Nothing \notin Requests /\ Nothing \notin Bodies

\* A body gives a vehicle its seats, or a trip its vehicle, the seats offered
\* and how many stops it has: they are numbered from 1, as the form does.
ASSUME BodiesAssumption ==
  Bodies \subseteq [vehicle : Vehicles, seats : 1 .. MaxSeats, stops : Nat]

VARIABLES
  seats,    \* vehicle -> its seats, 0 when there is no row
  given,    \* ids of vehicles given out
  ride,     \* trip -> its vehicle and the seats offered, or Nothing
  stops,    \* trip -> rows of trip_stops: their number and who wrote them
  at,       \* request -> where its handler stands
  op,       \* request -> what it asks for
  target,   \* request -> the vehicle or trip it is about
  body,     \* request -> its body
  listed,   \* the vehicles page: the vehicles it shows
  saving,   \* the vehicles page: pending, the request it saves with
  pageList  \* the vehicles page: the list request, and what it has read

rowVars == <<seats, given, ride, stops>>
handlerVars == <<at, op, target, body>>
pageVars == <<listed, saving, pageList>>
garageVars == <<rowVars, handlerVars, pageVars>>

Stored == {v \in Vehicles : seats[v] > 0}

-----------------------------------------------------------------------------
Stages == {"idle", "loaded", "counted", "saved", "cleared", "ok", "failed"}
Done(r) == at[r] \in {"ok", "failed"}

\* The driver has a vehicle, and may have written a trip without stops.
GarageInit ==
  /\ \E v \in Vehicles :
       /\ seats = [x \in Vehicles |-> IF x = v THEN MaxSeats ELSE 0]
       /\ given = {v}
       /\ ride \in [Rides -> {Nothing, [vehicle |-> v, seats |-> 1]}]
  /\ stops = [t \in Rides |-> {}]
  /\ at = [r \in Requests |-> "idle"]
  /\ op = [r \in Requests |-> "update"]
  /\ target = [r \in Requests |-> Nothing]
  /\ body = [r \in Requests |-> Nothing]
  /\ listed = {} /\ saving = Nothing
  /\ pageList = [at |-> "idle", read |-> {}]

Goto(r, stage) == at' = [at EXCEPT ![r] = stage]

\* A request arrives and its handler runs to its first write.
Arrive(r, what, id, b, stage) ==
  /\ at[r] = "idle"
  /\ Goto(r, stage)
  /\ op' = [op EXCEPT ![r] = what]
  /\ target' = [target EXCEPT ![r] = id]
  /\ body' = [body EXCEPT ![r] = b]

-----------------------------------------------------------------------------
(* VehiclesService *)

\* create: one insert.
AddVehicle(r, b) ==
  /\ \E v \in Vehicles \ given :
       /\ Arrive(r, "addVehicle", v, b, "ok")
       /\ seats' = [seats EXCEPT ![v] = b.seats]
       /\ given' = given \cup {v}
  /\ UNCHANGED <<ride, stops>>

\* VehicleOwnershipGuard and findOrFail: 404 without a row.
LoadVehicle(r, what, v, b) ==
  /\ v \in given
  /\ Arrive(r, what, v, b, IF v \in Stored THEN "loaded" ELSE "failed")
  /\ UNCHANGED rowVars

\* update: the seats are written whatever trips offer; a row that is gone by
\* now is inserted again by save().
SaveVehicle(r) ==
  /\ at[r] = "loaded" /\ op[r] = "editVehicle"
  /\ seats' = [seats EXCEPT ![target[r]] = body[r].seats]
  /\ Goto(r, "ok")
  /\ UNCHANGED <<given, ride, stops, op, target, body>>

UsedBy(v) == {t \in Rides : ride[t] # Nothing /\ ride[t].vehicle = v}

\* remove: trips are counted, then the row is deleted.
CountTrips(r) ==
  /\ at[r] = "loaded" /\ op[r] = "removeVehicle"
  /\ Goto(r, IF UsedBy(target[r]) = {} THEN "counted" ELSE "failed")
  /\ UNCHANGED <<rowVars, op, target, body>>

\* Faulty variant: nothing but the count protects the trips.
DeleteUnchecked(r) ==
  /\ at[r] = "counted"
  /\ seats' = [seats EXCEPT ![target[r]] = 0]
  /\ Goto(r, "ok")
  /\ UNCHANGED <<given, ride, stops, op, target, body>>

\* The foreign key of trips (ON DELETE RESTRICT) refuses the delete of a
\* vehicle that was put to use after the count.
DeleteVehicle(r) ==
  /\ at[r] = "counted"
  /\ IF UsedBy(target[r]) = {}
     THEN Goto(r, "ok") /\ seats' = [seats EXCEPT ![target[r]] = 0]
     ELSE Goto(r, "failed") /\ UNCHANGED seats
  /\ UNCHANGED <<given, ride, stops, op, target, body>>

-----------------------------------------------------------------------------
(* TripsService.create, update and replaceStops *)

\* The vehicle is read and the seats offered are compared with its seats;
\* update may be asked for an existing trip only.
LoadForTrip(r, what, t, b) ==
  /\ IF what = "create" THEN ride[t] = Nothing /\ \A q \in Requests : target[q] # t
     ELSE ride[t] # Nothing
  /\ Arrive(r, what, t, b, IF b.seats <= seats[b.vehicle] THEN "loaded" ELSE "failed")
  /\ UNCHANGED rowVars

\* The row of the trip; the foreign key wants the vehicle to be there still.
SaveTrip(r) ==
  /\ at[r] = "loaded" /\ op[r] \in {"create", "update"}
  /\ IF seats[body[r].vehicle] > 0
     THEN /\ ride' = [ride EXCEPT ![target[r]] =
                        [vehicle |-> body[r].vehicle, seats |-> body[r].seats]]
          /\ Goto(r, "saved")
     ELSE Goto(r, "failed") /\ UNCHANGED ride
  /\ UNCHANGED <<seats, given, stops, op, target, body>>

\* replaceStops, first half.
ClearStops(r) ==
  /\ at[r] = "saved"
  /\ stops' = [stops EXCEPT ![target[r]] = {}]
  /\ Goto(r, "cleared")
  /\ UNCHANGED <<seats, given, ride, op, target, body>>

Written(r) == {[seq |-> n, by |-> r] : n \in 1 .. body[r].stops}

\* Faulty variant: trip_stops has no unique (tripId, seq).
InsertAnyStops(r) ==
  /\ at[r] = "cleared"
  /\ stops' = [stops EXCEPT ![target[r]] = @ \cup Written(r)]
  /\ Goto(r, "ok")
  /\ UNCHANGED <<seats, given, ride, op, target, body>>

\* Second half: all stops in one statement, refused when a number is taken.
\* The row and the deletion stay as they are.
InsertStops(r) ==
  /\ at[r] = "cleared"
  /\ IF \A x \in stops[target[r]], y \in Written(r) : x.seq # y.seq
     THEN Goto(r, "ok") /\ stops' = [stops EXCEPT ![target[r]] = @ \cup Written(r)]
     ELSE Goto(r, "failed") /\ UNCHANGED stops
  /\ UNCHANGED <<seats, given, ride, op, target, body>>

-----------------------------------------------------------------------------
(* vehicles.ts *)

\* ngOnInit: the list is asked for once, read by the server, and shown.
ListStep ==
  /\ \/ pageList.at = "idle" /\ pageList' = [at |-> "sent", read |-> {}] /\ UNCHANGED listed
     \/ pageList.at = "sent" /\ pageList' = [at |-> "read", read |-> Stored] /\ UNCHANGED listed
     \/ /\ pageList.at = "read"
        /\ listed' = pageList.read
        /\ pageList' = [at |-> "shown", read |-> {}]
  /\ UNCHANGED <<rowVars, handlerVars, saving>>

\* submit: one save at a time; only a listed vehicle can be edited.
SubmitVehicle(r, b) ==
  /\ saving = Nothing
  /\ saving' = r
  /\ \/ AddVehicle(r, b)
     \/ \E v \in listed : LoadVehicle(r, "editVehicle", v, b)
  /\ UNCHANGED <<listed, pageList>>

\* The answer to the save: the vehicle is added to the list, or replaces the
\* one in it.
SaveAnswered ==
  /\ saving # Nothing /\ Done(saving)
  /\ saving' = Nothing
  /\ listed' = IF at[saving] = "ok" /\ op[saving] = "addVehicle"
               THEN listed \cup {target[saving]} ELSE listed
  /\ UNCHANGED <<rowVars, handlerVars, pageList>>

\* delete, not guarded by pending; the answer takes the vehicle off the list.
ClickDelete(r) ==
  /\ \E v \in listed : LoadVehicle(r, "removeVehicle", v, Nothing)
  /\ UNCHANGED pageVars

DeleteAnswered(r) ==
  /\ op[r] = "removeVehicle" /\ at[r] = "ok" /\ target[r] \in listed
  /\ listed' = listed \ {target[r]}
  /\ UNCHANGED <<rowVars, handlerVars, saving, pageList>>

-----------------------------------------------------------------------------
Handler(r) ==
  /\ \/ SaveVehicle(r) \/ CountTrips(r) \/ DeleteVehicle(r)
     \/ SaveTrip(r) \/ ClearStops(r) \/ InsertStops(r)
  /\ UNCHANGED pageVars

TripRequest(r, b) ==
  /\ \E t \in Rides : LoadForTrip(r, "create", t, b) \/ LoadForTrip(r, "update", t, b)
  /\ UNCHANGED pageVars

GarageNext ==
  \/ ListStep \/ SaveAnswered
  \/ \E r \in Requests :
       \/ Handler(r) \/ ClickDelete(r) \/ DeleteAnswered(r)
       \/ \E b \in Bodies : SubmitVehicle(r, b) \/ TripRequest(r, b)

GarageSpec == GarageInit /\ [][GarageNext]_garageVars

-----------------------------------------------------------------------------
(* Properties *)

GarageTypeOK ==
  /\ seats \in [Vehicles -> 0 .. MaxSeats]
  /\ given \subseteq Vehicles
  /\ ride \in [Rides -> [vehicle : Vehicles, seats : 1 .. MaxSeats] \cup {Nothing}]
  /\ at \in [Requests -> Stages]
  /\ op \in [Requests -> Writes]
  /\ target \in [Requests -> Vehicles \cup Rides \cup {Nothing}]
  /\ body \in [Requests -> Bodies \cup {Nothing}]
  /\ listed \subseteq Vehicles

\* The vehicle of a trip is always there: what the count of remove() misses,
\* the foreign key refuses.
TripHasItsVehicle == \A t \in Rides : ride[t] # Nothing => seats[ride[t].vehicle] > 0

\* The stops of a trip always come from one request, and all of that one,
\* however the deletes and inserts of concurrent updates interleave: the
\* unique (tripId, seq) refuses the second insert.
StopsAreOneBody ==
  \A t \in Rides :
    stops[t] = {} \/ \E r \in Requests : target[r] = t /\ stops[t] = Written(r)

\* FR-TRIP-02: the seats offered do not exceed those of the vehicle.
\* Refuted by an edit of the vehicle; see the README.
TripFitsVehicle == \A t \in Rides : ride[t] # Nothing => ride[t].seats <= seats[ride[t].vehicle]
=============================================================================
