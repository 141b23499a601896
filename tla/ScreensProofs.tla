---------------------------- MODULE ScreensProofs ----------------------------
(***************************************************************************)
(* What holds of the pages of the frontend, and of the services behind     *)
(* them: vehicles, trips and stops for any number of requests handled at   *)
(* the same time; the trip form for any vehicles, concerts and zones; the  *)
(* page of a trip; the dashboards for any bookings, visits and clicks; the *)
(* list of rides for any trips, filters, requests and orders to sort by.   *)
(***************************************************************************)
EXTENDS Screens, TLAPS, FiniteSetTheorems

-----------------------------------------------------------------------------
(* Vehicles, trips and stops: the invariant *)

TripWrites == {"create", "update"}

StopRows == [seq : Nat, by : Requests]

\* What a request at each stage is known to be about.
RequestInv ==
  \A r \in Requests :
    /\ at[r] # "idle" /\ op[r] \in TripWrites => target[r] \in Rides
    /\ at[r] # "idle" /\ op[r] \notin TripWrites => target[r] \in Vehicles
    /\ at[r] # "idle" /\ op[r] # "removeVehicle" => body[r] \in Bodies
    /\ at[r] \in {"saved", "cleared"} => op[r] \in TripWrites
    /\ at[r] = "counted" => op[r] = "removeVehicle"

\* Stops come from a request that has succeeded, whose body can change no more.
StopsInv ==
  \A t \in Rides :
    stops[t] = {} \/ \E r \in Requests :
                       at[r] = "ok" /\ target[r] = t /\ body[r] \in Bodies /\ stops[t] = Written(r)

GarageInv ==
  /\ GarageTypeOK
  /\ stops \in [Rides -> SUBSET StopRows]
  /\ pageList.read \subseteq Vehicles
  /\ saving \in Requests \cup {Nothing}
  /\ RequestInv
  /\ StopsInv
  /\ TripHasItsVehicle

LEMMA BodiesTyped ==
  ASSUME NEW b \in Bodies
  PROVE  b.vehicle \in Vehicles /\ b.seats \in 1 .. MaxSeats /\ b.stops \in Nat
  BY BodiesAssumption

LEMMA WrittenTyped ==
  ASSUME NEW r \in Requests, body[r] \in Bodies
  PROVE  Written(r) \in SUBSET StopRows
  BY BodiesTyped DEF Written, StopRows

\* Two bodies with stops have the number 1 in common.
LEMMA StopsCollide ==
  ASSUME NEW r \in Requests, NEW q \in Requests, body[r] \in Bodies, body[q] \in Bodies,
         Written(r) # {}, Written(q) # {}
  PROVE  \E x \in Written(r), y \in Written(q) : x.seq = y.seq
<1>1. body[r].stops \in Nat /\ body[q].stops \in Nat
  BY BodiesTyped
<1>2. 1 \in 1 .. body[r].stops /\ 1 \in 1 .. body[q].stops
  BY <1>1 DEF Written
<1>3. [seq |-> 1, by |-> r] \in Written(r) /\ [seq |-> 1, by |-> q] \in Written(q)
  BY <1>2 DEF Written
<1> QED
  BY <1>3

-----------------------------------------------------------------------------
(* Induction *)

LEMMA GarageInvInit == GarageInit => GarageInv
<1> SUFFICES ASSUME GarageInit PROVE GarageInv
  OBVIOUS
<1>1. MaxSeats \in Nat /\ MaxSeats > 0
  BY GarageAssumption
<1>2. PICK v \in Vehicles :
        /\ seats = [x \in Vehicles |-> IF x = v THEN MaxSeats ELSE 0]
        /\ given = {v}
        /\ ride \in [Rides -> {Nothing, [vehicle |-> v, seats |-> 1]}]
  BY DEF GarageInit
<1>3. GarageTypeOK
  BY <1>1, <1>2 DEF GarageInit, GarageTypeOK, Stages, Writes
<1>4. TripHasItsVehicle
  BY <1>1, <1>2 DEF TripHasItsVehicle
<1> QED
  BY <1>3, <1>4 DEF GarageInit, GarageInv, RequestInv, StopsInv

\* A request arrives: the rest of the invariant does not notice.
LEMMA ArriveKeeps ==
  ASSUME GarageInv, NEW r \in Requests, NEW what \in Writes, NEW id,
         NEW b \in Bodies \cup {Nothing}, NEW stage \in {"loaded", "ok", "failed"},
         Arrive(r, what, id, b, stage),
         IF what \in TripWrites THEN id \in Rides ELSE id \in Vehicles,
         what # "removeVehicle" => b \in Bodies,
         stops' = stops
  PROVE  /\ at' \in [Requests -> Stages] /\ op' \in [Requests -> Writes]
         /\ target' \in [Requests -> Vehicles \cup Rides \cup {Nothing}]
         /\ body' \in [Requests -> Bodies \cup {Nothing}]
         /\ RequestInv' /\ StopsInv'
<1>1. /\ at' = [at EXCEPT ![r] = stage] /\ op' = [op EXCEPT ![r] = what]
      /\ target' = [target EXCEPT ![r] = id] /\ body' = [body EXCEPT ![r] = b]
      /\ at[r] = "idle"
  BY DEF Arrive, Goto
<1>2. /\ at \in [Requests -> Stages] /\ op \in [Requests -> Writes]
      /\ target \in [Requests -> Vehicles \cup Rides \cup {Nothing}]
      /\ body \in [Requests -> Bodies \cup {Nothing}]
  BY DEF GarageInv, GarageTypeOK
<1>3. RequestInv'
  BY <1>1, <1>2 DEF GarageInv, RequestInv, TripWrites
<1>4. StopsInv'
  <2> SUFFICES ASSUME NEW t \in Rides, stops[t] # {}
               PROVE  \E q \in Requests :
                        /\ at'[q] = "ok" /\ target'[q] = t /\ body'[q] \in Bodies
                        /\ stops[t] = Written(q)'
    BY DEF StopsInv
  <2>1. PICK q \in Requests :
          at[q] = "ok" /\ target[q] = t /\ body[q] \in Bodies /\ stops[t] = Written(q)
    BY DEF GarageInv, StopsInv
  <2>2. q # r
    BY <1>1, <2>1
  <2>3. at'[q] = at[q] /\ target'[q] = target[q] /\ body'[q] = body[q]
    BY <1>1, <1>2, <2>2
  <2> QED
    BY <2>1, <2>3 DEF Written
<1> QED
  BY <1>1, <1>2, <1>3, <1>4 DEF Stages

\* A request goes from one stage to the next, and the stops stay or go.
LEMMA GotoKeeps ==
  ASSUME GarageInv, NEW r \in Requests, NEW stage \in Stages, Goto(r, stage),
         at[r] \notin {"idle", "ok"}, stage # "idle",
         UNCHANGED <<op, target, body>>,
         stage \in {"saved", "cleared"} => op[r] \in TripWrites,
         stage = "counted" => op[r] = "removeVehicle",
         stops' \in [Rides -> SUBSET StopRows],
         \A t \in Rides : stops'[t] = stops[t] \/ stops'[t] = {}
  PROVE  at' \in [Requests -> Stages] /\ RequestInv' /\ StopsInv'
<1>1. at' = [at EXCEPT ![r] = stage] /\ at \in [Requests -> Stages]
  BY DEF Goto, GarageInv, GarageTypeOK
<1>2. RequestInv'
  BY <1>1 DEF GarageInv, RequestInv
<1>3. StopsInv'
  <2> SUFFICES ASSUME NEW t \in Rides, stops'[t] # {}
               PROVE  \E q \in Requests :
                        /\ at'[q] = "ok" /\ target[q] = t /\ body[q] \in Bodies
                        /\ stops'[t] = Written(q)
    BY DEF StopsInv, Written
  <2>1. PICK q \in Requests :
          at[q] = "ok" /\ target[q] = t /\ body[q] \in Bodies /\ stops[t] = Written(q)
    BY DEF GarageInv, StopsInv
  <2>2. q # r /\ at'[q] = at[q]
    BY <1>1, <2>1
  <2> QED
    BY <2>1, <2>2
<1> QED
  BY <1>1, <1>2, <1>3

LEMMA GarageInvStep == GarageInv /\ [GarageNext]_garageVars => GarageInv'
<1> SUFFICES ASSUME GarageInv, [GarageNext]_garageVars PROVE GarageInv'
  OBVIOUS
<1>t. /\ seats \in [Vehicles -> 0 .. MaxSeats] /\ given \subseteq Vehicles
      /\ ride \in [Rides -> [vehicle : Vehicles, seats : 1 .. MaxSeats] \cup {Nothing}]
      /\ at \in [Requests -> Stages] /\ op \in [Requests -> Writes]
      /\ target \in [Requests -> Vehicles \cup Rides \cup {Nothing}]
      /\ body \in [Requests -> Bodies \cup {Nothing}]
      /\ listed \subseteq Vehicles /\ pageList.read \subseteq Vehicles
      /\ stops \in [Rides -> SUBSET StopRows]
      /\ TripHasItsVehicle /\ MaxSeats \in Nat
  BY GarageAssumption DEF GarageInv, GarageTypeOK
<1>1. ASSUME ListStep PROVE GarageInv'
  <2>1. UNCHANGED <<rowVars, handlerVars, saving>>
    BY <1>1 DEF ListStep
  <2>2. listed' \subseteq Vehicles /\ pageList'.read \subseteq Vehicles
    BY <1>1, <1>t DEF ListStep, Stored
  <2> QED
    BY <2>1, <2>2 DEF GarageInv, GarageTypeOK, RequestInv, StopsInv, Written,
         TripHasItsVehicle, rowVars, handlerVars
<1>2. ASSUME SaveAnswered \/ \E r \in Requests : DeleteAnswered(r) PROVE GarageInv'
  <2>1. UNCHANGED <<rowVars, handlerVars, pageList>>
    BY <1>2 DEF SaveAnswered, DeleteAnswered
  <2>2. listed' \subseteq listed \cup Vehicles
    <3>1. ASSUME SaveAnswered PROVE listed' \subseteq listed \cup Vehicles
      <4>1. CASE listed' = listed
        BY <4>1
      <4>2. CASE listed' # listed
        <5>1. /\ saving # Nothing /\ at[saving] = "ok" /\ op[saving] = "addVehicle"
              /\ listed' = listed \cup {target[saving]}
          BY <3>1, <4>2 DEF SaveAnswered
        <5> QED
          BY <5>1, <1>t DEF GarageInv, RequestInv, TripWrites
      <4> QED
        BY <4>1, <4>2
    <3>2. ASSUME NEW r \in Requests, DeleteAnswered(r) PROVE listed' \subseteq listed \cup Vehicles
      BY <3>2 DEF DeleteAnswered
    <3> QED
      BY <1>2, <3>1, <3>2
  <2>3. saving' \in Requests \cup {Nothing}
    BY <1>2 DEF SaveAnswered, DeleteAnswered, GarageInv
  <2> QED
    BY <2>1, <2>2, <2>3, <1>t DEF GarageInv, GarageTypeOK, RequestInv, StopsInv, Written,
         TripHasItsVehicle, rowVars, handlerVars
<1>3. ASSUME NEW r \in Requests, NEW b \in Bodies, AddVehicle(r, b),
             listed' = listed, pageList' = pageList, saving' \in Requests \cup {Nothing}
      PROVE  GarageInv'
  <2>1. PICK v \in Vehicles \ given :
          /\ Arrive(r, "addVehicle", v, b, "ok")
          /\ seats' = [seats EXCEPT ![v] = b.seats]
          /\ given' = given \cup {v}
    BY <1>3 DEF AddVehicle
  <2>2. ride' = ride /\ stops' = stops
    BY <1>3 DEF AddVehicle
  <2>3. /\ at' \in [Requests -> Stages] /\ op' \in [Requests -> Writes]
        /\ target' \in [Requests -> Vehicles \cup Rides \cup {Nothing}]
        /\ body' \in [Requests -> Bodies \cup {Nothing}]
        /\ RequestInv' /\ StopsInv'
    BY <2>1, <2>2, ArriveKeeps DEF Writes, TripWrites
  <2>4. b.seats \in 1 .. MaxSeats
    BY BodiesTyped
  <2>5. seats' \in [Vehicles -> 0 .. MaxSeats] /\ TripHasItsVehicle'
    BY <1>t, <2>1, <2>2, <2>4 DEF TripHasItsVehicle
  <2> QED
    BY <1>3, <1>t, <2>1, <2>2, <2>3, <2>5 DEF GarageInv, GarageTypeOK
<1>4. ASSUME NEW r \in Requests, NEW v \in Vehicles, NEW b \in Bodies \cup {Nothing},
             NEW what \in {"editVehicle", "removeVehicle"}, LoadVehicle(r, what, v, b),
             what # "removeVehicle" => b \in Bodies,
             listed' = listed, pageList' = pageList, saving' \in Requests \cup {Nothing}
      PROVE  GarageInv'
  <2> DEFINE stage == IF v \in Stored THEN "loaded" ELSE "failed"
  <2>1. Arrive(r, what, v, b, stage) /\ UNCHANGED rowVars
    BY <1>4 DEF LoadVehicle
  <2>2. stage \in {"loaded", "ok", "failed"} /\ what \in Writes /\ what \notin TripWrites
    BY DEF Writes, TripWrites
  <2> HIDE DEF stage
  <2>3. /\ at' \in [Requests -> Stages] /\ op' \in [Requests -> Writes]
        /\ target' \in [Requests -> Vehicles \cup Rides \cup {Nothing}]
        /\ body' \in [Requests -> Bodies \cup {Nothing}]
        /\ RequestInv' /\ StopsInv'
    BY <1>4, <2>1, <2>2, ArriveKeeps DEF rowVars
  <2> QED
    BY <1>4, <1>t, <2>1, <2>3 DEF GarageInv, GarageTypeOK, TripHasItsVehicle, rowVars
<1>5. ASSUME NEW r \in Requests, NEW t \in Rides, NEW b \in Bodies, NEW what \in TripWrites,
             LoadForTrip(r, what, t, b), UNCHANGED pageVars
      PROVE  GarageInv'
  <2> DEFINE stage == IF b.seats <= seats[b.vehicle] THEN "loaded" ELSE "failed"
  <2>1. Arrive(r, what, t, b, stage) /\ UNCHANGED rowVars
    BY <1>5 DEF LoadForTrip
  <2>2. stage \in {"loaded", "ok", "failed"} /\ what \in Writes /\ what # "removeVehicle"
    BY DEF Writes, TripWrites
  <2> HIDE DEF stage
  <2>3. /\ at' \in [Requests -> Stages] /\ op' \in [Requests -> Writes]
        /\ target' \in [Requests -> Vehicles \cup Rides \cup {Nothing}]
        /\ body' \in [Requests -> Bodies \cup {Nothing}]
        /\ RequestInv' /\ StopsInv'
    BY <1>5, <2>1, <2>2, ArriveKeeps DEF rowVars
  <2> QED
    BY <1>5, <1>t, <2>1, <2>3 DEF GarageInv, GarageTypeOK, TripHasItsVehicle, rowVars, pageVars
<1>6. ASSUME NEW r \in Requests, SaveVehicle(r), UNCHANGED pageVars PROVE GarageInv'
  <2>1. /\ at[r] = "loaded" /\ op[r] = "editVehicle" /\ Goto(r, "ok")
        /\ seats' = [seats EXCEPT ![target[r]] = body[r].seats]
        /\ UNCHANGED <<given, ride, stops, op, target, body>>
    BY <1>6 DEF SaveVehicle
  <2>2. target[r] \in Vehicles /\ body[r].seats \in 1 .. MaxSeats
    BY <2>1, BodiesTyped DEF GarageInv, RequestInv, TripWrites
  <2>3. seats' \in [Vehicles -> 0 .. MaxSeats] /\ TripHasItsVehicle'
    BY <1>t, <2>1, <2>2 DEF TripHasItsVehicle
  <2>4. at' \in [Requests -> Stages] /\ RequestInv' /\ StopsInv'
    BY <1>t, <2>1, GotoKeeps DEF Stages
  <2> QED
    BY <1>6, <1>t, <2>1, <2>3, <2>4 DEF GarageInv, GarageTypeOK, pageVars
<1>7. ASSUME NEW r \in Requests, CountTrips(r), UNCHANGED pageVars PROVE GarageInv'
  <2> DEFINE stage == IF UsedBy(target[r]) = {} THEN "counted" ELSE "failed"
  <2>1. /\ at[r] = "loaded" /\ op[r] = "removeVehicle" /\ Goto(r, stage)
        /\ UNCHANGED <<rowVars, op, target, body>>
    BY <1>7 DEF CountTrips
  <2>2. stage \in {"counted", "failed"} /\ stage \in Stages
    BY DEF Stages
  <2> HIDE DEF stage
  <2>3. at' \in [Requests -> Stages] /\ RequestInv' /\ StopsInv'
    BY <1>t, <2>1, <2>2, GotoKeeps DEF rowVars
  <2> QED
    BY <1>7, <1>t, <2>1, <2>3 DEF GarageInv, GarageTypeOK, TripHasItsVehicle, rowVars, pageVars
<1>8. ASSUME NEW r \in Requests, DeleteVehicle(r), UNCHANGED pageVars PROVE GarageInv'
  <2> DEFINE stage == IF UsedBy(target[r]) = {} THEN "ok" ELSE "failed"
  <2>1. /\ at[r] = "counted" /\ Goto(r, stage) /\ UNCHANGED <<given, ride, stops, op, target, body>>
    BY <1>8 DEF DeleteVehicle
  <2>2. stage \in {"ok", "failed"} /\ stage \in Stages
    BY DEF Stages
  <2>3. target[r] \in Vehicles
    BY <2>1 DEF GarageInv, RequestInv, TripWrites
  <2>4. \/ seats' = seats
        \/ UsedBy(target[r]) = {} /\ seats' = [seats EXCEPT ![target[r]] = 0]
    BY <1>8 DEF DeleteVehicle
  <2>5. seats' \in [Vehicles -> 0 .. MaxSeats]
    BY <1>t, <2>3, <2>4
  <2>6. TripHasItsVehicle'
    BY <1>t, <2>1, <2>3, <2>4 DEF TripHasItsVehicle, UsedBy
  <2> HIDE DEF stage
  <2>7. at' \in [Requests -> Stages] /\ RequestInv' /\ StopsInv'
    BY <1>t, <2>1, <2>2, GotoKeeps
  <2> QED
    BY <1>8, <1>t, <2>1, <2>5, <2>6, <2>7 DEF GarageInv, GarageTypeOK, pageVars
<1>9. ASSUME NEW r \in Requests, SaveTrip(r), UNCHANGED pageVars PROVE GarageInv'
  <2>1. /\ at[r] = "loaded" /\ op[r] \in TripWrites
        /\ UNCHANGED <<seats, given, stops, op, target, body>>
    BY <1>9 DEF SaveTrip, TripWrites
  <2>2. target[r] \in Rides /\ body[r] \in Bodies
    BY <2>1 DEF GarageInv, RequestInv, TripWrites
  <2>3. body[r].vehicle \in Vehicles /\ body[r].seats \in 1 .. MaxSeats
    BY <2>2, BodiesTyped
  <2>4. PICK stage \in {"saved", "failed"} :
          /\ Goto(r, stage)
          /\ \/ ride' = ride
             \/ /\ seats[body[r].vehicle] > 0
                /\ ride' = [ride EXCEPT ![target[r]] =
                               [vehicle |-> body[r].vehicle, seats |-> body[r].seats]]
    BY <1>9 DEF SaveTrip
  <2>5. ride' \in [Rides -> [vehicle : Vehicles, seats : 1 .. MaxSeats] \cup {Nothing}]
    BY <1>t, <2>2, <2>3, <2>4
  <2>6. TripHasItsVehicle'
    BY <1>t, <2>1, <2>2, <2>3, <2>4 DEF TripHasItsVehicle
  <2>7. at' \in [Requests -> Stages] /\ RequestInv' /\ StopsInv'
    BY <1>t, <2>1, <2>4, GotoKeeps DEF Stages
  <2> QED
    BY <1>9, <1>t, <2>1, <2>5, <2>6, <2>7 DEF GarageInv, GarageTypeOK, pageVars
<1>10. ASSUME NEW r \in Requests, ClearStops(r), UNCHANGED pageVars PROVE GarageInv'
  <2>1. /\ at[r] = "saved" /\ Goto(r, "cleared") /\ stops' = [stops EXCEPT ![target[r]] = {}]
        /\ UNCHANGED <<seats, given, ride, op, target, body>>
    BY <1>10 DEF ClearStops
  <2>2. op[r] \in TripWrites /\ target[r] \in Rides
    BY <2>1 DEF GarageInv, RequestInv
  <2>3. /\ stops' \in [Rides -> SUBSET StopRows]
        /\ \A t \in Rides : stops'[t] = stops[t] \/ stops'[t] = {}
    BY <1>t, <2>1, <2>2
  <2>4. at' \in [Requests -> Stages] /\ RequestInv' /\ StopsInv'
    BY <2>1, <2>2, <2>3, GotoKeeps DEF Stages
  <2> QED
    BY <1>10, <1>t, <2>1, <2>3, <2>4 DEF GarageInv, GarageTypeOK, TripHasItsVehicle, pageVars
<1>11. ASSUME NEW r \in Requests, InsertStops(r), UNCHANGED pageVars PROVE GarageInv'
  <2>1. at[r] = "cleared" /\ UNCHANGED <<seats, given, ride, op, target, body>>
    BY <1>11 DEF InsertStops
  <2>2. op[r] \in TripWrites /\ target[r] \in Rides /\ body[r] \in Bodies
    BY <2>1 DEF GarageInv, RequestInv, TripWrites
  <2>3. CASE stops' = stops
    <3>1. PICK stage \in {"ok", "failed"} : Goto(r, stage)
      BY <1>11 DEF InsertStops
    <3>2. at' \in [Requests -> Stages] /\ RequestInv' /\ StopsInv'
      BY <1>t, <2>1, <2>3, <3>1, GotoKeeps DEF Stages
    <3> QED
      BY <1>11, <1>t, <2>1, <2>3, <3>2 DEF GarageInv, GarageTypeOK, TripHasItsVehicle, pageVars
  <2>4. CASE stops' # stops
    <3> DEFINE t == target[r]
    <3>1. /\ \A x \in stops[t], y \in Written(r) : x.seq # y.seq
          /\ at' = [at EXCEPT ![r] = "ok"]
          /\ stops' = [stops EXCEPT ![t] = @ \cup Written(r)]
      BY <1>11, <2>4 DEF InsertStops, Goto
    <3>2. stops[t] = {}
      <4> SUFFICES ASSUME stops[t] # {} PROVE FALSE
        OBVIOUS
      <4>1. PICK q \in Requests : body[q] \in Bodies /\ stops[t] = Written(q)
        BY <2>2 DEF GarageInv, StopsInv
      <4>2. Written(r) # {}
        BY <1>t, <2>2, <2>4, <3>1
      <4> QED
        BY <2>2, <3>1, <4>1, <4>2, StopsCollide
    <3>3. stops'[t] = Written(r) /\ \A u \in Rides \ {t} : stops'[u] = stops[u]
      BY <1>t, <2>2, <3>1, <3>2
    <3>4. stops' \in [Rides -> SUBSET StopRows]
      BY <1>t, <2>2, <3>1, <3>2, WrittenTyped
    <3>5. at'[r] = "ok" /\ \A q \in Requests \ {r} : at'[q] = at[q]
      BY <1>t, <3>1
    <3>6. StopsInv'
      <4> SUFFICES ASSUME NEW u \in Rides, stops'[u] # {}
                   PROVE  \E q \in Requests :
                            /\ at'[q] = "ok" /\ target[q] = u /\ body[q] \in Bodies
                            /\ stops'[u] = Written(q)
        BY <2>1 DEF StopsInv, Written
      <4>1. CASE u = t
        BY <4>1, <2>2, <3>3, <3>5
      <4>2. CASE u # t
        <5>1. PICK q \in Requests :
                at[q] = "ok" /\ target[q] = u /\ body[q] \in Bodies /\ stops[u] = Written(q)
          BY <3>3, <4>2 DEF GarageInv, StopsInv
        <5> QED
          BY <2>1, <3>3, <3>5, <4>2, <5>1
      <4> QED
        BY <4>1, <4>2
    <3>7. RequestInv'
      BY <2>1, <3>5 DEF GarageInv, RequestInv
    <3>8. at' \in [Requests -> Stages]
      BY <1>t, <3>1 DEF Stages
    <3> QED
      BY <1>11, <1>t, <2>1, <3>4, <3>6, <3>7, <3>8
         DEF GarageInv, GarageTypeOK, TripHasItsVehicle, pageVars
  <2> QED
    BY <2>3, <2>4
<1>12. CASE UNCHANGED garageVars
  BY <1>12 DEF garageVars, rowVars, handlerVars, pageVars, GarageInv, GarageTypeOK, RequestInv,
       StopsInv, Written, TripHasItsVehicle
<1>13. ASSUME NEW r \in Requests, NEW b \in Bodies, SubmitVehicle(r, b) PROVE GarageInv'
  <2>1. listed' = listed /\ pageList' = pageList /\ saving' \in Requests \cup {Nothing}
    BY <1>13 DEF SubmitVehicle
  <2>2. AddVehicle(r, b) \/ \E v \in Vehicles : LoadVehicle(r, "editVehicle", v, b)
    BY <1>13, <1>t DEF SubmitVehicle
  <2> QED
    BY <2>1, <2>2, <1>3, <1>4
<1>14. ASSUME NEW r \in Requests, ClickDelete(r) PROVE GarageInv'
  <2>1. UNCHANGED pageVars /\ \E v \in Vehicles : LoadVehicle(r, "removeVehicle", v, Nothing)
    BY <1>14, <1>t DEF ClickDelete
  <2>2. saving' \in Requests \cup {Nothing}
    BY <2>1 DEF pageVars, GarageInv
  <2> QED
    BY <2>1, <2>2, <1>4 DEF pageVars
<1>15. ASSUME NEW r \in Requests, NEW b \in Bodies, TripRequest(r, b) PROVE GarageInv'
  BY <1>15, <1>5 DEF TripRequest, TripWrites
<1>16. ASSUME NEW r \in Requests, Handler(r) PROVE GarageInv'
  BY <1>16, <1>6, <1>7, <1>8, <1>9, <1>10, <1>11 DEF Handler
<1> QED
  BY <1>1, <1>2, <1>12, <1>13, <1>14, <1>15, <1>16 DEF GarageNext

-----------------------------------------------------------------------------
(* Theorems *)

\* Every variable of the handlers and of the vehicles page keeps its type.
THEOREM GarageTyped == GarageSpec => []GarageTypeOK
  BY GarageInvInit, GarageInvStep, PTL DEF GarageSpec, GarageInv

\* Of any number of vehicles and trips, no trip ever loses its vehicle, though
\* remove() counts the trips before it deletes.
THEOREM TripAlwaysHasItsVehicle == GarageSpec => []TripHasItsVehicle
  BY GarageInvInit, GarageInvStep, PTL DEF GarageSpec, GarageInv

\* Of any number of updates under way, the stops of a trip are always those of
\* one of them, or there are none.
THEOREM StopsAlwaysOneBody == GarageSpec => []StopsAreOneBody
<1>1. GarageInv => StopsAreOneBody
  BY DEF GarageInv, StopsInv, StopsAreOneBody
<1> QED
  BY <1>1, GarageInvInit, GarageInvStep, PTL DEF GarageSpec

-----------------------------------------------------------------------------
(* The suggested schedule *)

\* When there is a suggestion, it lies between now and the concert, in the
\* order that the form and the service ask for.
LEMMA SuggestionInOrder ==
  ASSUME NEW start \in Int, NEW now \in Int, Suggestion(start, now) # Unset
  PROVE  LET suggested == Suggestion(start, now)
         IN /\ suggested.deadline \in Int /\ suggested.departure \in Int
            /\ now < suggested.deadline
            /\ suggested.deadline < suggested.departure
            /\ suggested.departure < start
<1> DEFINE departure == start - DepartureLead
           dayBefore == departure - DeadlineLead
           deadline == IF dayBefore <= now THEN now + FallbackLead ELSE dayBefore
<1>1. DepartureLead \in Nat \ {0} /\ DeadlineLead \in Nat \ {0} /\ FallbackLead \in Nat \ {0}
  BY LeadsAssumption
<1>2. ~(departure <= now \/ deadline >= departure)
  BY DEF Suggestion
<1>3. Suggestion(start, now) = [deadline |-> deadline, departure |-> departure]
  BY <1>2 DEF Suggestion
<1>4. deadline \in Int /\ departure \in Int /\ now < deadline /\ deadline < departure /\ departure < start
  BY <1>1, <1>2
<1> QED
  BY <1>3, <1>4

-----------------------------------------------------------------------------
(* The invariant *)

FormTypeOK ==
  /\ form \in Controls
  /\ concertOf \in Gigs \cup {Unset}
  /\ picking \in Gigs \cup {Unset}
  /\ loads \in [vehicles : {"asked", "ok", "failed"}, trip : {"none", "asked", "ok", "failed"}]
  /\ editing \in BOOLEAN
  /\ editable \in BOOLEAN
  /\ zone \in Nat
  /\ editing => row \in Rows /\ Numbered(row.stops)
  /\ loads.trip = "asked" => editing
  /\ copies \in Nat /\ lost \in Nat

\* The concert the form holds is the one the picker shows or is loading.
PickerInv ==
  /\ ~Rendered(loads) => concertOf = Unset /\ picking = Unset
  /\ Rendered(loads) /\ picking # Unset => form.gig = picking /\ concertOf = Unset
  /\ Rendered(loads) /\ picking = Unset => form.gig = concertOf

\* A body the validators of the form let through, with the concert it showed.
Sound(b, shown) ==
  /\ b \in Controls /\ shown \in Gigs \cup {Unset}
  /\ b.car \in Cars /\ b.gig \in Gigs /\ b.deadline \in Int /\ b.departure \in Int
  /\ Numbered(b.stops)
  /\ b.min <= b.max /\ b.max <= CarSeats[b.car]
  /\ b.deadline < b.departure
  /\ shown # Unset =>
       shown = b.gig /\ b.deadline - zone < GigStart[shown] /\ b.departure - zone <= GigStart[shown]

SaveInv ==
  /\ \/ save \in [at : {"none", "left"}]
     \/ /\ save = [at |-> save.at, body |-> save.body, shown |-> save.shown]
        /\ save.at \in {"sent", "stored", "refused"}
        /\ Sound(save.body, save.shown)
  /\ save.at = "refused" /\ zone = 0 /\ save.shown # Unset => editing /\ ~editable

CopiesInv ==
  /\ copies <= 1 + lost
  /\ save.at \in {"none", "sent", "refused"} => copies <= lost

FormInv == FormTypeOK /\ Numbered(form.stops) /\ PickerInv /\ SaveInv /\ CopiesInv

-----------------------------------------------------------------------------
(* What the steps write *)

LEMMA EmptyFormTyped ==
  ASSUME NEW g \in Gigs \cup {Unset}
  PROVE  EmptyForm(g) \in Controls /\ Numbered(EmptyForm(g).stops) /\ EmptyForm(g).gig = g
  BY DEF EmptyForm, Controls, Numbered

\* A change of one control.
LEMMA AppendNumbered ==
  ASSUME NEW list \in Seq(Nat), Numbered(list)
  PROVE  LET longer == Append(list, Len(list) + 1)
         IN longer \in Seq(Nat) /\ Numbered(longer)
<1> DEFINE longer == Append(list, Len(list) + 1)
<1>1. longer \in Seq(Nat) /\ Len(longer) = Len(list) + 1
  OBVIOUS
<1>2. \A k \in 1 .. Len(longer) : longer[k] = k
  BY <1>1 DEF Numbered
<1> QED
  BY <1>1, <1>2 DEF Numbered

LEMMA RenumberedIsNumbered ==
  ASSUME NEW n \in Nat
  PROVE  LET list == [k \in 1 .. n |-> k] IN list \in Seq(Nat) /\ Numbered(list)
<1> DEFINE list == [k \in 1 .. n |-> k]
<1>1. list \in Seq(Nat) /\ Len(list) = n
  OBVIOUS
<1> QED
  BY <1>1 DEF Numbered

LEMMA DatesTyped ==
  ASSUME NEW c \in Controls, NEW g \in Gigs \cup {Unset}, zone \in Nat
  PROVE  /\ WithDates(c, g) \in Controls
         /\ WithDates(c, g).gig = c.gig
         /\ WithDates(c, g).stops = c.stops
<1>1. g # Unset => GigStart[g] \in Int
  BY FormAssumption
<1>2. CASE WithDates(c, g) = c
  BY <1>2
<1>3. CASE WithDates(c, g) # c
  <2>1. g # Unset /\ Suggestion(GigStart[g], 0) # Unset
    BY <1>3 DEF WithDates
  <2> DEFINE suggested == Suggestion(GigStart[g], 0)
  <2>2. suggested.deadline \in Int /\ suggested.departure \in Int
    BY <1>1, <2>1, SuggestionInOrder
  <2>3. WithDates(c, g) = [c EXCEPT !.deadline = suggested.deadline + zone,
                                    !.departure = suggested.departure + zone]
    BY <1>3, <2>1 DEF WithDates, ToLocalInput
  <2> HIDE DEF suggested
  <2>4. suggested.deadline + zone \in Int /\ suggested.departure + zone \in Int
    BY <2>2
  <2> QED
    BY <2>3, <2>4 DEF Controls
<1> QED
  BY <1>2, <1>3

-----------------------------------------------------------------------------
(* Induction *)

LEMMA FormInvInit == TripFormInit => FormInv
<1> SUFFICES ASSUME TripFormInit PROVE FormInv
  OBVIOUS
<1>1. form \in Controls /\ Numbered(form.stops)
  BY EmptyFormTyped DEF TripFormInit
<1>2. FormTypeOK
  BY <1>1, FormAssumption, OldTripsAssumption DEF TripFormInit, FormTypeOK
<1>3. PickerInv
  BY EmptyFormTyped DEF TripFormInit, PickerInv, Rendered
<1>4. SaveInv /\ CopiesInv
  BY DEF TripFormInit, SaveInv, CopiesInv
<1> QED
  BY <1>1, <1>2, <1>3, <1>4 DEF FormInv

\* What a step leaves of the saving side when it only works on the form.
LEMMA SavingUntouched ==
  ASSUME FormInv, UNCHANGED <<editing, zone, saveVars>>
  PROVE  /\ SaveInv' /\ CopiesInv'
         /\ editing' \in BOOLEAN /\ editable' \in BOOLEAN /\ zone' \in Nat
         /\ copies' \in Nat /\ lost' \in Nat
         /\ editing' => row' \in Rows /\ Numbered(row'.stops)
  BY DEF FormInv, FormTypeOK, SaveInv, Sound, CopiesInv, saveVars

LEMMA FillKeeps ==
  ASSUME FormInv, NEW c \in Controls, Fill(c), c.gig = form.gig, Numbered(c.stops)
  PROVE  FormInv'
<1>1. UNCHANGED <<editing, zone, saveVars>> /\ form' = c /\ UNCHANGED <<concertOf, picking, loads>>
  BY DEF Fill
<1>2. FormTypeOK'
  BY <1>1, SavingUntouched DEF FormInv, FormTypeOK
<1>3. PickerInv'
  BY <1>1 DEF FormInv, PickerInv, Rendered
<1> QED
  BY <1>1, <1>2, <1>3, SavingUntouched DEF FormInv

LEMMA ShowKeeps ==
  ASSUME FormInv, NEW c \in Controls, NEW g \in Gigs \cup {Unset}, ShowConcert(c, g),
         c.gig = g, c.stops = form.stops, Rendered(loads), picking' = Unset
  PROVE  FormInv'
<1>1. UNCHANGED <<loads, editing, zone, saveVars>> /\ form' = WithDates(c, g) /\ concertOf' = g
  BY DEF ShowConcert
<1>2. zone \in Nat /\ Numbered(c.stops)
  BY DEF FormInv, FormTypeOK
<1>3. form' \in Controls /\ form'.gig = g /\ Numbered(form'.stops)
  BY <1>1, <1>2, DatesTyped
<1>4. FormTypeOK'
  BY <1>1, <1>3, SavingUntouched DEF FormInv, FormTypeOK
<1>5. PickerInv'
  BY <1>1, <1>3 DEF PickerInv, Rendered
<1> QED
  BY <1>1, <1>3, <1>4, <1>5, SavingUntouched DEF FormInv

LEMMA LoadKeeps ==
  ASSUME FormInv, NEW c \in Controls, Numbered(c.stops),
         NEW request \in {"vehicles", "trip"}, NEW result \in {"ok", "failed"},
         Load(request, result, c)
  PROVE  FormInv'
<1>1. UNCHANGED <<concertOf, editing, zone, saveVars>> /\ form' = c
  BY DEF Load
<1>2. loads[request] = "asked" /\ loads' = [loads EXCEPT ![request] = result]
  BY DEF Load
<1>3. ~Rendered(loads) /\ concertOf = Unset
  BY <1>2 DEF FormInv, PickerInv, Rendered
<1>4. picking' = IF Rendered(loads') THEN c.gig ELSE Unset
  BY DEF Load
<1>5. c.gig \in Gigs \cup {Unset}
  BY DEF Controls
<1>6. loads' \in [vehicles : {"asked", "ok", "failed"}, trip : {"none", "asked", "ok", "failed"}]
  BY <1>2 DEF FormInv, FormTypeOK
<1>7. FormTypeOK'
  BY <1>1, <1>2, <1>4, <1>5, <1>6, SavingUntouched DEF FormInv, FormTypeOK
<1>8. PickerInv'
  BY <1>1, <1>3, <1>4 DEF PickerInv, Rendered
<1> QED
  BY <1>1, <1>7, <1>8, SavingUntouched DEF FormInv

\* The validators of the form make its body sound.
LEMMA ValidFormIsSound ==
  ASSUME FormInv, FormValid, Rendered(loads)
  PROVE  Sound(form, concertOf)
<1>1. form \in Controls /\ concertOf \in Gigs \cup {Unset} /\ Numbered(form.stops) /\ zone \in Nat
  BY DEF FormInv, FormTypeOK
<1>2. form.car \in Cars /\ form.gig \in Gigs /\ form.deadline \in Int /\ form.departure \in Int
  BY <1>1 DEF FormValid, Controls
<1>3. form.min <= form.max /\ form.max <= CarSeats[form.car]
  BY DEF FormValid, CapacityFits
<1>4. form.deadline < form.departure
  BY DEF FormValid, ScheduleInOrder
<1>5. ASSUME concertOf # Unset
      PROVE  /\ concertOf = form.gig
             /\ form.deadline - zone < GigStart[concertOf]
             /\ form.departure - zone <= GigStart[concertOf]
  <2>1. GigStart[concertOf] # Unset
    BY <1>1, <1>5, FormAssumption
  <2>2. concertOf = form.gig
    BY <1>5 DEF FormInv, PickerInv
  <2> QED
    BY <2>1, <2>2, <1>5 DEF FormValid, ScheduleInOrder, StartShown, FromLocalInput
<1> QED
  BY <1>1, <1>2, <1>3, <1>4, <1>5 DEF Sound

LEMMA SoundUntouched ==
  ASSUME NEW b, NEW shown, Sound(b, shown), UNCHANGED zone
  PROVE  Sound(b, shown)'
  BY DEF Sound

\* The service accepts what the form let through, unless the trip is not OPEN.
LEMMA SoundIsAccepted ==
  ASSUME NEW b, NEW shown, Sound(b, shown), zone = 0, shown # Unset, ~Accepted(Received(b))
  PROVE  editing /\ ~editable
<1> DEFINE t == Received(b)
<1>1. GigStart[b.gig] \in Nat /\ shown = b.gig
  BY FormAssumption DEF Sound
<1>2. ValidSchedule(t, GigStart[t.gig])
  BY <1>1 DEF Sound, Received, ValidSchedule
<1>3. ValidCapacity(t, CarSeats[t.car])
  BY DEF Sound, Received, ValidCapacity
<1>4. \A i, j \in DOMAIN t.stops : i # j => t.stops[i] # t.stops[j]
  BY DEF Sound, Received, Numbered
<1> QED
  BY <1>2, <1>3, <1>4 DEF Accepted

-----------------------------------------------------------------------------
(* Induction over the steps *)

LEMMA FormInvStep == FormInv /\ [TripFormNext]_tripFormVars => FormInv'
<1> SUFFICES ASSUME FormInv, [TripFormNext]_tripFormVars PROVE FormInv'
  OBVIOUS
<1>t. FormTypeOK /\ Numbered(form.stops) /\ form \in Controls
  BY DEF FormInv, FormTypeOK
<1>1. ASSUME VehiclesArrive PROVE FormInv'
  BY <1>1, <1>t, LoadKeeps DEF VehiclesArrive
<1>2. ASSUME TripArrives PROVE FormInv'
  <2> DEFINE c == [form EXCEPT !.car = row.car, !.gig = row.gig, !.min = row.min, !.max = row.max,
                     !.followed = IF loads.vehicles = "ok" THEN CarSeats[row.car] ELSE row.max,
                     !.deadline = ToLocalInput(row.deadline),
                     !.departure = ToLocalInput(row.departure), !.stops = row.stops]
  <2>1. Load("trip", "ok", c)
    BY <1>2 DEF TripArrives
  <2>2. editing
    BY <2>1 DEF Load, FormInv, FormTypeOK
  <2>3. row \in Rows /\ Numbered(row.stops) /\ zone \in Nat
    BY <2>2, <1>t DEF FormTypeOK
  <2>4. row.deadline + zone \in Int /\ row.departure + zone \in Int /\ CarSeats[row.car] \in Nat
    BY <2>3, FormAssumption DEF Rows
  <2>5. c \in Controls /\ c.stops = row.stops
    BY <2>3, <2>4, <1>t DEF Controls, Rows, ToLocalInput
  <2> QED
    BY <2>1, <2>3, <2>5, LoadKeeps
<1>3. ASSUME TripLoadFails PROVE FormInv'
  BY <1>3, <1>t, LoadKeeps DEF TripLoadFails
<1>4. ASSUME NEW c \in Cars, ChooseCar(c) PROVE FormInv'
  <2>1. CarSeats[c] \in Nat
    BY FormAssumption
  <2>2. PICK max \in Nat :
          Fill([form EXCEPT !.car = c, !.followed = CarSeats[c], !.max = max,
                            !.min = Smaller(form.min, max)])
    BY <1>4, <1>t, <2>1 DEF ChooseCar, Controls
  <2>3. Smaller(form.min, max) \in Nat
    BY <1>t DEF Smaller, Controls
  <2> DEFINE d == [form EXCEPT !.car = c, !.followed = CarSeats[c], !.max = max,
                               !.min = Smaller(form.min, max)]
  <2>4. d \in Controls /\ d.gig = form.gig /\ d.stops = form.stops
    BY <1>t, <2>1, <2>3 DEF Controls
  <2> QED
    BY <1>t, <2>2, <2>4, FillKeeps
<1>5. ASSUME NEW m \in Nat, EnterMin(m) PROVE FormInv'
  <2> DEFINE d == [form EXCEPT !.min = m]
  <2>1. d \in Controls /\ d.gig = form.gig /\ d.stops = form.stops
    BY <1>t DEF Controls, Locals
  <2> QED
    BY <1>5, <1>t, <2>1, FillKeeps DEF EnterMin
<1>6. ASSUME NEW m \in Nat, EnterMax(m) PROVE FormInv'
  <2> DEFINE d == [form EXCEPT !.max = m, !.pristine = FALSE]
  <2>1. d \in Controls /\ d.gig = form.gig /\ d.stops = form.stops
    BY <1>t DEF Controls, Locals
  <2> QED
    BY <1>6, <1>t, <2>1, FillKeeps DEF EnterMax
<1>7. ASSUME NEW u \in Locals, EnterDeadline(u) PROVE FormInv'
  <2> DEFINE d == [form EXCEPT !.deadline = u]
  <2>0. u \in Int
    BY FormAssumption DEF Locals
  <2>1. d \in Controls /\ d.gig = form.gig /\ d.stops = form.stops
    BY <1>t, <2>0 DEF Controls
  <2> QED
    BY <1>7, <1>t, <2>1, FillKeeps DEF EnterDeadline
<1>8. ASSUME NEW u \in Locals, EnterDeparture(u) PROVE FormInv'
  <2> DEFINE d == [form EXCEPT !.departure = u]
  <2>0. u \in Int
    BY FormAssumption DEF Locals
  <2>1. d \in Controls /\ d.gig = form.gig /\ d.stops = form.stops
    BY <1>t, <2>0 DEF Controls
  <2> QED
    BY <1>8, <1>t, <2>1, FillKeeps DEF EnterDeparture
<1>9. ASSUME AddStop PROVE FormInv'
  <2> DEFINE list == Append(form.stops, Len(form.stops) + 1)
             d == [form EXCEPT !.stops = list]
  <2>1. list \in Seq(Nat) /\ Numbered(list)
    BY <1>t, AppendNumbered DEF Controls
  <2> HIDE DEF list
  <2>2. d \in Controls /\ d.gig = form.gig /\ d.stops = list
    BY <1>t, <2>1 DEF Controls
  <2>3. Fill(d)
    BY <1>9 DEF AddStop, list
  <2> QED
    BY <2>1, <2>2, <2>3, FillKeeps
<1>10. ASSUME NEW i \in DOMAIN form.stops, RemoveStop(i) PROVE FormInv'
  <2> DEFINE list == [k \in 1 .. Len(form.stops) - 1 |-> k]
             d == [form EXCEPT !.stops = list]
  <2>1. Len(form.stops) - 1 \in Nat
    BY <1>t DEF Controls
  <2>2. list \in Seq(Nat) /\ Numbered(list)
    BY <2>1, RenumberedIsNumbered
  <2>3. Fill(d)
    BY <1>10 DEF RemoveStop
  <2> HIDE DEF list
  <2>4. d \in Controls /\ d.gig = form.gig /\ d.stops = list
    BY <1>t, <2>2 DEF Controls
  <2> QED
    BY <2>2, <2>3, <2>4, FillKeeps
<1>11. ASSUME NEW g \in Gigs, Pick(g) PROVE FormInv'
  <2> DEFINE d == [form EXCEPT !.gig = g]
  <2>1. d \in Controls /\ d.gig = g /\ d.stops = form.stops
    BY <1>t DEF Controls
  <2> QED
    BY <1>11, <2>1, ShowKeeps DEF Pick, Usable
<1>12. ASSUME ClearConcert PROVE FormInv'
  <2> DEFINE d == [form EXCEPT !.gig = Unset]
  <2>1. d \in Controls /\ d.gig = Unset /\ d.stops = form.stops
    BY <1>t DEF Controls
  <2>2. picking = Unset
    BY <1>12 DEF ClearConcert, Usable, FormInv, PickerInv
  <2> QED
    BY <1>12, <2>1, <2>2, ShowKeeps DEF ClearConcert, Usable
<1>13. ASSUME ConcertArrives PROVE FormInv'
  <2>1. Rendered(loads) /\ form.gig = picking /\ picking \in Gigs \cup {Unset}
    BY <1>13 DEF ConcertArrives, FormInv, PickerInv, FormTypeOK
  <2> QED
    BY <1>13, <1>t, <2>1, ShowKeeps DEF ConcertArrives
<1>14. ASSUME ConcertLoadFails PROVE FormInv'
  <2> DEFINE d == [form EXCEPT !.gig = Unset]
  <2>1. d \in Controls /\ d.gig = Unset /\ d.stops = form.stops
    BY <1>t DEF Controls
  <2>2. Rendered(loads)
    BY <1>14 DEF ConcertLoadFails, FormInv, PickerInv
  <2> QED
    BY <1>14, <2>1, <2>2, ShowKeeps DEF ConcertLoadFails
<1>15. ASSUME Submit PROVE FormInv'
  <2>1. Sound(form, concertOf) /\ save.at = "none"
    BY <1>15, ValidFormIsSound DEF Submit, Send
  <2>2. save' = [at |-> "sent", body |-> form, shown |-> concertOf]
    BY <1>15 DEF Submit, Send
  <2>3. UNCHANGED <<formVars, row, editable, copies, lost>>
    BY <1>15 DEF Submit, Send
  <2>4. Sound(form, concertOf)'
    BY <2>1, <2>3 DEF Sound, formVars
  <2>5. SaveInv'
    BY <2>2, <2>3, <2>4 DEF SaveInv, Sound, formVars
  <2>6. CopiesInv'
    BY <2>1, <2>2, <2>3 DEF FormInv, CopiesInv
  <2> QED
    BY <2>3, <2>5, <2>6 DEF FormInv, FormTypeOK, PickerInv, formVars
<1>16. ASSUME Serve PROVE FormInv'
  <2>1. /\ save = [at |-> save.at, body |-> save.body, shown |-> save.shown]
        /\ save.at = "sent" /\ Sound(save.body, save.shown)
    BY <1>16 DEF Serve, FormInv, SaveInv
  <2>2. UNCHANGED <<formVars, editable, lost>>
    BY <1>16 DEF Serve
  <2> DEFINE to == IF Accepted(Received(save.body)) THEN "stored" ELSE "refused"
  <2>3. save' = [save EXCEPT !.at = to]
    BY <1>16 DEF Serve
  <2>4. save' = [at |-> to, body |-> save.body, shown |-> save.shown]
    BY <2>1, <2>3
  <2>5. Sound(save.body, save.shown)'
    <3>1. Sound(save'.body, save'.shown) /\ zone' = zone
      BY <2>1, <2>2, <2>4 DEF formVars
    <3> QED
      BY <3>1 DEF Sound
  <2>6. SaveInv'
    BY <2>1, <2>2, <2>4, <2>5, SoundIsAccepted DEF SaveInv, formVars
  <2>7. copies <= lost /\ copies \in Nat /\ lost \in Nat
    BY <2>1 DEF FormInv, FormTypeOK, CopiesInv
  <2>8. CopiesInv' /\ copies' \in Nat
    BY <1>16, <2>2, <2>4, <2>7 DEF Serve, CopiesInv
  <2>9. Received(save.body) \in Rows /\ Numbered(Received(save.body).stops)
    BY <2>1 DEF Sound, Received, Rows, Controls
  <2>10. editing' => row' \in Rows /\ Numbered(row'.stops)
    BY <1>16, <1>t, <2>2, <2>9 DEF Serve, FormTypeOK, formVars
  <2> QED
    BY <2>2, <2>6, <2>8, <2>10 DEF FormInv, FormTypeOK, PickerInv, formVars
<1>17. ASSUME SaveAnswers PROVE FormInv'
  <2>1. UNCHANGED <<formVars, row, editable, copies, lost>>
    BY <1>17 DEF SaveAnswers
  <2>2. PICK to \in {"none", "left"} :
          save' = [at |-> to] /\ (to = "none" => save.at = "refused")
    BY <1>17 DEF SaveAnswers
  <2>3. SaveInv'
    BY <2>2 DEF SaveInv
  <2>4. CopiesInv'
    BY <2>1, <2>2 DEF FormInv, CopiesInv
  <2> QED
    BY <2>1, <2>3, <2>4 DEF FormInv, FormTypeOK, PickerInv, formVars
<1>18. ASSUME SaveLost PROVE FormInv'
  <2>1. UNCHANGED <<formVars, row, editable, copies>> /\ save' = [at |-> "none"] /\ lost' = lost + 1
    BY <1>18 DEF SaveLost
  <2>2. SaveInv'
    BY <2>1 DEF SaveInv
  <2>3. CopiesInv' /\ lost' \in Nat
    BY <2>1, <1>t DEF FormInv, FormTypeOK, CopiesInv
  <2> QED
    BY <2>1, <2>2, <2>3 DEF FormInv, FormTypeOK, PickerInv, formVars
<1>19. ASSUME LeaveOpen PROVE FormInv'
  <2>1. UNCHANGED <<formVars, save, row, copies, lost>> /\ editable' = FALSE
    BY <1>19 DEF LeaveOpen
  <2>2. SaveInv'
    BY <1>19, <2>1 DEF LeaveOpen, FormInv, SaveInv, Sound, formVars
  <2>3. CopiesInv'
    BY <2>1 DEF FormInv, CopiesInv
  <2> QED
    BY <2>1, <2>2, <2>3 DEF FormInv, FormTypeOK, PickerInv, formVars
<1>20. CASE UNCHANGED tripFormVars
  <2>1. UNCHANGED <<editing, zone, saveVars>> /\ UNCHANGED <<form, concertOf, picking, loads>>
    BY <1>20 DEF tripFormVars, formVars
  <2> QED
    BY <2>1, SavingUntouched DEF FormInv, FormTypeOK, PickerInv
<1>21. \A c \in Cars : CarSeats[c] \in Nat
  BY FormAssumption
<1> QED
  BY <1>1, <1>2, <1>3, <1>4, <1>5, <1>6, <1>7, <1>8, <1>9, <1>10, <1>11, <1>12, <1>13,
     <1>14, <1>15, <1>16, <1>17, <1>18, <1>19, <1>20, <1>21
     DEF TripFormNext, FillStep, PickerStep

-----------------------------------------------------------------------------
(* Theorems *)

\* For any form, the concert the picker shows is the one the form will send,
\* whenever the concert of a link or of an edited trip arrives, or fails to.
THEOREM ShownConcertIsAlwaysSent == TripFormSpec => []ShownConcertIsSent
<1>1. FormInv => ShownConcertIsSent
  BY DEF FormInv, PickerInv, ShownConcertIsSent
<1> QED
  BY <1>1, FormInvInit, FormInvStep, PTL DEF TripFormSpec

\* Stops stay numbered from 1 without gaps, so the unique (tripId, seq) of the
\* table never refuses a trip of the form.
THEOREM StopsAlwaysNumbered == TripFormSpec => []StopsNumbered
<1>1. FormInv => StopsNumbered
  BY DEF FormInv, StopsNumbered
<1> QED
  BY <1>1, FormInvInit, FormInvStep, PTL DEF TripFormSpec

\* The service refuses a form that is valid with its concert shown, in the zone
\* of the server, only because the trip has left OPEN.
THEOREM ValidFormIsAlwaysAccepted == TripFormSpec => []ValidFormIsAccepted
<1>1. FormInv => ValidFormIsAccepted
  BY DEF FormInv, SaveInv, ValidFormIsAccepted
<1> QED
  BY <1>1, FormInvInit, FormInvStep, PTL DEF TripFormSpec

\* A form never makes more trips than one and one for each answer that got lost.
THEOREM NoUnwantedCopyEver == TripFormSpec => []NoUnwantedCopy
<1>1. FormInv => NoUnwantedCopy
  BY DEF FormInv, CopiesInv, NoUnwantedCopy
<1> QED
  BY <1>1, FormInvInit, FormInvStep, PTL DEF TripFormSpec

-----------------------------------------------------------------------------
(* The page of a trip *)

TripRows == [status : Statuses, seated : BOOLEAN]

\* At most one of the three actions is under way, and only on a trip that is
\* shown and that no answer but its own will change.
ActionInv ==
  /\ \A r, s \in Acting : Pending(r) /\ Pending(s) => r = s
  /\ \A r \in Acting : Pending(r) => Loaded
  /\ Loaded => ~Pending("trip")
  /\ Pending("confirm") => seen.status = "READY"
  /\ Pending("cancel") => seen.status \notin Over

\* What the server has answered with.
AnswerInv ==
  /\ ask["trip"].at = "served" => ask["trip"].read \in TripRows
  /\ ask["confirm"].at = "served" => ask["confirm"].read \in [status : {"CONFIRMED"}, seated : BOOLEAN]
  /\ ask["cancel"].at = "served" => ask["cancel"].read \in [status : {"CANCELLED"}, seated : BOOLEAN]

PageInv ==
  /\ DOMAIN ask = Asks
  /\ tripStatus \in Statuses /\ seated \in BOOLEAN
  /\ seen \in TripRows \cup {Unloaded}
  /\ ActionInv
  /\ AnswerInv

LEMMA PageInvInit == TripPageInit => PageInv
<1> SUFFICES ASSUME TripPageInit PROVE PageInv
  OBVIOUS
<1>1. /\ DOMAIN ask = Asks
      /\ \A r \in Asks : ask[r] = IF r \in {"features", "trip"} THEN Sent ELSE Unasked
  BY DEF TripPageInit
<1>2. ~Loaded /\ seen \in TripRows \cup {Unloaded}
  BY DEF TripPageInit, Loaded
<1>3. tripStatus \in Statuses /\ seated \in BOOLEAN
  BY DEF TripPageInit, Statuses
<1>4. \A r \in Acting : ~Pending(r)
  BY <1>1 DEF Acting, Asks, Pending, Answered, Unasked, Stage
<1>5. AnswerInv
  BY <1>1 DEF AnswerInv, Asks, Unasked, Sent, Stage
<1> QED
  BY <1>1, <1>2, <1>3, <1>4, <1>5 DEF PageInv, ActionInv, Acting

\* A step that starts no action and does not ask for the trip again.
LEMMA PageKeeps ==
  ASSUME PageInv, UNCHANGED seen, tripStatus' \in Statuses, seated' \in BOOLEAN,
         DOMAIN ask' = Asks, \A r \in Acting \cup {"trip"} : Pending(r)' => Pending(r),
         AnswerInv'
  PROVE  PageInv'
<1>1. ActionInv'
  BY DEF PageInv, ActionInv, Acting, Loaded
<1> QED
  BY <1>1 DEF PageInv

\* One request moves on.
LEMMA AskKeeps ==
  ASSUME PageInv, NEW r \in Asks, NEW x, ask' = [ask EXCEPT ![r] = x],
         UNCHANGED seen, tripStatus' \in Statuses, seated' \in BOOLEAN,
         r \in Acting \cup {"trip"} /\ x.at \in {"sent", "served", "refused"} => Pending(r),
         r = "trip" /\ x.at = "served" => x.read \in TripRows,
         r = "confirm" /\ x.at = "served" => x.read \in [status : {"CONFIRMED"}, seated : BOOLEAN],
         r = "cancel" /\ x.at = "served" => x.read \in [status : {"CANCELLED"}, seated : BOOLEAN]
  PROVE  PageInv'
<1>1. DOMAIN ask' = Asks /\ \A s \in Asks : ask'[s] = IF s = r THEN x ELSE ask[s]
  BY DEF PageInv
<1>2. \A s \in Acting \cup {"trip"} : Pending(s)' => Pending(s)
  BY <1>1 DEF Pending, Answered, Acting, Asks
<1>3. AnswerInv'
  BY <1>1 DEF PageInv, AnswerInv, Asks
<1> QED
  BY <1>1, <1>2, <1>3, PageKeeps

LEMMA ServerKeepsPage ==
  ASSUME PageInv, TripServer
  PROVE  PageInv' /\ UNCHANGED seen
<1>1. tripStatus \in Statuses /\ seated \in BOOLEAN
  BY DEF PageInv
<1>2. UNCHANGED <<seen, seated>>
  BY DEF TripServer, ServeRead, ServeConfirm, ServeCancel, ServeRequest, ServeJoin, ServeLeave,
         serverVars, shownVars
<1>3. ASSUME NEW r \in {"features", "trip", "export", "membership", "entries"}, ServeRead(r)
      PROVE  PageInv'
  <2>1. /\ ask[r].at = "sent" /\ UNCHANGED tripStatus
        /\ ask' = [ask EXCEPT ![r] = [at |-> "served", read |-> Reads(r)]]
    BY <1>3 DEF ServeRead, Served, serverVars
  <2>2. Pending(r) /\ r \in Asks /\ r \notin {"confirm", "cancel"}
    BY <2>1 DEF Pending, Asks
  <2>3. r = "trip" => Reads(r) \in TripRows
    BY <1>1 DEF Reads, TripRead, TripRows
  <2> QED
    BY <1>1, <1>2, <2>1, <2>2, <2>3, AskKeeps
<1>4. ASSUME NEW r \in {"confirm", "cancel", "request", "join", "leave"}, ask[r].at = "sent",
             tripStatus' \in Statuses, NEW x, ask' = [ask EXCEPT ![r] = x],
             x.at = "served" /\ r = "confirm" => x.read \in [status : {"CONFIRMED"}, seated : BOOLEAN],
             x.at = "served" /\ r = "cancel" => x.read \in [status : {"CANCELLED"}, seated : BOOLEAN]
      PROVE  PageInv'
  <2>1. Pending(r) /\ r \in Asks /\ r # "trip"
    BY <1>4 DEF Pending, Asks
  <2> QED
    BY <1>1, <1>2, <1>4, <2>1, AskKeeps
<1>5. CASE ServeConfirm
  <2>1. ask["confirm"].at = "sent" /\ tripStatus' \in Statuses
    BY <1>1, <1>5 DEF ServeConfirm, Statuses
  <2>2. CASE Refuses("confirm")
    BY <1>2, <1>4, <2>1, <2>2 DEF Refuses, Stage
  <2>3. CASE Served("confirm", [status |-> "CONFIRMED", seated |-> seated])
    BY <1>1, <1>2, <1>4, <2>1, <2>3 DEF Served
  <2> QED
    BY <1>5, <2>2, <2>3 DEF ServeConfirm
<1>6. CASE ServeCancel
  <2>1. ask["cancel"].at = "sent" /\ tripStatus' \in Statuses
    BY <1>1, <1>6 DEF ServeCancel, Statuses, Over
  <2>2. CASE Refuses("cancel")
    BY <1>2, <1>4, <2>1, <2>2 DEF Refuses, Stage
  <2>3. CASE Served("cancel", [status |-> "CANCELLED", seated |-> seated])
    BY <1>1, <1>2, <1>4, <2>1, <2>3 DEF Served
  <2> QED
    BY <1>6, <2>2, <2>3 DEF ServeCancel
<1>7. ASSUME NEW r \in {"request", "join", "leave"}, ServeRequest \/ ServeJoin \/ ServeLeave,
             ask[r].at = "sent", Refuses(r) \/ Served(r, "ok")
      PROVE  PageInv'
  <2>1. tripStatus' \in Statuses
    BY <1>1, <1>7 DEF ServeRequest, ServeJoin, ServeLeave
  <2>2. CASE Refuses(r)
    BY <1>4, <1>7, <2>1, <2>2 DEF Refuses
  <2>3. CASE Served(r, "ok")
    BY <1>4, <1>7, <2>1, <2>3 DEF Served
  <2> QED
    BY <1>7, <2>2, <2>3
<1>8. ServeRequest \/ ServeJoin \/ ServeLeave => PageInv'
  BY <1>7 DEF ServeRequest, ServeJoin, ServeLeave
<1> QED
  BY <1>2, <1>3, <1>5, <1>6, <1>8 DEF TripServer

LEMMA WorldKeepsPage ==
  ASSUME PageInv, TripWorld \/ UNCHANGED tripPageVars
  PROVE  PageInv' /\ UNCHANGED seen
<1>1. UNCHANGED <<seen, ask>>
  BY DEF TripWorld, TripMoves, BookingMoves, shownVars, tripPageVars
<1>2. tripStatus' \in Statuses /\ seated' \in BOOLEAN
  <2>1. tripStatus \in Statuses /\ seated \in BOOLEAN
    BY DEF PageInv
  <2>2. ASSUME NEW to \in Statuses, TripMoves(to) PROVE tripStatus' \in Statuses /\ seated' \in BOOLEAN
    BY <2>2 DEF TripMoves
  <2>3. ASSUME NEW to \in {"CONFIRMED", "none"}, BookingMoves(to)
        PROVE  tripStatus' \in Statuses /\ seated' \in BOOLEAN
    BY <2>1, <2>3 DEF BookingMoves
  <2>4. CASE UNCHANGED tripPageVars
    BY <2>1, <2>4 DEF tripPageVars, serverVars
  <2> QED
    BY <2>2, <2>3, <2>4 DEF TripWorld
<1>3. DOMAIN ask' = Asks /\ AnswerInv' /\ \A r \in Acting \cup {"trip"} : Pending(r)' => Pending(r)
  BY <1>1 DEF PageInv, AnswerInv, Pending, Answered
<1> QED
  BY <1>1, <1>2, <1>3, PageKeeps

\* An answer that leaves the page with the trip it shows.
LEMMA AnswerKeepsPage ==
  ASSUME PageInv, NEW r \in Asks \ {"features"}, NEW x, x \in {Unasked, Stage("failed")},
         ask' = [ask EXCEPT ![r] = x], UNCHANGED <<seen, serverVars>>
  PROVE  PageInv'
<1>1. x.at \notin {"sent", "served", "refused"}
  BY DEF Unasked, Stage
<1>2. tripStatus' \in Statuses /\ seated' \in BOOLEAN
  BY DEF PageInv, serverVars
<1> QED
  BY <1>1, <1>2, AskKeeps

\* The flags and the trip ask for other things when they arrive.
LEMMA ToMembershipKeeps ==
  ASSUME NEW asks, DOMAIN asks = Asks, NEW has, NEW flag
  PROVE  /\ DOMAIN ToMembership(asks, has, flag) = Asks
         /\ \A r \in Asks \ {"membership"} : ToMembership(asks, has, flag)[r] = asks[r]
  BY DEF ToMembership

LEMMA AnswersKeepPage ==
  ASSUME PageInv, TripAnswers
  PROVE  PageInv' /\ (Loaded => seen' # Unloaded /\ Rank(seen'.status) >= Rank(seen.status))
<1>0. \A s \in Statuses \cup {"none"} : Rank(s) \in Nat
  BY DEF Rank
<1>1. UNCHANGED seen => (Loaded => seen' # Unloaded /\ Rank(seen'.status) >= Rank(seen.status))
  <2> SUFFICES ASSUME UNCHANGED seen, Loaded
               PROVE  seen' # Unloaded /\ Rank(seen'.status) >= Rank(seen.status)
    OBVIOUS
  <2>1. seen.status \in Statuses
    BY DEF PageInv, Loaded, TripRows
  <2> QED
    BY <1>0, <2>1 DEF Loaded
<1>2. UNCHANGED serverVars /\ tripStatus' \in Statuses /\ seated' \in BOOLEAN
  BY DEF PageInv, serverVars, TripAnswers, FlagsArrive, TripArrivesAtPage, MembershipArrives,
         EntriesArrive, ActionArrives, QueueArrives
<1>3. ASSUME NEW flag \in {"on", "off"}, FlagsArrive(flag) PROVE PageInv' /\ UNCHANGED seen
  <2> DEFINE done == [ask EXCEPT !["features"] = Stage("done")]
  <2>1. DOMAIN done = Asks /\ \A r \in Asks \ {"features"} : done[r] = ask[r]
    BY DEF PageInv
  <2>2. ask' = ToMembership(done, seen, flag) /\ UNCHANGED seen
    BY <1>3 DEF FlagsArrive
  <2> HIDE DEF done
  <2>3. DOMAIN ask' = Asks /\ \A r \in Asks \ {"features", "membership"} : ask'[r] = ask[r]
    BY <2>1, <2>2, ToMembershipKeeps
  <2>4. AnswerInv' /\ \A r \in Acting \cup {"trip"} : Pending(r)' => Pending(r)
    BY <2>3 DEF PageInv, AnswerInv, Acting, Asks, Pending, Answered
  <2> QED
    BY <1>2, <2>2, <2>3, <2>4, PageKeeps
<1>4. CASE TripArrivesAtPage
  <2> DEFINE asked == [ask EXCEPT !["trip"] = Unasked]
             done == ToMembership(asked, seen', chatFlag)
  <2>1. DOMAIN asked = Asks /\ asked["trip"] = Unasked
        /\ \A r \in Asks \ {"trip"} : asked[r] = ask[r]
    BY DEF PageInv, Asks
  <2>2. /\ ask["trip"].at = "served" /\ seen' = ask["trip"].read
        /\ \/ ask' = done
           \/ ask' = [done EXCEPT !["entries"] = Sent]
    BY <1>4 DEF TripArrivesAtPage
  <2> HIDE DEF asked
  <2>3. DOMAIN done = Asks /\ \A r \in Asks \ {"membership"} : done[r] = asked[r]
    BY <2>1, ToMembershipKeeps
  <2> HIDE DEF done
  <2>4. DOMAIN ask' = Asks /\ \A r \in Acting : ask'[r] = ask[r]
    BY <2>1, <2>2, <2>3 DEF Acting, Asks
  <2>5. ask'["trip"] = Unasked
    BY <2>1, <2>2, <2>3 DEF Asks
  <2>6. ~Loaded /\ seen' \in TripRows
    BY <2>2 DEF PageInv, ActionInv, AnswerInv, Pending, Answered
  <2>7. \A r \in Acting : ~Pending(r) /\ ~Pending(r)'
    BY <2>4, <2>6 DEF PageInv, ActionInv, Pending, Answered
  <2>8. ~Pending("trip")'
    BY <2>5 DEF Pending, Answered, Unasked, Stage
  <2>9. ActionInv'
    BY <2>7, <2>8 DEF ActionInv, Acting
  <2>10. AnswerInv'
    BY <2>4, <2>5 DEF PageInv, AnswerInv, Acting, Unasked, Stage
  <2> QED
    BY <1>2, <2>4, <2>6, <2>9, <2>10 DEF PageInv
<1>5. CASE MembershipArrives \/ EntriesArrive \/ \E r \in Asks : QueueArrives(r)
  <2>1. PICK r \in Asks \ {"features"} : Ends(r) /\ UNCHANGED seen
    BY <1>5 DEF MembershipArrives, EntriesArrive, QueueArrives, Asks
  <2> QED
    BY <1>1, <1>2, <2>1, AnswerKeepsPage DEF Ends
<1>6. ASSUME NEW r \in Asks, ActionArrives(r)
      PROVE  PageInv' /\ (Loaded => seen' # Unloaded /\ Rank(seen'.status) >= Rank(seen.status))
  <2>1. r \in Acting /\ Pending(r) /\ Loaded /\ Ends(r)
    BY <1>6 DEF ActionArrives, PageInv, ActionInv, Pending
  <2>2. CASE r = "export" \/ ask[r].at = "refused"
    <3>1. UNCHANGED seen
      BY <1>6, <2>2 DEF ActionArrives
    <3> QED
      BY <1>1, <1>2, <2>1, <3>1, AnswerKeepsPage DEF Ends, Acting
  <2>3. CASE r # "export" /\ ask[r].at # "refused"
    <3>1. ask[r].at = "served" /\ seen' = ask[r].read /\ r \in {"confirm", "cancel"}
      BY <1>6, <2>1, <2>3 DEF ActionArrives, Answered, Acting
    <3>2. DOMAIN ask' = Asks /\ \A s \in Asks : ask'[s] = IF s = r THEN Unasked ELSE ask[s]
      BY <2>1 DEF Ends, PageInv
    <3>3. \A s \in Acting : ~Pending(s)'
      BY <2>1, <3>2 DEF PageInv, ActionInv, Pending, Answered, Acting, Asks, Unasked, Stage
    <3>4. ~Pending("trip")'
      BY <2>1, <3>2 DEF PageInv, ActionInv, Pending, Answered, Acting, Asks
    <3>5. seen' \in TripRows /\ seen'.status \in {"CONFIRMED", "CANCELLED"}
      BY <3>1 DEF PageInv, AnswerInv, TripRows, Statuses, Over
    <3>6. ActionInv'
      BY <3>3, <3>4 DEF ActionInv, Acting
    <3>7. AnswerInv'
      BY <3>2 DEF PageInv, AnswerInv, Asks, Unasked, Stage
    <3>8. seen' # Unloaded
      BY <3>5 DEF Unloaded
    <3>9. Rank(seen'.status) >= Rank(seen.status)
      <4>1. CASE r = "confirm"
        BY <2>1, <3>1, <4>1 DEF PageInv, ActionInv, AnswerInv, Rank, Bookable
      <4>2. CASE r = "cancel"
        BY <2>1, <3>1, <4>2 DEF PageInv, ActionInv, AnswerInv, Rank, Bookable
      <4> QED
        BY <3>1, <4>1, <4>2
    <3> QED
      BY <1>2, <3>2, <3>5, <3>6, <3>7, <3>8, <3>9 DEF PageInv
  <2> QED
    BY <2>2, <2>3
<1> QED
  BY <1>1, <1>3, <1>4, <1>5, <1>6 DEF TripAnswers

LEMMA ClicksKeepPage ==
  ASSUME PageInv, TripClicks
  PROVE  PageInv' /\ UNCHANGED seen
<1>1. ASSUME NEW r \in Asks \ {"features", "trip"}, Click(r),
             r \in Acting => Offered(r) /\ ~ActionPending
      PROVE  PageInv' /\ UNCHANGED seen
  <2>1. /\ ask' = [ask EXCEPT ![r] = Sent] /\ UNCHANGED <<seen, tripStatus, seated>>
        /\ Loaded
    BY <1>1 DEF Click, serverVars, shownVars
  <2>2. DOMAIN ask' = Asks /\ \A s \in Asks : ask'[s] = IF s = r THEN Sent ELSE ask[s]
    BY <2>1 DEF PageInv
  <2>3. CASE r \notin Acting
    <3>1. AnswerInv' /\ \A s \in Acting \cup {"trip"} : Pending(s)' => Pending(s)
      BY <1>1, <2>2, <2>3 DEF PageInv, AnswerInv, Acting, Asks, Pending, Answered
    <3> QED
      BY <2>1, <2>2, <3>1, PageKeeps DEF PageInv
  <2>4. CASE r \in Acting
    <3>1. \A s \in Acting : Pending(s)' => s = r
      BY <1>1, <2>2, <2>4 DEF ActionPending, Pending, Answered, Acting, Asks
    <3>2. ~Pending("trip")'
      BY <2>1, <2>2, <2>4 DEF PageInv, ActionInv, Pending, Answered, Acting, Asks
    <3>3. r = "confirm" => seen.status = "READY"
      BY <1>1, <2>4 DEF Offered
    <3>4. r = "cancel" => seen.status \notin Over
      BY <1>1, <2>4 DEF Offered
    <3>5. ActionInv'
      BY <2>1, <3>1, <3>2, <3>3, <3>4 DEF ActionInv, Acting, Loaded
    <3>6. AnswerInv'
      BY <2>2 DEF PageInv, AnswerInv, Asks, Sent, Stage
    <3> QED
      BY <2>1, <2>2, <3>5, <3>6 DEF PageInv
  <2> QED
    BY <2>3, <2>4
<1>2. ASSUME NEW r \in Asks, Act(r) PROVE PageInv' /\ UNCHANGED seen
  BY <1>1, <1>2 DEF Act, Acting
<1>3. ASSUME NEW r \in Asks, Queue(r) PROVE PageInv' /\ UNCHANGED seen
  BY <1>1, <1>3 DEF Queue, Acting
<1>4. CASE RequestSeats
  BY <1>1, <1>4 DEF RequestSeats, Acting, Asks
<1> QED
  BY <1>2, <1>3, <1>4 DEF TripClicks

LEMMA PageInvStep ==
  PageInv /\ [TripPageNext]_tripPageVars
    => PageInv' /\ (Loaded => seen' # Unloaded /\ Rank(seen'.status) >= Rank(seen.status))
<1> SUFFICES ASSUME PageInv, [TripPageNext]_tripPageVars
             PROVE  PageInv' /\ (Loaded => seen' # Unloaded /\ Rank(seen'.status) >= Rank(seen.status))
  OBVIOUS
<1>1. UNCHANGED seen => (Loaded => seen' # Unloaded /\ Rank(seen'.status) >= Rank(seen.status))
  BY DEF PageInv, Loaded, TripRows, Rank
<1>2. ASSUME NEW r \in Asks, AskFails(r) PROVE PageInv' /\ UNCHANGED seen
  <2>1. UNCHANGED <<seen, serverVars>> /\ ask' = [ask EXCEPT ![r] = Stage("failed")] /\ r # "features"
    BY <1>2 DEF AskFails, shownVars
  <2> QED
    BY <2>1, AnswerKeepsPage
<1> QED
  BY <1>1, <1>2, ServerKeepsPage, WorldKeepsPage, AnswersKeepPage, ClicksKeepPage DEF TripPageNext

\* A page that has shown a trip confirmed, completed or cancelled never shows
\* it earlier again, whatever order the answers to the requests of its buttons
\* come in.
THEOREM ShownTripOnlyMovesOn == TripPageSpec => ShownTripNeverStepsBack
<1> QED
  BY PageInvInit, PageInvStep, PTL DEF TripPageSpec, ShownTripNeverStepsBack

-----------------------------------------------------------------------------
(* The dashboards *)

Decisions == {"PENDING", "CONFIRMED", "REJECTED", "CANCELLED"}
BookingRows == [id : Bookings, status : Decisions, paid : BOOLEAN, canReview : BOOLEAN]

Asked == [at : {"idle", "sent", "served", "refused"}, id : Bookings \cup {NoBooking},
          rows : SUBSET BookingRows]

DashTypeOK ==
  /\ status \in [Bookings -> Decisions] /\ paid \in [Bookings -> BOOLEAN]
  /\ sent \in [Effects -> Asked]
  /\ \A e \in Mutations : sent[e].at # "idle" => sent[e].id \in Bookings
  /\ held \subseteq BookingRows
  /\ flags \in [loading : BOOLEAN, loaded : BOOLEAN, tripsLoading : BOOLEAN,
                tripsLoaded : BOOLEAN, error : BOOLEAN]
  /\ page \in {"none", "passenger", "driver"} /\ disturbed \in BOOLEAN

\* The load that brings the rows of the open dashboard, and all its loads.
RowsLoad == IF page = "passenger" THEN "loadMine" ELSE "loadForDriver"
OwnLoads == IF page = "passenger" THEN {"loadMine"} ELSE {"loadForDriver", "loadTrips"}

\* Loads run by themselves, they are those of the open dashboard, and the flags
\* of the store say of them what is so.
LoadsInv ==
  /\ \A l \in Loads : Busy(l) => l \in OwnLoads /\ \A e \in Mutations \cup {"review"} : ~Busy(e)
  /\ flags.loading <=> Busy(RowsLoad)
  /\ flags.loading \/ flags.loaded
  /\ page = "driver" =>
       /\ flags.tripsLoading <=> Busy("loadTrips")
       /\ flags.tripsLoading \/ flags.tripsLoaded
       /\ ~Busy("loadTrips") => trips = Driven

ServedOn(e, b) == sent[e].at = "served" /\ sent[e].id = b
Right(r) == r = Row(r.id, page = "passenger" /\ CanReview(r.id))
IdsOf(rows) == {r.id : r \in rows}

\* A booking never becomes PENDING again, so what a row says has been decided is.
Decided(r) == r.status # "PENDING" => status[r.id] # "PENDING"

\* The answer to a load: its rows are right, but for what others have done since.
AnsweredInv ==
  sent[RowsLoad].at = "served" =>
    /\ IdsOf(sent[RowsLoad].rows) = ShownBookings
    /\ \A r \in sent[RowsLoad].rows : Decided(r) /\ (r.id \in behind \/ Right(r))

\* The rows held: right as well, but for answers that have not arrived.
HeldInv ==
  ~Busy(RowsLoad) =>
    /\ IdsOf(held) = ShownBookings
    /\ \A r \in held :
         /\ Decided(r)
         /\ r.id \in behind \/ Right(r) \/ \E e \in Mutations \cup {"review"} : ServedOn(e, r.id)

\* Mutations under way are those of the open dashboard, on its bookings. Answers
\* to two of them never concern the same booking: a decision asks for a row that
\* was PENDING, setPaid for one that was not.
MutationsInv ==
  /\ \A e \in Mutations : Busy(e) =>
       sent[e].id \in ShownBookings /\ (page = "passenger" <=> e = "cancel")
  /\ \A e \in Mutations : sent[e].at = "served" =>
       /\ status[sent[e].id] # "PENDING"
       /\ \E x \in BookingRows :
            /\ sent[e].rows = {x} /\ x.id = sent[e].id /\ x.status # "PENDING" /\ ~x.canReview
            /\ x.id \in behind \/ Right(x)
  /\ \A r \in held : ServedOn("accept", r.id) \/ ServedOn("reject", r.id) => r.status = "PENDING"
  /\ Busy("setPaid") =>
       /\ status[sent["setPaid"].id] # "PENDING"
       /\ ~ServedOn("accept", sent["setPaid"].id) /\ ~ServedOn("reject", sent["setPaid"].id)
  /\ \A e, f \in Mutations :
       sent[e].at = "served" /\ sent[f].at = "served" /\ sent[e].id = sent[f].id => e = f

Steady == page # "none" /\ ~disturbed

DashInv ==
  /\ DashTypeOK /\ PendingIsUnderWay
  /\ Steady => LoadsInv /\ AnsweredInv /\ HeldInv /\ MutationsInv

LEMMA DashInvInit == DashInit => DashInv
<1> SUFFICES ASSUME DashInit PROVE DashInv
  OBVIOUS
<1>1. NoRequest \in Asked
  BY DEF NoRequest, Asked
<1>2. sent \in [Effects -> Asked]
  BY <1>1 DEF DashInit
<1>3. status \in [Bookings -> Decisions] /\ paid \in [Bookings -> BOOLEAN]
  BY DEF DashInit, Decisions
<1>4. DashTypeOK
  BY <1>2, <1>3 DEF DashInit, DashTypeOK, NoRequest, Effects, Mutations
<1> QED
  BY <1>4 DEF DashInit, DashInv, Steady, PendingIsUnderWay

\* The request an effect starts, and the one that ends.
LEMMA ExhaustMoves ==
  ASSUME NEW requests \in [Effects -> Asked], NEW e \in Effects, NEW id \in Bookings \cup {NoBooking}
  PROVE  LET after == Exhaust(requests, e, id) IN
         /\ after \in [Effects -> Asked]
         /\ \A f \in Effects \ {e} : after[f] = requests[f]
         /\ IF requests[e].at = "idle" THEN after[e].at = "sent" /\ after[e].id = id
            ELSE after[e] = requests[e]
<1> DEFINE new == [NoRequest EXCEPT !.at = "sent", !.id = id]
<1>1. new \in Asked
  BY DEF NoRequest, Asked
<1>2. new.at = "sent" /\ new.id = id
  BY DEF NoRequest
<1>3. Exhaust(requests, e, id) =
        IF requests[e].at = "idle" THEN [requests EXCEPT ![e] = new] ELSE requests
  BY DEF Exhaust
<1> HIDE DEF new
<1> QED
  BY <1>1, <1>2, <1>3

LEMMA EndedMoves ==
  ASSUME DashTypeOK, NEW e \in Effects
  PROVE  /\ Ended(e) \in [Effects -> Asked]
         /\ \A f \in Effects : Ended(e)[f] = IF f = e THEN NoRequest ELSE sent[f]
<1>1. NoRequest \in Asked
  BY DEF NoRequest, Asked
<1> QED
  BY <1>1 DEF Ended, DashTypeOK

\* The server answers a request.
LEMMA AnswerMoves ==
  ASSUME DashTypeOK, NEW e \in Effects, NEW rows \in SUBSET BookingRows,
         Answer(e, rows) \/ Refuse(e)
  PROVE  /\ sent' \in [Effects -> Asked]
         /\ \A f \in Effects \ {e} : sent'[f] = sent[f]
         /\ sent'[e].id = sent[e].id
         /\ \/ Answer(e, rows) /\ sent'[e].at = "served" /\ sent'[e].rows = rows
            \/ Refuse(e) /\ sent'[e].at = "refused"
<1>1. sent[e] \in Asked
  BY DEF DashTypeOK
<1>2. CASE Answer(e, rows)
  <2> DEFINE new == [[sent[e] EXCEPT !.at = "served"] EXCEPT !.rows = rows]
  <2>1. new \in Asked
    BY <1>1 DEF Asked
  <2>2. new.at = "served" /\ new.id = sent[e].id /\ new.rows = rows
    BY <1>1 DEF Asked
  <2>3. sent' \in [Effects -> Asked] /\ sent'[e] = new /\ \A f \in Effects \ {e} : sent'[f] = sent[f]
    BY <1>2, <2>1 DEF Answer, DashTypeOK
  <2> HIDE DEF new
  <2> QED
    BY <1>2, <2>2, <2>3
<1>3. CASE Refuse(e)
  <2> DEFINE new == [sent[e] EXCEPT !.at = "refused"]
  <2>1. new \in Asked
    BY <1>1 DEF Asked
  <2>2. new.at = "refused" /\ new.id = sent[e].id
    BY <1>1 DEF Asked
  <2>3. sent' \in [Effects -> Asked] /\ sent'[e] = new /\ \A f \in Effects \ {e} : sent'[f] = sent[f]
    BY <1>3, <2>1 DEF Refuse, DashTypeOK
  <2> HIDE DEF new
  <2> QED
    BY <1>3, <2>2, <2>3
<1> QED
  BY <1>2, <1>3

LEMMA RowsTypedToo ==
  ASSUME DashTypeOK, NEW b \in Bookings, NEW reviewable \in BOOLEAN
  PROVE  Row(b, reviewable) \in BookingRows
  BY DEF DashTypeOK, Row, BookingRows

\* A dashboard is opened, or its list loaded anew: what is steady from here on
\* has begun with no request under way.
LEMMA LoadMineKeeps ==
  ASSUME DashInv, NEW requests \in [Effects -> Asked], \A e \in Mutations : requests[e] = sent[e],
         LoadMine(requests, page'), page' \in {"none", "passenger", "driver"},
         UNCHANGED <<status, paid, held, pendingId>>
  PROVE  DashInv'
<1>1. /\ sent' \in [Effects -> Asked]
      /\ \A f \in Effects \ {"loadMine"} : sent'[f] = requests[f]
      /\ requests["loadMine"].at = "idle" => sent'["loadMine"].at = "sent"
  BY ExhaustMoves DEF LoadMine, Effects, Loads
<1>2. /\ flags' = [flags EXCEPT !.loading = TRUE, !.error = FALSE]
      /\ disturbed' = (page' # "passenger" \/ \E e \in Effects : requests[e].at # "idle")
  BY DEF LoadMine
<1>3. DashTypeOK' /\ flags'.loading
  BY <1>1, <1>2 DEF DashInv, DashTypeOK, Effects, Mutations, Loads
<1>4. PendingIsUnderWay'
  BY <1>1 DEF DashInv, PendingIsUnderWay, Busy, Effects, Mutations, Loads
<1>5. ASSUME Steady' PROVE (LoadsInv /\ AnsweredInv /\ HeldInv /\ MutationsInv)'
  <2>1. page' = "passenger" /\ \A e \in Effects : requests[e].at = "idle"
    BY <1>2, <1>5 DEF Steady
  <2>2. sent'["loadMine"].at = "sent" /\ \A e \in Effects \ {"loadMine"} : sent'[e].at = "idle"
    BY <1>1, <2>1 DEF Effects, Loads
  <2>3. LoadsInv'
    BY <1>3, <2>1, <2>2 DEF LoadsInv, OwnLoads, RowsLoad, Busy, Effects, Loads, Mutations
  <2>4. AnsweredInv' /\ HeldInv'
    BY <2>1, <2>2 DEF AnsweredInv, HeldInv, RowsLoad, Busy
  <2>5. MutationsInv'
    BY <2>2 DEF MutationsInv, Busy, ServedOn, Effects, Loads, Mutations
  <2> QED
    BY <2>3, <2>4, <2>5
<1> QED
  BY <1>3, <1>4, <1>5 DEF DashInv

LEMMA OpeningKeeps ==
  ASSUME DashInv, OpenPassenger \/ OpenDriver \/ ReviewArrives
  PROVE  DashInv'
<1>0. sent \in [Effects -> Asked] /\ page \in {"none", "passenger", "driver"}
  BY DEF DashInv, DashTypeOK
<1>1. CASE OpenPassenger
  BY <1>0, <1>1, LoadMineKeeps DEF OpenPassenger, bookVars
<1>2. CASE ReviewArrives
  <2>1. /\ Ended("review") \in [Effects -> Asked]
        /\ \A e \in Mutations : Ended("review")[e] = sent[e]
    BY EndedMoves DEF DashInv, Effects, Mutations
  <2>2. /\ LoadMine(Ended("review"), page) /\ page' = page
        /\ UNCHANGED <<status, paid, held, pendingId>>
    BY <1>2 DEF ReviewArrives, bookVars
  <2> QED
    BY <1>0, <2>1, <2>2, LoadMineKeeps
<1>3. CASE OpenDriver
  <2> DEFINE once == Exhaust(sent, "loadTrips", NoBooking)
  <2>1. /\ once \in [Effects -> Asked]
        /\ \A f \in Effects \ {"loadTrips"} : once[f] = sent[f]
        /\ sent["loadTrips"].at = "idle" => once["loadTrips"].at = "sent"
    BY <1>0, ExhaustMoves DEF Effects, Loads
  <2>2. sent' = Exhaust(once, "loadForDriver", NoBooking)
    BY <1>3 DEF OpenDriver
  <2> HIDE DEF once
  <2>3. /\ sent' \in [Effects -> Asked]
        /\ \A f \in Effects \ {"loadForDriver"} : sent'[f] = once[f]
        /\ once["loadForDriver"].at = "idle" => sent'["loadForDriver"].at = "sent"
    BY <2>1, <2>2, ExhaustMoves DEF Effects, Loads
  <2>4. /\ flags' = [flags EXCEPT !.loading = TRUE, !.tripsLoading = TRUE, !.error = FALSE]
        /\ disturbed' = ~Quiet /\ page' = "driver" /\ UNCHANGED <<status, paid, held, pendingId>>
    BY <1>3 DEF OpenDriver, bookVars
  <2>5. \A e \in Mutations : sent'[e] = sent[e]
    BY <2>1, <2>3 DEF Effects, Mutations, Loads
  <2>6. DashTypeOK' /\ flags'.loading /\ flags'.tripsLoading
    BY <2>3, <2>4, <2>5 DEF DashInv, DashTypeOK
  <2>7. PendingIsUnderWay'
    BY <2>4, <2>5 DEF DashInv, PendingIsUnderWay, Busy
  <2>8. ASSUME Steady' PROVE (LoadsInv /\ AnsweredInv /\ HeldInv /\ MutationsInv)'
    <3>1. \A e \in Effects : sent[e].at = "idle"
      BY <2>4, <2>8 DEF Steady, Quiet, Busy
    <3>2. /\ sent'["loadForDriver"].at = "sent" /\ sent'["loadTrips"].at = "sent"
          /\ \A e \in Effects \ {"loadForDriver", "loadTrips"} : sent'[e].at = "idle"
      BY <2>1, <2>3, <3>1 DEF Effects, Loads
    <3>3. LoadsInv'
      BY <2>4, <2>6, <3>2 DEF LoadsInv, OwnLoads, RowsLoad, Busy, Effects, Loads, Mutations
    <3>4. AnsweredInv' /\ HeldInv'
      BY <2>4, <3>2 DEF AnsweredInv, HeldInv, RowsLoad, Busy
    <3>5. MutationsInv'
      BY <3>2 DEF MutationsInv, Busy, ServedOn, Effects, Loads, Mutations
    <3> QED
      BY <3>3, <3>4, <3>5
  <2> QED
    BY <2>6, <2>7, <2>8 DEF DashInv
<1> QED
  BY <1>1, <1>2, <1>3

\* What the buttons rest on: the page has its rows, and no load is under way.
LEMMA LoadedPage ==
  ASSUME DashInv, Steady, ~PageLoading
  PROVE  /\ \A l \in Loads : ~Busy(l)
         /\ ~Busy(RowsLoad)
  BY DEF DashInv, LoadsInv, Steady, DashTypeOK, PageLoading, OwnLoads, RowsLoad, Loads

LEMMA PressKeeps ==
  ASSUME DashInv, NEW e \in Effects, PressButton(e)
  PROVE  DashInv'
<1>1. PICK pressed \in held : ButtonShown(e, pressed) /\ sent' = Exhaust(sent, e, pressed.id) /\ MarkPending(pressed.id)
  BY DEF PressButton
<1>2. /\ disturbed' = (disturbed \/ \E l \in Loads : Busy(l))
      /\ UNCHANGED <<status, paid, reviewed, held, trips, page, behind>>
      /\ flags' = [flags EXCEPT !.error = FALSE] /\ pendingId' = pressed.id
  BY <1>1 DEF PressButton, bookVars, MarkPending
<1>3. pressed \in BookingRows /\ pressed.id \in Bookings /\ sent \in [Effects -> Asked]
  BY <1>1 DEF DashInv, DashTypeOK, BookingRows
<1>4. /\ sent' \in [Effects -> Asked]
      /\ \A f \in Effects \ {e} : sent'[f] = sent[f]
      /\ IF sent[e].at = "idle" THEN sent'[e].at = "sent" /\ sent'[e].id = pressed.id
         ELSE sent'[e] = sent[e]
  BY <1>1, <1>3, ExhaustMoves
<1>5. e \in Mutations /\ ~PageLoading
  BY <1>1 DEF ButtonShown, Mutations
<1>6. DashTypeOK'
  <2>1. \A f \in Mutations : sent'[f].at # "idle" => sent'[f].id \in Bookings
    BY <1>3, <1>4 DEF DashInv, DashTypeOK, Effects
  <2> QED
    BY <1>2, <1>4, <2>1 DEF DashInv, DashTypeOK
<1>7. PendingIsUnderWay'
  BY <1>4, <1>5 DEF PendingIsUnderWay, Busy
<1>8. ASSUME Steady' PROVE (LoadsInv /\ AnsweredInv /\ HeldInv /\ MutationsInv)'
  <2>1. Steady /\ LoadsInv /\ AnsweredInv /\ HeldInv /\ MutationsInv
    BY <1>2, <1>8 DEF Steady, DashInv
  <2>2. (\A l \in Loads : ~Busy(l)) /\ ~Busy(RowsLoad)
    BY <1>5, <2>1, LoadedPage
  <2>3. \A l \in Loads : sent'[l] = sent[l]
    BY <1>4, <1>5 DEF Loads, Mutations, Effects
  <2>4. LoadsInv'
    BY <1>2, <2>1, <2>2, <2>3 DEF LoadsInv, OwnLoads, RowsLoad, Busy, Loads, DashInv, DashTypeOK
  <2>5. AnsweredInv'
    BY <1>2, <2>2, <2>3 DEF AnsweredInv, RowsLoad, Busy, Loads
  <2>6. \A f \in Effects : \A b : ServedOn(f, b) => ServedOn(f, b)'
    BY <1>4 DEF ServedOn
  <2>7. \A f \in Effects : \A b : ServedOn(f, b)' => ServedOn(f, b)
    BY <1>4 DEF ServedOn
  <2>8. HeldInv'
    <3>1. IdsOf(held) = ShownBookings /\ IdsOf(held)' = ShownBookings'
      BY <1>2, <2>1, <2>2 DEF HeldInv, IdsOf, ShownBookings
    <3>2. ASSUME NEW r \in held
          PROVE  Decided(r)' /\ (r.id \in behind' \/ Right(r)' \/ \E f \in Mutations \cup {"review"} : ServedOn(f, r.id)')
      <4>1. Decided(r) /\ (r.id \in behind \/ Right(r) \/ \E f \in Mutations \cup {"review"} : ServedOn(f, r.id))
        BY <2>1, <2>2 DEF HeldInv
      <4>2. Decided(r)' /\ (Right(r) => Right(r)')
        BY <1>2, <4>1 DEF Decided, Right, Row, CanReview, Eligible
      <4> QED
        BY <1>2, <2>6, <4>1, <4>2 DEF Effects
    <3> QED
      BY <1>2, <3>1, <3>2 DEF HeldInv
  <2>9. MutationsInv'
    <3>1. pressed.id \in ShownBookings /\ Decided(pressed)
      BY <1>1, <2>1, <2>2 DEF HeldInv, IdsOf
    <3>2. page = "passenger" <=> e = "cancel"
      BY <1>1 DEF ButtonShown
    <3>3. \A f \in Mutations : Busy(f)' =>
            sent'[f].id \in ShownBookings' /\ (page' = "passenger" <=> f = "cancel")
      BY <1>2, <1>4, <2>1, <3>1, <3>2 DEF MutationsInv, Busy, ShownBookings, Effects
    <3>4. \A f \in Mutations : sent'[f].at = "served" => sent'[f] = sent[f] /\ sent[f].at = "served"
      BY <1>4 DEF Effects
    <3>5. \A x : Right(x) => Right(x)'
      BY <1>2 DEF Right, Row, CanReview, Eligible
    <3>6. \A f \in Mutations : sent'[f].at = "served" =>
           /\ status'[sent'[f].id] # "PENDING"
           /\ \E x \in BookingRows :
                /\ sent'[f].rows = {x} /\ x.id = sent'[f].id /\ x.status # "PENDING" /\ ~x.canReview
                /\ x.id \in behind' \/ Right(x)'
      BY <1>2, <2>1, <3>4, <3>5 DEF MutationsInv
    <3>7. \A r \in held' : ServedOn("accept", r.id)' \/ ServedOn("reject", r.id)' => r.status = "PENDING"
      BY <1>2, <2>1, <2>7 DEF MutationsInv, Effects, Mutations
    <3>8. (Busy("setPaid") =>
             /\ status[sent["setPaid"].id] # "PENDING"
             /\ ~ServedOn("accept", sent["setPaid"].id) /\ ~ServedOn("reject", sent["setPaid"].id))'
      <4>1. CASE e = "setPaid" /\ sent[e].at = "idle"
        <5>1. pressed.status = "CONFIRMED" /\ sent'["setPaid"].id = pressed.id
          BY <1>1, <1>4, <4>1 DEF ButtonShown
        <5>2. ~ServedOn("accept", pressed.id) /\ ~ServedOn("reject", pressed.id)
          BY <1>1, <2>1, <5>1 DEF MutationsInv
        <5> QED
          BY <1>2, <1>4, <4>1, <3>1, <5>1, <5>2 DEF Decided, Effects, Mutations, ServedOn
      <4>2. CASE ~(e = "setPaid" /\ sent[e].at = "idle")
        <5>1. sent'["setPaid"] = sent["setPaid"]
          BY <1>4, <4>2 DEF Effects, Mutations
        <5>2. \A f \in {"accept", "reject"} : ServedOn(f, sent["setPaid"].id)' =>
                 ServedOn(f, sent["setPaid"].id)
          BY <1>4, <5>1 DEF ServedOn, Effects, Mutations
        <5> QED
          BY <1>2, <2>1, <5>1, <5>2 DEF MutationsInv, Busy
      <4> QED
        BY <4>1, <4>2
    <3>9. \A f, g \in Mutations :
            sent'[f].at = "served" /\ sent'[g].at = "served" /\ sent'[f].id = sent'[g].id => f = g
      BY <2>1, <3>4 DEF MutationsInv
    <3> QED
      BY <3>3, <3>6, <3>7, <3>8, <3>9 DEF MutationsInv
  <2> QED
    BY <2>4, <2>5, <2>8, <2>9
<1> QED
  BY <1>6, <1>7, <1>8 DEF DashInv

\* Loads are answered, and arrive, while nothing else is under way.
LEMMA ServeLoadKeeps ==
  ASSUME DashInv, NEW e \in Effects, ServeLoad(e)
  PROVE  DashInv'
<1> DEFINE rows == CASE e = "loadMine" -> MyRows [] e = "loadForDriver" -> DriverRows [] OTHER -> {}
<1>1. /\ e \in Loads /\ sent[e].at = "sent" /\ Answer(e, rows)
      /\ behind' = behind \ (IF e = "loadMine" THEN Own ELSE IF e = "loadForDriver" THEN Incoming ELSE {})
      /\ UNCHANGED <<status, paid, reviewed, held, trips, flags, pendingId, page, disturbed>>
  BY DEF ServeLoad, bookVars, storeVars
<1>2. rows \in SUBSET BookingRows
  BY RowsTypedToo DEF DashInv, MyRows, DriverRows, Bookings, CanReview, Eligible, Loads
<1> HIDE DEF rows
<1>3. /\ sent' \in [Effects -> Asked]
      /\ \A f \in Effects \ {e} : sent'[f] = sent[f]
      /\ sent'[e].at = "served" /\ sent'[e].rows = rows
  <2>1. /\ sent' \in [Effects -> Asked]
        /\ \A f \in Effects \ {e} : sent'[f] = sent[f]
        /\ \/ Answer(e, rows) /\ sent'[e].at = "served" /\ sent'[e].rows = rows
           \/ Refuse(e) /\ sent'[e].at = "refused"
    BY <1>1, <1>2, AnswerMoves DEF DashInv
  <2>2. sent'[e].at = "served"
    BY <1>1 DEF Answer, DashInv, DashTypeOK, Asked
  <2> QED
    BY <2>1, <2>2
<1>4. DashTypeOK'
  BY <1>1, <1>3 DEF DashInv, DashTypeOK, Effects, Mutations, Loads
<1>5. PendingIsUnderWay'
  BY <1>1, <1>3 DEF DashInv, PendingIsUnderWay, Busy, Effects, Loads, Mutations
<1>6. ASSUME Steady' PROVE (LoadsInv /\ AnsweredInv /\ HeldInv /\ MutationsInv)'
  <2>1. Steady /\ LoadsInv /\ AnsweredInv /\ HeldInv
    BY <1>1, <1>6 DEF Steady, DashInv
  <2>2. e \in OwnLoads /\ page \in {"passenger", "driver"}
        /\ \A f \in Mutations \cup {"review"} : ~Busy(f) /\ ~Busy(f)'
    BY <1>1, <1>3, <2>1 DEF LoadsInv, Busy, Effects, Loads, Mutations, Steady, DashInv, DashTypeOK
  <2>3. \A l \in Loads : Busy(l)' <=> Busy(l)
    BY <1>1, <1>3 DEF Busy, Effects, Loads
  <2>4. LoadsInv'
    BY <1>1, <2>1, <2>2, <2>3 DEF LoadsInv, OwnLoads, RowsLoad, Loads
  <2>5. MutationsInv'
    BY <2>2 DEF MutationsInv, Busy, ServedOn, Mutations
  <2>6. CASE e = RowsLoad
    <3>1. HeldInv'
      BY <1>1, <1>3, <2>6 DEF HeldInv, RowsLoad, Busy
    <3>2. rows = {Row(b, page = "passenger" /\ CanReview(b)) : b \in ShownBookings}
      <4>1. CASE page = "passenger"
        <5>1. \A b : CanReview(b) = (page = "passenger" /\ CanReview(b))
          BY <4>1 DEF CanReview
        <5>2. rows = {Row(b, CanReview(b)) : b \in ShownBookings}
          BY <2>6, <4>1 DEF rows, RowsLoad, MyRows, ShownBookings
        <5> QED
          BY <5>1, <5>2, Zenon
      <4>2. CASE page = "driver"
        <5>1. \A b : FALSE = (page = "passenger" /\ CanReview(b))
          BY <4>2
        <5>2. rows = {Row(b, FALSE) : b \in ShownBookings}
          BY <2>6, <4>2 DEF rows, RowsLoad, DriverRows, ShownBookings
        <5> QED
          BY <5>1, <5>2, Zenon
      <4> QED
        BY <2>2, <4>1, <4>2
    <3>3. \A b, x : Row(b, x).id = b /\ Row(b, x).status = status[b]
      BY DEF Row
    <3>4. IdsOf(rows) = ShownBookings /\ \A r \in rows : Decided(r) /\ Right(r)
      BY <3>2, <3>3 DEF IdsOf, Decided, Right
    <3>5. IdsOf(rows) = ShownBookings' /\ \A r \in rows : Decided(r)' /\ Right(r)'
      BY <1>1, <3>4 DEF ShownBookings, Decided, Right, Row, CanReview, Eligible
    <3>6. RowsLoad' = e
      BY <1>1, <2>6 DEF RowsLoad
    <3>7. AnsweredInv'
      BY <1>3, <3>5, <3>6 DEF AnsweredInv, IdsOf
    <3> QED
      BY <2>4, <2>5, <3>1, <3>7
  <2>7. CASE e # RowsLoad
    <3>1. behind' = behind /\ RowsLoad' = RowsLoad /\ sent'[RowsLoad] = sent[RowsLoad]
      BY <1>1, <1>3, <2>2, <2>7 DEF OwnLoads, RowsLoad, Effects, Loads
    <3>2. \A r : (Decided(r) => Decided(r)') /\ (Right(r) => Right(r)')
      BY <1>1 DEF Decided, Right, Row, CanReview, Eligible
    <3>3. AnsweredInv'
      BY <1>1, <2>1, <3>1, <3>2 DEF AnsweredInv, ShownBookings, IdsOf
    <3>4. HeldInv'
      BY <1>1, <2>1, <2>2, <3>1, <3>2 DEF HeldInv, ShownBookings, IdsOf, Busy, ServedOn
    <3> QED
      BY <2>4, <2>5, <3>3, <3>4
  <2> QED
    BY <2>6, <2>7
<1> QED
  BY <1>4, <1>5, <1>6 DEF DashInv

LEMMA BookingsArriveKeeps ==
  ASSUME DashInv, NEW e \in Effects, BookingsArrive(e)
  PROVE  DashInv'
<1>1. /\ e \in {"loadMine", "loadForDriver"} /\ sent[e].at = "served"
      /\ held' = sent[e].rows /\ trips' = trips \cup TripsOf(sent[e].rows)
      /\ flags' = [flags EXCEPT !.loading = FALSE, !.loaded = TRUE]
      /\ pendingId' = NoBooking /\ sent' = Ended(e)
      /\ UNCHANGED <<status, paid, reviewed, page, behind, disturbed>>
  BY DEF BookingsArrive, bookVars, auxVars
<1>2. sent' \in [Effects -> Asked] /\ \A f \in Effects : sent'[f] = IF f = e THEN NoRequest ELSE sent[f]
  BY <1>1, EndedMoves DEF DashInv
<1>3. sent[e].rows \in SUBSET BookingRows
  BY DEF DashInv, DashTypeOK, Asked
<1>4. DashTypeOK' /\ ~flags'.loading /\ flags'.loaded
      /\ flags'.tripsLoading = flags.tripsLoading /\ flags'.tripsLoaded = flags.tripsLoaded
  BY <1>1, <1>2, <1>3 DEF DashInv, DashTypeOK, Effects, Mutations, Loads
<1>5. PendingIsUnderWay'
  BY <1>1 DEF PendingIsUnderWay
<1>6. ASSUME Steady' PROVE (LoadsInv /\ AnsweredInv /\ HeldInv /\ MutationsInv)'
  <2>1. Steady /\ LoadsInv /\ AnsweredInv
    BY <1>1, <1>6 DEF Steady, DashInv
  <2>2. e \in OwnLoads /\ page \in {"passenger", "driver"}
        /\ \A f \in Mutations \cup {"review"} : ~Busy(f) /\ ~Busy(f)'
    BY <1>1, <1>2, <2>1 DEF LoadsInv, Busy, Effects, Loads, Mutations, Steady, DashInv, DashTypeOK
  <2>3. e = RowsLoad /\ RowsLoad' = e /\ ~Busy(e)'
    BY <1>1, <1>2, <2>2 DEF OwnLoads, RowsLoad, Busy, NoRequest
  <2>4. \A l \in Loads \ {e} : Busy(l)' <=> Busy(l)
    BY <1>2 DEF Busy, Effects
  <2>5. IdsOf(sent[e].rows) = ShownBookings
        /\ \A r \in sent[e].rows : Decided(r) /\ (r.id \in behind \/ Right(r))
    BY <1>1, <2>1, <2>3 DEF AnsweredInv
  <2>6. page = "driver" => TripsOf(sent[e].rows) \subseteq Driven
    BY <1>3, <2>5, DashboardAssumption DEF IdsOf, ShownBookings, TripsOf, BookingRows
  <2>7. LoadsInv'
    BY <1>1, <1>4, <2>1, <2>2, <2>3, <2>4, <2>6 DEF LoadsInv, OwnLoads, RowsLoad, Loads
  <2>8. AnsweredInv'
    BY <2>3 DEF AnsweredInv, Busy
  <2>9. \A r : (Decided(r) => Decided(r)') /\ (Right(r) => Right(r)')
    BY <1>1 DEF Decided, Right, Row, CanReview, Eligible
  <2>10. HeldInv'
    BY <1>1, <2>5, <2>9 DEF HeldInv, ShownBookings, IdsOf
  <2>11. MutationsInv'
    BY <2>2 DEF MutationsInv, Busy, ServedOn, Mutations
  <2> QED
    BY <2>7, <2>8, <2>10, <2>11
<1> QED
  BY <1>4, <1>5, <1>6 DEF DashInv

LEMMA TripsArriveKeeps ==
  ASSUME DashInv, TripsArrive
  PROVE  DashInv'
<1>1. /\ sent["loadTrips"].at = "served" /\ trips' = Driven
      /\ flags' = [flags EXCEPT !.tripsLoading = FALSE, !.tripsLoaded = TRUE]
      /\ sent' = Ended("loadTrips")
      /\ UNCHANGED <<status, paid, reviewed, held, pendingId, page, behind, disturbed>>
  BY DEF TripsArrive, bookVars, auxVars
<1>2. /\ sent' \in [Effects -> Asked]
      /\ \A f \in Effects : sent'[f] = IF f = "loadTrips" THEN NoRequest ELSE sent[f]
  BY <1>1, EndedMoves DEF DashInv, Effects, Loads
<1>4. DashTypeOK' /\ flags'.loading = flags.loading /\ flags'.loaded = flags.loaded
      /\ ~flags'.tripsLoading /\ flags'.tripsLoaded
  BY <1>1, <1>2 DEF DashInv, DashTypeOK, Effects, Mutations, Loads
<1>5. PendingIsUnderWay'
  BY <1>1, <1>2 DEF DashInv, PendingIsUnderWay, Busy, Effects, Mutations
<1>6. ASSUME Steady' PROVE (LoadsInv /\ AnsweredInv /\ HeldInv /\ MutationsInv)'
  <2>1. Steady /\ LoadsInv /\ AnsweredInv /\ HeldInv
    BY <1>1, <1>6 DEF Steady, DashInv
  <2>2. page = "driver" /\ \A f \in Mutations \cup {"review"} : ~Busy(f) /\ ~Busy(f)'
    BY <1>1, <1>2, <2>1
       DEF LoadsInv, OwnLoads, Busy, Effects, Loads, Mutations, Steady, DashInv, DashTypeOK
  <2>3. RowsLoad = "loadForDriver" /\ RowsLoad' = RowsLoad /\ sent'[RowsLoad] = sent[RowsLoad]
        /\ ~Busy("loadTrips")' /\ sent'["loadMine"] = sent["loadMine"]
    BY <1>1, <1>2, <2>2 DEF RowsLoad, Busy, NoRequest, Effects, Loads
  <2>4. LoadsInv'
    BY <1>1, <1>4, <2>1, <2>2, <2>3 DEF LoadsInv, OwnLoads, RowsLoad, Loads, Busy
  <2>5. \A r : (Decided(r) => Decided(r)') /\ (Right(r) => Right(r)')
    BY <1>1 DEF Decided, Right, Row, CanReview, Eligible
  <2>6. AnsweredInv'
    BY <1>1, <2>1, <2>3, <2>5 DEF AnsweredInv, ShownBookings, IdsOf
  <2>7. HeldInv'
    BY <1>1, <2>1, <2>2, <2>3, <2>5 DEF HeldInv, ShownBookings, IdsOf, Busy, ServedOn
  <2>8. MutationsInv'
    BY <2>2 DEF MutationsInv, Busy, ServedOn, Mutations
  <2> QED
    BY <2>4, <2>6, <2>7, <2>8
<1> QED
  BY <1>4, <1>5, <1>6 DEF DashInv

LEMMA LoadFailsKeeps ==
  ASSUME DashInv, NEW e \in Effects, LoadFails(e)
  PROVE  DashInv'
<1>1. /\ e \in Loads /\ sent' = Ended(e) /\ disturbed'
      /\ UNCHANGED <<status, paid, held, pendingId, page>>
      /\ \/ flags' = [flags EXCEPT !.tripsLoading = FALSE, !.error = TRUE]
         \/ flags' = [flags EXCEPT !.loading = FALSE, !.error = TRUE]
  BY DEF LoadFails, bookVars
<1>2. sent' \in [Effects -> Asked] /\ \A f \in Effects : sent'[f] = IF f = e THEN NoRequest ELSE sent[f]
  BY <1>1, EndedMoves DEF DashInv
<1>3. PendingIsUnderWay'
  BY <1>1, <1>2 DEF DashInv, PendingIsUnderWay, Busy, Effects, Mutations, Loads
<1>4. \A f \in Mutations : sent'[f] = sent[f]
  BY <1>1, <1>2 DEF Effects, Mutations, Loads
<1> QED
  BY <1>1, <1>2, <1>3, <1>4 DEF DashInv, DashTypeOK, Steady

\* Other people decide: what the page has not heard of is remembered.
LEMMA OthersKeep ==
  ASSUME DashInv, NEW b \in Bookings, NEW to \in {"CONFIRMED", "REJECTED", "CANCELLED"},
         OthersDecide(b, to)
  PROVE  DashInv'
<1>1. /\ status' = [status EXCEPT ![b] = to] /\ behind' = behind \cup {b}
      /\ UNCHANGED <<paid, reviewed, sent, held, trips, flags, pendingId, page, disturbed>>
  BY DEF OthersDecide, storeVars
<1>2. /\ status' \in [Bookings -> Decisions]
      /\ \A c \in Bookings : status'[c] = IF c = b THEN to ELSE status[c]
  BY <1>1 DEF DashInv, DashTypeOK, Decisions
<1>3. DashTypeOK' /\ PendingIsUnderWay'
  BY <1>1, <1>2 DEF DashInv, DashTypeOK, PendingIsUnderWay, Busy
<1>4. ASSUME Steady' PROVE (LoadsInv /\ AnsweredInv /\ HeldInv /\ MutationsInv)'
  <2>1. LoadsInv /\ AnsweredInv /\ HeldInv /\ MutationsInv
    BY <1>1, <1>4 DEF Steady, DashInv
  <2>2. LoadsInv' /\ RowsLoad' = RowsLoad /\ ShownBookings' = ShownBookings
    BY <1>1, <2>1 DEF LoadsInv, OwnLoads, RowsLoad, Busy, ShownBookings
  <2>3. \A r \in BookingRows : (Decided(r) => Decided(r)') /\ (r.id \in behind \/ Right(r) => r.id \in behind' \/ Right(r)')
    BY <1>1, <1>2 DEF Decided, Right, Row, CanReview, Eligible, BookingRows
  <2>4. AnsweredInv'
    <3>1. sent[RowsLoad].rows \subseteq BookingRows
      BY DEF DashInv, DashTypeOK, Asked, RowsLoad, Effects, Loads
    <3> QED
      BY <1>1, <2>1, <2>2, <2>3, <3>1 DEF AnsweredInv, IdsOf
  <2>5. HeldInv'
    <3>1. held \subseteq BookingRows
      BY DEF DashInv, DashTypeOK
    <3>2. \A e, c : ServedOn(e, c) => ServedOn(e, c)'
      BY <1>1 DEF ServedOn
    <3>3. Busy(RowsLoad)' <=> Busy(RowsLoad)
      BY <1>1, <2>2 DEF Busy
    <3> QED
      BY <1>1, <2>1, <2>2, <2>3, <3>1, <3>2, <3>3 DEF HeldInv, IdsOf
  <2>6. MutationsInv'
    <3>1. \A e \in Mutations : sent'[e] = sent[e]
      BY <1>1
    <3>2. \A c \in Bookings : status[c] # "PENDING" => status'[c] # "PENDING"
      BY <1>2
    <3>3. \A e \in Mutations : Busy(e) => sent[e].id \in Bookings
      BY <2>1 DEF MutationsInv, ShownBookings, Bookings
    <3>4. \A e \in Mutations : (Busy(e) => sent[e].id \in ShownBookings /\ (page = "passenger" <=> e = "cancel"))'
      BY <1>1, <2>1, <2>2, <3>1 DEF MutationsInv, Busy
    <3>5. \A e \in Mutations : sent'[e].at = "served" =>
            /\ status'[sent'[e].id] # "PENDING"
            /\ \E x \in BookingRows :
                 /\ sent'[e].rows = {x} /\ x.id = sent'[e].id /\ x.status # "PENDING" /\ ~x.canReview
                 /\ x.id \in behind' \/ Right(x)'
      BY <2>1, <2>3, <3>1, <3>2, <3>3 DEF MutationsInv, Busy
    <3>6. (\A r \in held : ServedOn("accept", r.id) \/ ServedOn("reject", r.id) => r.status = "PENDING")'
      BY <1>1, <2>1 DEF MutationsInv, ServedOn
    <3>7. (Busy("setPaid") =>
             /\ status[sent["setPaid"].id] # "PENDING"
             /\ ~ServedOn("accept", sent["setPaid"].id) /\ ~ServedOn("reject", sent["setPaid"].id))'
      BY <1>1, <2>1, <3>2, <3>3 DEF MutationsInv, Busy, ServedOn, Mutations
    <3>8. \A f, g \in Mutations :
            sent'[f].at = "served" /\ sent'[g].at = "served" /\ sent'[f].id = sent'[g].id => f = g
      BY <1>1, <2>1 DEF MutationsInv
    <3> QED
      BY <3>4, <3>5, <3>6, <3>7, <3>8 DEF MutationsInv
  <2> QED
    BY <2>2, <2>4, <2>5, <2>6
<1> QED
  BY <1>3, <1>4 DEF DashInv

\* The request of a review moves; the lists stay as they are, and so do the
\* answers to mutations.
LEMMA ReviewMoves ==
  ASSUME DashInv, sent' \in [Effects -> Asked], \A f \in Effects \ {"review"} : sent'[f] = sent[f],
         UNCHANGED <<status, paid, held, trips, flags, pendingId, page, disturbed>>,
         Steady /\ sent'["review"].at # "idle" => \A l \in Loads : ~Busy(l),
         behind \subseteq behind',
         Steady => \A r \in BookingRows : (Busy(RowsLoad) \/ ~r.canReview) /\ Right(r) => Right(r)',
         Steady /\ ~Busy(RowsLoad) =>
           \A r \in held :
             Right(r) \/ ServedOn("review", r.id) => r.id \in behind' \/ Right(r)' \/ ServedOn("review", r.id)'
  PROVE  DashInv'
<1>1. DashTypeOK'
  BY DEF DashInv, DashTypeOK, Effects, Mutations, Loads
<1>2. PendingIsUnderWay'
  BY DEF DashInv, PendingIsUnderWay, Busy, Effects, Mutations
<1>3. ASSUME Steady' PROVE (LoadsInv /\ AnsweredInv /\ HeldInv /\ MutationsInv)'
  <2>1. Steady /\ LoadsInv /\ AnsweredInv /\ HeldInv /\ MutationsInv
    BY <1>3 DEF Steady, DashInv
  <2>2. /\ \A e \in Loads \cup Mutations : sent'[e] = sent[e] /\ (Busy(e)' <=> Busy(e))
        /\ sent'[RowsLoad] = sent[RowsLoad] /\ (Busy(RowsLoad)' <=> Busy(RowsLoad))
    BY DEF Effects, Loads, Mutations, Busy, RowsLoad
  <2>3. RowsLoad' = RowsLoad /\ OwnLoads' = OwnLoads /\ ShownBookings' = ShownBookings
    BY DEF RowsLoad, OwnLoads, ShownBookings
  <2>4. LoadsInv'
    BY <2>1, <2>2, <2>3 DEF LoadsInv, Busy, Loads
  <2>5. \A r : Decided(r) => Decided(r)'
    BY DEF Decided
  <2>6. AnsweredInv'
    <3>1. sent[RowsLoad].rows \subseteq BookingRows
      BY DEF DashInv, DashTypeOK, Asked, RowsLoad, Effects, Loads
    <3> QED
      BY <2>1, <2>2, <2>3, <2>5, <3>1 DEF AnsweredInv, IdsOf, Busy
  <2>7. HeldInv'
    <3>1. \A e \in Mutations : \A c : ServedOn(e, c) => ServedOn(e, c)'
      BY <2>2 DEF ServedOn
    <3> QED
      BY <2>1, <2>2, <2>3, <2>5, <3>1 DEF HeldInv, IdsOf
  <2>8. MutationsInv'
    <3>1. \A e \in Mutations : sent'[e] = sent[e]
      BY <2>2
    <3>2. \A e \in Mutations : (Busy(e) => sent[e].id \in ShownBookings /\ (page = "passenger" <=> e = "cancel"))'
      BY <2>1, <2>2, <2>3 DEF MutationsInv
    <3>3. \A e \in Mutations : sent'[e].at = "served" =>
            /\ status'[sent'[e].id] # "PENDING"
            /\ \E x \in BookingRows :
                 /\ sent'[e].rows = {x} /\ x.id = sent'[e].id /\ x.status # "PENDING" /\ ~x.canReview
                 /\ x.id \in behind' \/ Right(x)'
      BY <2>1, <3>1 DEF MutationsInv
    <3>4. (\A r \in held : ServedOn("accept", r.id) \/ ServedOn("reject", r.id) => r.status = "PENDING")'
      BY <2>1, <3>1 DEF MutationsInv, ServedOn, Mutations
    <3>5. (Busy("setPaid") =>
             /\ status[sent["setPaid"].id] # "PENDING"
             /\ ~ServedOn("accept", sent["setPaid"].id) /\ ~ServedOn("reject", sent["setPaid"].id))'
      BY <2>1, <3>1 DEF MutationsInv, ServedOn, Mutations, Busy
    <3>6. \A f, g \in Mutations :
            sent'[f].at = "served" /\ sent'[g].at = "served" /\ sent'[f].id = sent'[g].id => f = g
      BY <2>1, <3>1 DEF MutationsInv
    <3> QED
      BY <3>2, <3>3, <3>4, <3>5, <3>6 DEF MutationsInv
  <2> QED
    BY <2>4, <2>6, <2>7, <2>8
<1> QED
  BY <1>1, <1>2, <1>3 DEF DashInv

LEMMA ReviewKeeps ==
  ASSUME DashInv, SubmitReview \/ ServeReview \/ ReviewFails
  PROVE  DashInv'
<1>1. /\ sent \in [Effects -> Asked] /\ NoRequest \in Asked /\ "review" \in Effects
      /\ sent["review"].id \in Bookings \cup {NoBooking}
  BY DEF DashInv, DashTypeOK, NoRequest, Asked, Effects
<1>2. ASSUME UNCHANGED <<status, paid, reviewed, page>>
      PROVE  \A r : Right(r) => Right(r)'
  BY <1>2 DEF Right, Row, CanReview, Eligible
<1>3. CASE SubmitReview
  <2>1. PICK pressed \in held :
          sent' = [sent EXCEPT !["review"] = [NoRequest EXCEPT !.at = "sent", !.id = pressed.id]]
    BY <1>3 DEF SubmitReview
  <2> DEFINE new == [NoRequest EXCEPT !.at = "sent", !.id = pressed.id]
  <2>2. new \in Asked /\ new.at = "sent"
    BY DEF NoRequest, Asked, DashInv, DashTypeOK, BookingRows
  <2>3. sent' = [sent EXCEPT !["review"] = new]
    BY <2>1
  <2> HIDE DEF new
  <2>4. /\ sent' \in [Effects -> Asked] /\ sent'["review"].at = "sent"
        /\ \A f \in Effects \ {"review"} : sent'[f] = sent[f]
    BY <1>1, <2>2, <2>3
  <2>5. /\ ~PageLoading /\ ~Busy("review")
        /\ UNCHANGED <<status, paid, reviewed, held, trips, flags, pendingId, page, behind, disturbed>>
    BY <1>3 DEF SubmitReview, bookVars, storeVars
  <2>6. \A b : ~ServedOn("review", b)
    BY <2>5 DEF Busy, ServedOn
  <2>7. Steady => \A l \in Loads : ~Busy(l)
    BY <2>5, LoadedPage
  <2> QED
    BY <1>2, <2>4, <2>5, <2>6, <2>7, ReviewMoves
<1>4. CASE ReviewFails
  <2>1. /\ Busy("review") /\ sent' = Ended("review")
        /\ behind' = IF sent["review"].at = "sent" THEN behind ELSE behind \cup {sent["review"].id}
        /\ UNCHANGED <<status, paid, reviewed, held, trips, flags, pendingId, page, disturbed>>
    BY <1>4 DEF ReviewFails, bookVars, storeVars
  <2>2. /\ sent' \in [Effects -> Asked] /\ sent'["review"].at = "idle"
        /\ \A f \in Effects \ {"review"} : sent'[f] = sent[f]
    BY <1>1, <2>1, EndedMoves DEF DashInv, NoRequest
  <2>3. \A b : ServedOn("review", b) => b \in behind'
    BY <2>1 DEF ServedOn
  <2> QED
    BY <1>2, <2>1, <2>2, <2>3, ReviewMoves
<1>5. CASE ServeReview
  <2> DEFINE b == sent["review"].id
  <2>1. /\ sent["review"].at = "sent"
        /\ \/ reviewed' = reviewed \cup {b} /\ Answer("review", {})
           \/ UNCHANGED reviewed /\ Refuse("review")
        /\ UNCHANGED <<status, paid, held, trips, flags, pendingId, page, behind, disturbed>>
    BY <1>5 DEF ServeReview, CreateReview, storeVars, auxVars
  <2>2. /\ sent' \in [Effects -> Asked]
        /\ \A f \in Effects \ {"review"} : sent'[f] = sent[f]
        /\ sent'["review"].id = b
        /\ \/ reviewed' = reviewed \cup {b} /\ sent'["review"].at = "served"
           \/ UNCHANGED reviewed
    <3>1. {} \in SUBSET BookingRows
      OBVIOUS
    <3>2. CASE reviewed' = reviewed \cup {b} /\ Answer("review", {})
      <4>1. sent'["review"].at = "served"
        BY <1>1, <3>2 DEF Answer, Asked
      <4> QED
        BY <1>1, <3>1, <3>2, <4>1, AnswerMoves DEF DashInv
    <3>3. CASE UNCHANGED reviewed /\ Refuse("review")
      BY <1>1, <3>1, <3>3, AnswerMoves DEF DashInv
    <3> QED
      BY <2>1, <3>2, <3>3
  <2>3. Steady => \A l \in Loads : ~Busy(l)
    BY <2>1 DEF DashInv, LoadsInv, Busy
  <2>4. RowsLoad \in Loads
    BY DEF RowsLoad, Loads
  <2>5. \A r \in BookingRows : ~r.canReview /\ Right(r) => Right(r)'
    <3> SUFFICES ASSUME NEW r \in BookingRows, ~r.canReview, Right(r) PROVE Right(r)'
      OBVIOUS
    <3>1. /\ r = Row(r.id, page = "passenger" /\ CanReview(r.id))
          /\ r.canReview = (page = "passenger" /\ CanReview(r.id))
      BY DEF Right, Row
    <3>2. ~(page = "passenger" /\ CanReview(r.id))
      BY <3>1
    <3>3. ~(page = "passenger" /\ CanReview(r.id))'
      BY <2>1, <3>2 DEF CanReview, Eligible
    <3>4. Row(r.id, FALSE)' = Row(r.id, FALSE)
      BY <2>1 DEF Row
    <3>5. (page = "passenger" /\ CanReview(r.id)) = FALSE /\ (page = "passenger" /\ CanReview(r.id))' = FALSE
      BY <3>2, <3>3
    <3>6. r = Row(r.id, FALSE)
      BY <3>1, <3>5
    <3> QED
      BY <3>4, <3>5, <3>6 DEF Right, Row
  <2>6. \A r \in held : Right(r) \/ ServedOn("review", r.id) => Right(r)' \/ ServedOn("review", r.id)'
    <3> SUFFICES ASSUME NEW r \in held, Right(r) PROVE Right(r)' \/ ServedOn("review", r.id)'
      BY <2>1 DEF ServedOn
    <3>1. CASE r.id = b /\ reviewed' = reviewed \cup {b} /\ sent'["review"].at = "served"
      BY <2>2, <3>1 DEF ServedOn
    <3>2. CASE UNCHANGED reviewed
      BY <1>2, <2>1, <3>2
    <3>3. CASE r.id # b /\ reviewed' = reviewed \cup {b}
      <4>1. CanReview(r.id)' = CanReview(r.id)
        BY <2>1, <3>3 DEF CanReview, Eligible
      <4> QED
        BY <2>1, <4>1 DEF Right, Row
    <3> QED
      BY <2>2, <3>1, <3>2, <3>3
  <2> HIDE DEF b
  <2> QED
    BY <2>1, <2>2, <2>3, <2>4, <2>5, <2>6, ReviewMoves
<1> QED
  BY <1>3, <1>4, <1>5

\* The server decides a request of a button.
LEMMA ServeMutationKeeps ==
  ASSUME DashInv, NEW e \in Effects, ServeMutation(e)
  PROVE  DashInv'
<1>0. PICK b : b = sent[e].id
  OBVIOUS
<1>1. /\ e \in Mutations /\ sent[e].at = "sent" /\ sent \in [Effects -> Asked] /\ b \in Bookings
      /\ UNCHANGED <<reviewed, held, trips, flags, pendingId, page, disturbed>>
  BY <1>0 DEF ServeMutation, storeVars, DashInv, DashTypeOK
<1>2. ASSUME Refuse(e), UNCHANGED <<status, paid, behind>>
      PROVE  DashInv'
  <2>1. {} \in SUBSET BookingRows
    OBVIOUS
  <2>2. /\ sent' \in [Effects -> Asked] /\ sent'[e].id = b /\ sent'[e].at = "refused"
        /\ \A f \in Effects \ {e} : sent'[f] = sent[f]
    <3>1. sent'[e].at = "refused"
      BY <1>1, <1>2 DEF Refuse, Asked
    <3> QED
      BY <1>0, <1>2, <2>1, <3>1, AnswerMoves DEF DashInv
  <2>3. DashTypeOK' /\ PendingIsUnderWay'
    BY <1>1, <1>2, <2>2 DEF DashInv, DashTypeOK, PendingIsUnderWay, Busy, Effects
  <2>4. ASSUME Steady' PROVE (LoadsInv /\ AnsweredInv /\ HeldInv /\ MutationsInv)'
    <3>1. Steady /\ LoadsInv /\ AnsweredInv /\ HeldInv /\ MutationsInv
      BY <1>1, <2>4 DEF Steady, DashInv
    <3>2. /\ \A f \in Effects : Busy(f)' <=> Busy(f)
          /\ \A f \in Loads : sent'[f] = sent[f]
          /\ \A f \in Effects : sent'[f].at = "served" => f # e /\ sent'[f] = sent[f]
          /\ \A f \in Effects : sent[f].at = "served" => sent'[f] = sent[f]
          /\ \A f \in Effects : sent'[f].id = sent[f].id
      BY <1>0, <1>1, <2>2 DEF Busy, Effects, Loads, Mutations
    <3>3. \A f \in Effects : \A c : ServedOn(f, c)' <=> ServedOn(f, c)
      BY <3>2 DEF ServedOn
    <3>4. /\ RowsLoad' = RowsLoad /\ OwnLoads' = OwnLoads /\ ShownBookings' = ShownBookings
          /\ RowsLoad \in Loads /\ OwnLoads \subseteq Loads
      BY <1>1 DEF RowsLoad, OwnLoads, ShownBookings, Loads
    <3>5. \A r : (Decided(r) => Decided(r)') /\ (Right(r) => Right(r)')
      BY <1>1, <1>2 DEF Decided, Right, Row, CanReview, Eligible
    <3>6. LoadsInv'
      BY <1>1, <3>1, <3>2, <3>4 DEF LoadsInv, Effects, Loads
    <3>7. AnsweredInv'
      BY <1>2, <3>1, <3>2, <3>4, <3>5 DEF AnsweredInv, IdsOf
    <3>8. HeldInv'
      BY <1>1, <1>2, <3>1, <3>2, <3>3, <3>4, <3>5 DEF HeldInv, IdsOf, Effects
    <3>9. MutationsInv'
      <4>1. Mutations \subseteq Effects /\ {"accept", "reject", "setPaid"} \subseteq Mutations
        BY DEF Effects, Mutations
      <4>2. \A f \in Mutations : (Busy(f) => sent[f].id \in ShownBookings /\ (page = "passenger" <=> f = "cancel"))'
        BY <1>1, <3>1, <3>2, <3>4, <4>1 DEF MutationsInv
      <4>3. \A f \in Mutations : sent'[f].at = "served" =>
              /\ status'[sent'[f].id] # "PENDING"
              /\ \E y \in BookingRows :
                   /\ sent'[f].rows = {y} /\ y.id = sent'[f].id /\ y.status # "PENDING" /\ ~y.canReview
                   /\ y.id \in behind' \/ Right(y)'
        BY <1>2, <3>1, <3>2, <3>5, <4>1 DEF MutationsInv
      <4>4. (\A r \in held : ServedOn("accept", r.id) \/ ServedOn("reject", r.id) => r.status = "PENDING")'
        BY <1>1, <3>1, <3>3, <4>1 DEF MutationsInv
      <4>5. (Busy("setPaid") =>
               /\ status[sent["setPaid"].id] # "PENDING"
               /\ ~ServedOn("accept", sent["setPaid"].id) /\ ~ServedOn("reject", sent["setPaid"].id))'
        BY <1>2, <3>1, <3>2, <4>1 DEF MutationsInv, ServedOn
      <4>6. \A f, g \in Mutations :
              sent'[f].at = "served" /\ sent'[g].at = "served" /\ sent'[f].id = sent'[g].id => f = g
        BY <3>1, <3>2, <4>1 DEF MutationsInv
      <4> QED
        BY <4>2, <4>3, <4>4, <4>5, <4>6 DEF MutationsInv
    <3> QED
      BY <3>6, <3>7, <3>8, <3>9
  <2> QED
    BY <2>3, <2>4 DEF DashInv
<1>3. ASSUME status[b] \in Requires(e), status' = [status EXCEPT ![b] = Leaves(e)],
             paid' = IF e = "setPaid" THEN [paid EXCEPT ![b] = ~@] ELSE paid,
             Answer(e, {[id |-> b, status |-> status'[b], paid |-> paid'[b], canReview |-> FALSE]}),
             behind' = behind \ {b}
      PROVE  DashInv'
  <2>0. Mutations \subseteq Effects /\ {"accept", "reject", "setPaid"} \subseteq Mutations
    BY DEF Effects, Mutations
  <2>1. Leaves(e) \in Decisions \ {"PENDING"}
    BY <1>1 DEF Leaves, Decisions, Mutations
  <2>2. /\ status' \in [Bookings -> Decisions] /\ paid' \in [Bookings -> BOOLEAN]
        /\ \A c \in Bookings : c # b => status'[c] = status[c] /\ paid'[c] = paid[c]
        /\ status'[b] = Leaves(e)
    BY <1>1, <1>3, <2>1 DEF DashInv, DashTypeOK
  <2>3. status'[b] # "PENDING" /\ \A c \in Bookings : status[c] # "PENDING" => status'[c] # "PENDING"
    BY <2>1, <2>2
  <2>4. PICK x : x = [id |-> b, status |-> status'[b], paid |-> paid'[b], canReview |-> FALSE]
    OBVIOUS
  <2>5. /\ x \in BookingRows
        /\ x.id = b /\ x.status = status'[b] /\ x.paid = paid'[b] /\ x.canReview = FALSE
    BY <1>1, <2>2, <2>4 DEF BookingRows
  <2>6. x = Row(b, FALSE)'
    BY <2>4 DEF Row
  <2>7. sent'[e].at = "served" /\ sent'[e].id = b /\ sent'[e].rows = {x}
        /\ \A f \in Effects \ {e} : sent'[f] = sent[f]
    <3> DEFINE new == [[sent[e] EXCEPT !.at = "served"] EXCEPT !.rows = {x}]
    <3>1. new.at = "served" /\ new.id = b /\ new.rows = {x}
      BY <1>0, <1>1 DEF Asked
    <3>2. sent' = [sent EXCEPT ![e] = new]
      BY <1>1, <1>3, <2>4 DEF Answer
    <3> HIDE DEF new
    <3> QED
      BY <1>1, <3>1, <3>2
  <2>8. sent' \in [Effects -> Asked]
    BY <1>3, <2>4, <2>5, AnswerMoves DEF DashInv
  <2>9. DashTypeOK'
    BY <1>1, <2>0, <2>2, <2>7, <2>8 DEF DashInv, DashTypeOK
  <2>10. PendingIsUnderWay'
    BY <1>1, <2>0, <2>7 DEF DashInv, PendingIsUnderWay, Busy
  <2>11. ASSUME Steady' PROVE (LoadsInv /\ AnsweredInv /\ HeldInv /\ MutationsInv)'
    <3>1. Steady /\ LoadsInv /\ HeldInv /\ MutationsInv
      BY <1>1, <2>11 DEF Steady, DashInv
    <3>2. /\ \A f \in Effects : Busy(f)' <=> Busy(f)
          /\ \A f \in Loads : sent'[f] = sent[f]
      BY <1>1, <2>7 DEF Busy, Effects, Loads, Mutations
    <3>3. \A l \in Loads : ~Busy(l) /\ ~Busy(l)'
      BY <1>1, <3>1, <3>2 DEF LoadsInv, Busy, Effects
    <3>4. /\ RowsLoad' = RowsLoad /\ OwnLoads' = OwnLoads /\ ShownBookings' = ShownBookings
          /\ RowsLoad \in Loads /\ OwnLoads \subseteq Loads
      BY <1>1 DEF RowsLoad, OwnLoads, ShownBookings, Loads
    <3>5. \A r \in BookingRows : (Decided(r) => Decided(r)') /\ (r.id # b /\ Right(r) => Right(r)')
      BY <1>1, <2>2, <2>3 DEF Decided, Right, Row, CanReview, Eligible, BookingRows
    <3>6. Right(x)'
      <4>1. page = "passenger" => e = "cancel"
        BY <1>1, <3>1 DEF MutationsInv, Busy
      <4>2. ~(page = "passenger" /\ CanReview(b))'
        BY <1>1, <2>2, <4>1 DEF CanReview, Eligible, Leaves
      <4>3. (page = "passenger" /\ CanReview(b))' = FALSE
        BY <4>2
      <4>4. x = Row(b, (page = "passenger" /\ CanReview(b)))'
        BY <2>6, <4>3
      <4> QED
        BY <2>5, <4>4 DEF Right
    <3>7. LoadsInv'
      BY <1>1, <3>1, <3>3, <3>4 DEF LoadsInv, Loads
    <3>8. AnsweredInv'
      BY <3>3, <3>4 DEF AnsweredInv, Busy
    <3>9. HeldInv'
      <4>1. held \subseteq BookingRows
        BY DEF DashInv, DashTypeOK
      <4>2. ServedOn(e, b)' /\ \A f \in Effects : \A c : ServedOn(f, c) => ServedOn(f, c)'
        BY <1>0, <1>1, <2>7 DEF ServedOn
      <4> QED
        BY <1>1, <1>3, <2>0, <3>1, <3>3, <3>4, <3>5, <4>1, <4>2 DEF HeldInv, IdsOf, Effects
    <3>10. MutationsInv'
      <4>1. \A f \in Mutations : Busy(f) => sent[f].id \in Bookings
        BY DEF DashInv, DashTypeOK, Busy
      \* No answer about the same booking is on its way.
      <4>2. ASSUME NEW f \in Mutations, sent[f].at = "served" PROVE sent[f].id # b
        <5>1. status[sent[f].id] # "PENDING" /\ Busy(f) /\ Busy(e)
          BY <1>1, <3>1, <4>2 DEF MutationsInv, Busy
        <5>2. CASE e \in {"accept", "reject"}
          BY <1>3, <5>1, <5>2 DEF Requires
        <5>3. CASE e = "setPaid"
          BY <1>0, <1>1, <3>1, <4>2, <5>1, <5>3 DEF MutationsInv, ServedOn, Mutations
        <5>4. CASE e = "cancel"
          BY <1>1, <3>1, <4>2, <5>1, <5>4 DEF MutationsInv
        <5> QED
          BY <1>1, <5>2, <5>3, <5>4 DEF Mutations
      <4>3. \A f \in Mutations : (Busy(f) => sent[f].id \in ShownBookings /\ (page = "passenger" <=> f = "cancel"))'
        <5>1. \A f \in Mutations : sent'[f].id = sent[f].id
          BY <1>0, <2>0, <2>7
        <5> QED
          BY <1>1, <2>0, <3>1, <3>2, <3>4, <5>1 DEF MutationsInv
      <4>4. ASSUME NEW f \in Mutations, sent'[f].at = "served"
            PROVE  /\ status'[sent'[f].id] # "PENDING"
                   /\ \E y \in BookingRows :
                        /\ sent'[f].rows = {y} /\ y.id = sent'[f].id /\ y.status # "PENDING" /\ ~y.canReview
                        /\ y.id \in behind' \/ Right(y)'
        <5>1. CASE f = e
          BY <2>3, <2>5, <2>7, <3>6, <5>1
        <5>2. CASE f # e
          <6>1. sent'[f] = sent[f] /\ sent[f].id # b /\ sent[f].id \in Bookings
            BY <2>0, <2>7, <4>1, <4>2, <4>4, <5>2 DEF Busy
          <6>2. PICK y \in BookingRows :
                  /\ sent[f].rows = {y} /\ y.id = sent[f].id /\ y.status # "PENDING" /\ ~y.canReview
                  /\ y.id \in behind \/ Right(y)
            BY <3>1, <4>4, <6>1 DEF MutationsInv
          <6>3. y.id \in behind' \/ Right(y)'
            BY <1>3, <3>5, <6>1, <6>2
          <6>4. status'[sent'[f].id] # "PENDING"
            BY <2>3, <3>1, <4>4, <6>1 DEF MutationsInv
          <6> QED
            BY <6>1, <6>2, <6>3, <6>4
        <5> QED
          BY <5>1, <5>2
      <4>5. (\A r \in held : ServedOn("accept", r.id) \/ ServedOn("reject", r.id) => r.status = "PENDING")'
        <5>1. ASSUME NEW r \in held, e \in {"accept", "reject"}, r.id = b PROVE r.status = "PENDING"
          BY <1>3, <3>1, <3>3, <3>4, <5>1 DEF HeldInv, Decided, Requires
        <5>2. \A f \in {"accept", "reject"} : \A c : ServedOn(f, c)' => ServedOn(f, c) \/ (f = e /\ c = b)
          BY <2>0, <2>7 DEF ServedOn
        <5> QED
          BY <1>1, <3>1, <5>1, <5>2 DEF MutationsInv
      <4>6. (Busy("setPaid") =>
               /\ status[sent["setPaid"].id] # "PENDING"
               /\ ~ServedOn("accept", sent["setPaid"].id) /\ ~ServedOn("reject", sent["setPaid"].id))'
        <5> SUFFICES ASSUME Busy("setPaid")'
                     PROVE  (/\ status[sent["setPaid"].id] # "PENDING"
                             /\ ~ServedOn("accept", sent["setPaid"].id)
                             /\ ~ServedOn("reject", sent["setPaid"].id))'
          OBVIOUS
        <5>1. /\ Busy("setPaid") /\ sent'["setPaid"].id = sent["setPaid"].id
              /\ sent["setPaid"].id \in Bookings
          BY <1>0, <2>0, <2>7, <3>2, <4>1
        <5>2. /\ status[sent["setPaid"].id] # "PENDING"
              /\ ~ServedOn("accept", sent["setPaid"].id) /\ ~ServedOn("reject", sent["setPaid"].id)
          BY <3>1, <5>1 DEF MutationsInv
        <5>3. ASSUME NEW f \in {"accept", "reject"} PROVE ~ServedOn(f, sent["setPaid"].id)'
          <6>1. CASE f = e
            BY <1>3, <2>7, <5>1, <5>2, <6>1 DEF Requires, ServedOn
          <6>2. CASE f # e
            BY <2>0, <2>7, <5>1, <5>2, <6>2 DEF ServedOn
          <6> QED
            BY <6>1, <6>2
        <5> QED
          BY <2>3, <5>1, <5>2, <5>3
      <4>7. \A f, g \in Mutations :
              sent'[f].at = "served" /\ sent'[g].at = "served" /\ sent'[f].id = sent'[g].id => f = g
        BY <2>0, <2>7, <3>1, <4>2 DEF MutationsInv
      <4> QED
        BY <4>3, <4>4, <4>5, <4>6, <4>7 DEF MutationsInv
    <3> QED
      BY <3>7, <3>8, <3>9, <3>10
  <2> QED
    BY <2>9, <2>10, <2>11 DEF DashInv
<1> QED
  BY <1>0, <1>1, <1>2, <1>3 DEF ServeMutation

\* A request of a button ends, and with it what was held against its booking.
LEMMA EndsKeeps ==
  ASSUME Steady, DashTypeOK, LoadsInv, MutationsInv, NEW e \in Mutations, sent' = Ended(e),
         UNCHANGED <<status, paid, reviewed, page, disturbed>>, behind \subseteq behind',
         \A r \in held' : r \in held \/ \A f \in Mutations \ {e} : ~ServedOn(f, r.id)
  PROVE  /\ MutationsInv'
         /\ \A f \in Effects : sent'[f] = IF f = e THEN NoRequest ELSE sent[f]
         /\ \A f \in Effects : Busy(f)' => Busy(f)
<1>0. Mutations \subseteq Effects /\ {"accept", "reject", "setPaid"} \subseteq Mutations
  BY DEF Effects, Mutations
<1>1. /\ \A f \in Effects : sent'[f] = IF f = e THEN NoRequest ELSE sent[f]
      /\ \A f \in Effects : Busy(f)' => Busy(f) /\ f # e
  <2>1. \A f \in Effects : sent'[f] = IF f = e THEN NoRequest ELSE sent[f]
    BY <1>0, EndedMoves
  <2> QED
    BY <2>1 DEF NoRequest, Busy
<1>2. \A f \in Effects : \A c : ServedOn(f, c)' => f # e /\ ServedOn(f, c)
  BY <1>1 DEF ServedOn, NoRequest
<1>3. \A f \in Mutations : (Busy(f) => sent[f].id \in ShownBookings /\ (page = "passenger" <=> f = "cancel"))'
  BY <1>0, <1>1 DEF MutationsInv, ShownBookings
<1>4. \A r : Right(r) => Right(r)'
  BY DEF Right, Row, CanReview, Eligible
<1>5. \A f \in Mutations : sent'[f].at = "served" =>
        /\ status'[sent'[f].id] # "PENDING"
        /\ \E y \in BookingRows :
             /\ sent'[f].rows = {y} /\ y.id = sent'[f].id /\ y.status # "PENDING" /\ ~y.canReview
             /\ y.id \in behind' \/ Right(y)'
  <2> SUFFICES ASSUME NEW f \in Mutations, sent'[f].at = "served"
               PROVE  /\ status'[sent'[f].id] # "PENDING"
                      /\ \E y \in BookingRows :
                           /\ sent'[f].rows = {y} /\ y.id = sent'[f].id /\ y.status # "PENDING"
                           /\ ~y.canReview /\ (y.id \in behind' \/ Right(y)')
    OBVIOUS
  <2>1. sent'[f] = sent[f]
    BY <1>0, <1>1 DEF NoRequest
  <2> QED
    BY <1>4, <2>1 DEF MutationsInv
<1>6. (\A r \in held : ServedOn("accept", r.id) \/ ServedOn("reject", r.id) => r.status = "PENDING")'
  BY <1>0, <1>2 DEF MutationsInv
<1>7. (Busy("setPaid") =>
         /\ status[sent["setPaid"].id] # "PENDING"
         /\ ~ServedOn("accept", sent["setPaid"].id) /\ ~ServedOn("reject", sent["setPaid"].id))'
  <2> SUFFICES ASSUME Busy("setPaid")'
               PROVE  (/\ status[sent["setPaid"].id] # "PENDING"
                       /\ ~ServedOn("accept", sent["setPaid"].id)
                       /\ ~ServedOn("reject", sent["setPaid"].id))'
    OBVIOUS
  <2>1. Busy("setPaid") /\ sent'["setPaid"] = sent["setPaid"]
    BY <1>0, <1>1
  <2>2. \A f \in {"accept", "reject"} : ServedOn(f, sent["setPaid"].id)' => ServedOn(f, sent["setPaid"].id)
    BY <1>0, <1>1, <2>1 DEF ServedOn, NoRequest
  <2> QED
    BY <2>1, <2>2 DEF MutationsInv
<1>8. \A f, g \in Mutations :
        sent'[f].at = "served" /\ sent'[g].at = "served" /\ sent'[f].id = sent'[g].id => f = g
  BY <1>0, <1>1 DEF MutationsInv, NoRequest
<1> QED
  BY <1>1, <1>3, <1>5, <1>6, <1>7, <1>8 DEF MutationsInv

LEMMA MutationEndKeeps ==
  ASSUME DashInv, NEW e \in Effects, MutationArrives(e) \/ MutationFails(e)
  PROVE  DashInv'
<1>0. e \in Mutations /\ Busy(e) /\ Mutations \subseteq Effects
  BY DEF MutationArrives, MutationFails, Busy, Effects
<1>1. /\ sent' = Ended(e) /\ pendingId' = NoBooking /\ behind \subseteq behind'
      /\ UNCHANGED <<status, paid, reviewed, page, disturbed>>
      /\ flags' \in {flags, [flags EXCEPT !.error = TRUE]}
  BY DEF MutationArrives, MutationFails, bookVars, auxVars
<1>2. sent[e].rows \in SUBSET BookingRows
  BY DEF DashInv, DashTypeOK, Asked
<1>3. DashTypeOK' /\ flags'.loading = flags.loading /\ flags'.loaded = flags.loaded
      /\ flags'.tripsLoading = flags.tripsLoading /\ flags'.tripsLoaded = flags.tripsLoaded
  <2>1. /\ sent' \in [Effects -> Asked]
        /\ \A f \in Effects : sent'[f] = IF f = e THEN NoRequest ELSE sent[f]
    BY <1>1, EndedMoves DEF DashInv
  <2>2. held' \subseteq BookingRows
    BY <1>2 DEF MutationArrives, MutationFails, Upsert, DashInv, DashTypeOK
  <2>3. \A f \in Mutations : sent'[f].at # "idle" => sent'[f].id \in Bookings
    BY <1>0, <2>1 DEF DashInv, DashTypeOK, NoRequest
  <2> QED
    BY <1>1, <2>1, <2>2, <2>3 DEF DashInv, DashTypeOK
<1>4. PendingIsUnderWay'
  BY <1>1 DEF PendingIsUnderWay
<1>5. ASSUME Steady' PROVE (LoadsInv /\ AnsweredInv /\ HeldInv /\ MutationsInv)'
  <2>1. Steady /\ DashTypeOK /\ LoadsInv /\ HeldInv /\ MutationsInv
    BY <1>1, <1>5 DEF Steady, DashInv
  <2>2. \A l \in Loads : ~Busy(l)
    BY <1>0, <2>1 DEF LoadsInv
  <2>3. /\ RowsLoad' = RowsLoad /\ OwnLoads' = OwnLoads /\ ShownBookings' = ShownBookings
        /\ RowsLoad \in Loads /\ OwnLoads \subseteq Loads
    BY <1>1 DEF RowsLoad, OwnLoads, ShownBookings, Loads
  <2>4. \A r : (Decided(r) => Decided(r)') /\ (Right(r) => Right(r)')
    BY <1>1 DEF Decided, Right, Row, CanReview, Eligible
  <2>5. ASSUME page = "driver" => trips' = trips,
               \A l \in Loads : ~Busy(l)'
        PROVE  LoadsInv' /\ AnsweredInv'
    <3>1. LoadsInv'
      BY <1>1, <1>3, <2>1, <2>2, <2>3, <2>5 DEF LoadsInv, Loads
    <3>2. AnsweredInv'
      BY <2>3, <2>5 DEF AnsweredInv, Busy
    <3> QED
      BY <3>1, <3>2
  <2>6. CASE MutationFails(e)
    <3>1. held' = held /\ trips' = trips
          /\ behind' = IF sent[e].at = "sent" THEN behind ELSE behind \cup {sent[e].id}
      BY <2>6 DEF MutationFails
    <3>2. /\ MutationsInv'
          /\ \A f \in Effects : sent'[f] = IF f = e THEN NoRequest ELSE sent[f]
          /\ \A f \in Effects : Busy(f)' => Busy(f)
      BY <1>0, <1>1, <2>1, <3>1, EndsKeeps
    <3>3. \A l \in Loads : ~Busy(l)'
      BY <2>2, <3>2 DEF Effects
    <3>4. \A f \in Effects : \A c : ServedOn(f, c) => ServedOn(f, c)' \/ c \in behind'
      BY <3>1, <3>2 DEF ServedOn
    <3>5. HeldInv'
      BY <1>0, <1>1, <2>1, <2>2, <2>3, <2>4, <3>1, <3>4 DEF HeldInv, IdsOf, Effects
    <3> QED
      BY <2>5, <3>1, <3>2, <3>3, <3>5
  <2>7. CASE MutationArrives(e)
    <3>1. sent[e].at = "served" /\ held' = Upsert(sent[e].rows) /\ behind' = behind
          /\ trips' = trips \cup TripsOf(sent[e].rows)
      BY <2>7 DEF MutationArrives, auxVars
    <3>2. PICK x \in BookingRows :
            /\ sent[e].rows = {x} /\ x.id = sent[e].id /\ x.status # "PENDING"
            /\ x.id \in behind \/ Right(x)
      BY <1>0, <2>1, <3>1 DEF MutationsInv
    <3>3. /\ x.id \in ShownBookings /\ Decided(x)
          /\ \A f \in Mutations \ {e} : ~ServedOn(f, x.id)
      BY <1>0, <2>1, <3>1, <3>2 DEF MutationsInv, Decided, ServedOn
    <3>4. held' = {r \in held : x.id # r.id} \cup {x}
      BY <3>1, <3>2 DEF Upsert
    <3>5. /\ MutationsInv'
          /\ \A f \in Effects : sent'[f] = IF f = e THEN NoRequest ELSE sent[f]
          /\ \A f \in Effects : Busy(f)' => Busy(f)
      BY <1>0, <1>1, <2>1, <3>3, <3>4, EndsKeeps
    <3>6. \A l \in Loads : ~Busy(l)'
      BY <2>2, <3>5 DEF Effects
    <3>7. page = "driver" => trips' = trips
      <4> SUFFICES ASSUME page = "driver" PROVE trips' = trips
        OBVIOUS
      <4>1. trips = Driven
        BY <2>1, <2>2 DEF LoadsInv, Loads
      <4>2. TripsOf(sent[e].rows) \subseteq Driven
        BY <3>2, <3>3, DashboardAssumption DEF TripsOf, ShownBookings, Bookings
      <4> QED
        BY <3>1, <4>1, <4>2
    <3>8. \A f \in Effects : \A c : ServedOn(f, c) => ServedOn(f, c)' \/ c = x.id
      BY <3>2, <3>5 DEF ServedOn
    <3>9. IdsOf(held) = ShownBookings /\ IdsOf(held') = ShownBookings
      <4>1. IdsOf(held) = ShownBookings
        BY <2>1, <2>2, <2>3 DEF HeldInv
      <4> QED
        BY <3>3, <3>4, <4>1 DEF IdsOf
    <3>10. HeldInv'
      <4>1. ASSUME NEW r \in held'
            PROVE  Decided(r)' /\ (r.id \in behind' \/ Right(r)' \/ \E f \in Mutations \cup {"review"} : ServedOn(f, r.id)')
        <5>1. CASE r = x
          BY <2>4, <3>1, <3>2, <3>3, <5>1
        <5>2. CASE r \in held /\ r.id # x.id
          BY <2>1, <2>2, <2>3, <2>4, <3>1, <3>8, <5>2 DEF HeldInv, Effects
        <5> QED
          BY <3>4, <5>1, <5>2
      <4> QED
        BY <2>3, <3>9, <4>1 DEF HeldInv, IdsOf
    <3> QED
      BY <2>5, <3>5, <3>6, <3>7, <3>10
  <2> QED
    BY <2>6, <2>7
<1> QED
  BY <1>3, <1>4, <1>5 DEF DashInv

LEMMA DashInvStep == DashInv /\ [DashNext]_dashVars => DashInv'
<1> SUFFICES ASSUME DashInv, [DashNext]_dashVars PROVE DashInv'
  OBVIOUS
<1>1. CASE UNCHANGED dashVars
  BY <1>1 DEF dashVars, bookVars, storeVars, auxVars, DashInv, DashTypeOK, PendingIsUnderWay, Steady,
              LoadsInv, AnsweredInv, HeldInv, MutationsInv, Busy, ServedOn, Right, Decided, Row,
              CanReview, Eligible, RowsLoad, OwnLoads, ShownBookings, IdsOf
<1>2. CASE OpenPassenger \/ OpenDriver \/ ReviewArrives
  BY <1>2, OpeningKeeps
<1>3. CASE SubmitReview \/ ServeReview \/ ReviewFails
  BY <1>3, ReviewKeeps
<1>4. CASE TripsArrive
  BY <1>4, TripsArriveKeeps
<1>5. ASSUME NEW e \in Effects, PressButton(e) \/ ServeLoad(e) \/ BookingsArrive(e) \/ LoadFails(e)
      PROVE  DashInv'
  BY <1>5, PressKeeps, ServeLoadKeeps, BookingsArriveKeeps, LoadFailsKeeps
<1>6. ASSUME NEW e \in Effects, ServeMutation(e) \/ MutationArrives(e) \/ MutationFails(e)
      PROVE  DashInv'
  BY <1>6, ServeMutationKeeps, MutationEndKeeps
<1>7. ASSUME NEW b \in Bookings, NEW to \in {"CONFIRMED", "REJECTED", "CANCELLED"}, OthersDecide(b, to)
      PROVE  DashInv'
  BY <1>7, OthersKeep
<1> QED
  BY <1>1, <1>2, <1>3, <1>4, <1>5, <1>6, <1>7 DEF DashNext

THEOREM DashInvAlways == DashSpec => []DashInv
<1> QED
  BY DashInvInit, DashInvStep, PTL DEF DashSpec

\* Of any number of bookings, visits and clicks: at rest a dashboard shows the
\* bookings it is for, as the server has them, and the driver's his trips.
THEOREM DashboardIsAlwaysRight == DashSpec => []DashboardIsRight
<1>1. DashInv => DashboardIsRight
  <2> SUFFICES ASSUME DashInv, Quiet, page # "none", ~disturbed
               PROVE  /\ ~PageLoading
                      /\ {r.id : r \in held} = ShownBookings
                      /\ \A r \in held : r.id \notin behind => r = Row(r.id, page = "passenger" /\ CanReview(r.id))
                      /\ page = "driver" => trips = Driven
    BY DEF DashboardIsRight
  <2>1. LoadsInv /\ HeldInv
    BY DEF DashInv, Steady
  <2>2. (\A e \in Effects : ~Busy(e)) /\ ~Busy(RowsLoad) /\ ~Busy("loadTrips")
    BY DEF Quiet, RowsLoad, Effects, Loads
  <2>3. ~PageLoading /\ (page = "driver" => trips = Driven)
    BY <2>1, <2>2 DEF LoadsInv, PageLoading
  <2>4. \A e \in Mutations \cup {"review"} : \A b : ~ServedOn(e, b)
    BY <2>2 DEF ServedOn, Busy, Effects
  <2> QED
    BY <2>1, <2>2, <2>3, <2>4 DEF HeldInv, IdsOf, Right
<1> QED
  BY <1>1, DashInvAlways, PTL

\* A row whose buttons are off always waits for a request.
THEOREM PendingIsAlwaysUnderWay == DashSpec => []PendingIsUnderWay
<1>1. DashInv => PendingIsUnderWay
  BY DEF DashInv
<1> QED
  BY <1>1, DashInvAlways, PTL

-----------------------------------------------------------------------------
(* The list of rides: the invariant *)

\* Trips that have no more confirmed seats than they offer.
Counted(s, S) == S \subseteq Lifts /\ \A t \in S : s[t] \in 0..LiftInfo[t].seats

FetchTyped(r) ==
  /\ DOMAIN r = {"at", "wish", "page", "cut", "seats", "answer"}
  /\ r.page \subseteq Lifts
  /\ r.at = "seats" => Counted(r.seats, r.page)

\* The part of Passes that is about seats.
SeatsPass(t, w, n) ==
  /\ Wants(w.maxPrice, FareAt[t][n] <= w.maxPrice)
  /\ Wants(w.seatsMin, SeatsLeft(t, n) >= w.seatsMin)

LiftsIn(list) == {list[i].trip : i \in DOMAIN list}

\* What has been read so far for the request the page waits for has left out no
\* trip that met the filters ever since it was sent.
NothingLost(r) ==
  /\ r.at \in {"sent", "trips", "seats", "served"}
  /\ steady \subseteq MeetsNow(r.wish)
  /\ r.at \in {"trips", "seats"} => r.cut \/ steady \subseteq r.page
  /\ r.at = "seats" => \A t \in steady \cap r.page : SeatsPass(t, r.wish, r.seats[t])
  /\ r.at = "served" => r.cut \/ steady \subseteq LiftsIn(r.answer)

SeatsTyped == DOMAIN taken = Lifts /\ Counted(taken, Lifts)

BrowseInv ==
  /\ SeatsTyped
  /\ DOMAIN fetch = Fetches /\ \A f \in Fetches : FetchTyped(fetch[f])
  /\ listening \in Fetches \cup {NoFetch}
  /\ listening # NoFetch => NothingLost(fetch[listening])
  /\ listening # NoFetch /\ ~pause => fetch[listening].wish = wish
  /\ ListSettled => source \in Fetches /\ fetch[source].at = "shown"
  /\ NothingMissed

\* A page takes in all trips when they are no more than it holds.
LEMMA WholePage ==
  ASSUME NEW S \in SUBSET Lifts, Cardinality(S) <= PageSize
  PROVE  FirstPage(S) = S
<1>1. IsFiniteSet(S)
  BY BrowseAssumption, FS_Subset
<1>2. ASSUME NEW t \in S
      PROVE  Cardinality({u \in S : LiftInfo[u].departure < LiftInfo[t].departure}) < PageSize
  <2> DEFINE earlier == {u \in S : LiftInfo[u].departure < LiftInfo[t].departure}
  <2>1. t \notin earlier
    BY BrowseAssumption
  <2>2. /\ earlier \subseteq S \ {t} /\ IsFiniteSet(S \ {t})
        /\ Cardinality(S) \in Nat /\ Cardinality(S \ {t}) = Cardinality(S) - 1
    BY <1>1, <2>1, FS_RemoveElement, FS_CardinalityType
  <2>3. Cardinality(earlier) <= Cardinality(S \ {t}) /\ Cardinality(earlier) \in Nat
    BY <2>2, FS_Subset, FS_CardinalityType
  <2> QED BY <2>2, <2>3, BrowseAssumption
<1> QED BY <1>2 DEF FirstPage

\* A list in order has the trips it was made of.
LEMMA SortedHasAll ==
  ASSUME NEW w, NEW s, NEW S, NEW o \in Sorted(w, s, S)
  PROVE  {o[i] : i \in DOMAIN o} = S
  BY DEF Sorted, Bijection, Injection, Surjection

LEMMA BrowseInvInit == BrowseInit => BrowseInv
<1> SUFFICES ASSUME BrowseInit PROVE BrowseInv
  OBVIOUS
<1>1. FetchTyped(Unfetched)
  BY DEF FetchTyped, Unfetched
<1>2. DOMAIN fetch = Fetches /\ \A f \in Fetches : FetchTyped(fetch[f])
  BY <1>1 DEF BrowseInit
<1>3. SeatsTyped
  BY BrowseAssumption DEF BrowseInit, SeatsTyped, Counted
<1> QED BY <1>2, <1>3 DEF BrowseInit, BrowseInv, ListSettled, NothingMissed

\* A request the page does not wait for says nothing of it.
LEMMA OneFetch ==
  ASSUME BrowseInv, NEW f \in Fetches, NEW r, fetch' = [fetch EXCEPT ![f] = r],
         FetchTyped(r), f = listening => NothingLost(r) /\ r.wish = fetch[f].wish,
         fetch[f].at # "shown", UNCHANGED <<roadVars, listPageVars, steady>>
  PROVE  BrowseInv'
<1> USE DEF BrowseInv, roadVars, listPageVars
<1>1. DOMAIN fetch' = Fetches /\ \A g \in Fetches : fetch'[g] = IF g = f THEN r ELSE fetch[g]
  OBVIOUS
<1>2. \A w : MeetsNow(w)' = MeetsNow(w)
  BY DEF MeetsNow, Candidates
<1>3. \A g \in Fetches : FetchTyped(fetch[g])'
  BY <1>1 DEF FetchTyped
<1>4. listening # NoFetch =>
        NothingLost(fetch[listening])' /\ fetch'[listening].wish = fetch[listening].wish
  <2>1. CASE listening = f
    BY <1>1, <1>2, <2>1 DEF NothingLost, SeatsPass
  <2>2. CASE listening # f
    BY <1>1, <1>2, <2>2 DEF NothingLost, SeatsPass
  <2> QED BY <2>1, <2>2
<1>5. ListSettled => source # f /\ fetch'[source] = fetch[source]
  BY <1>1 DEF ListSettled
<1>6. NothingMissed' /\ (ListSettled' => source \in Fetches /\ fetch'[source].at = "shown")
  BY <1>5 DEF NothingMissed, ListSettled
<1>7. SeatsTyped'
  BY DEF SeatsTyped, Counted
<1> QED BY <1>1, <1>3, <1>4, <1>6, <1>7

\* loadTripsWithRelations: a page that is not cut has every trip on offer that
\* the query asks for.
LEMMA ReadTripsStep ==
  ASSUME BrowseInv, NEW f \in Fetches, ReadTrips(f)
  PROVE  BrowseInv'
<1> DEFINE w == fetch[f].wish
           first == FirstPage(Candidates(w))
           cut == Cardinality(Candidates(w)) > PageSize
           r == [fetch[f] EXCEPT !.at = "trips", !.page = first, !.cut = cut]
<1>1. /\ fetch[f].at = "sent" /\ FetchTyped(fetch[f])
      /\ UNCHANGED <<roadVars, listPageVars, steady>>
  BY DEF ReadTrips, BrowseInv
<1>2. fetch' = [fetch EXCEPT ![f] = r]
  BY DEF ReadTrips, Finds, BrowseInv
<1>3. Candidates(w) \in SUBSET Lifts /\ first \subseteq Lifts
  BY DEF Candidates, FirstPage
<1>4. ~cut => first = Candidates(w)
  <2>1. Cardinality(Candidates(w)) \in Nat
    BY <1>3, BrowseAssumption, FS_Subset, FS_CardinalityType
  <2> QED BY <1>3, <2>1, WholePage, BrowseAssumption
<1>5. /\ r.at = "trips" /\ r.wish = w /\ r.page = first /\ r.cut = cut /\ FetchTyped(r)
  BY <1>1, <1>3 DEF FetchTyped
<1> HIDE DEF r, cut, first
<1>6. f = listening => NothingLost(r)
  <2>1. f = listening => steady \subseteq MeetsNow(w) /\ MeetsNow(w) \subseteq Candidates(w)
    BY <1>1, BrowseAssumption DEF BrowseInv, NothingLost, MeetsNow
  <2> QED BY <1>4, <1>5, <2>1 DEF NothingLost
<1> QED BY <1>1, <1>2, <1>5, <1>6, OneFetch

\* countConfirmedSeatsFor: who has met the filters all along does so with the
\* seats that are counted.
LEMMA CountSeatsStep ==
  ASSUME BrowseInv, NEW f \in Fetches, CountSeats(f)
  PROVE  BrowseInv'
<1> DEFINE count == [t \in fetch[f].page |-> taken[t]]
           r == [fetch[f] EXCEPT !.at = "seats", !.seats = count]
<1>1. /\ fetch[f].at = "trips" /\ FetchTyped(fetch[f])
      /\ UNCHANGED <<roadVars, listPageVars, steady>>
  BY DEF CountSeats, BrowseInv
<1>2. fetch' = [fetch EXCEPT ![f] = r]
  BY DEF CountSeats, BrowseInv
<1>3. /\ r.at = "seats" /\ r.wish = fetch[f].wish /\ r.page = fetch[f].page
      /\ r.cut = fetch[f].cut /\ r.seats = count /\ FetchTyped(r)
  BY <1>1 DEF FetchTyped, BrowseInv, SeatsTyped, Counted
<1>4. \A t \in fetch[f].page : count[t] = taken[t]
  OBVIOUS
<1> HIDE DEF r, count
<1>5. f = listening => NothingLost(r)
  <2> SUFFICES ASSUME f = listening PROVE NothingLost(r)
    OBVIOUS
  <2>1. NothingLost(fetch[f])
    BY BrowseAssumption DEF BrowseInv
  <2>2. \A t \in steady : SeatsPass(t, fetch[f].wish, taken[t])
    BY <2>1 DEF NothingLost, MeetsNow, Passes, SeatsPass
  <2> QED BY <1>1, <1>3, <1>4, <2>1, <2>2 DEF NothingLost
<1> QED BY <1>1, <1>2, <1>3, <1>5, OneFetch

\* aggregateByDriverIds and the rest of hydrateTrips: the seats of the trip are
\* those counted, its first stop and its driver's rating those of now.
LEMMA RateDriversStep ==
  ASSUME BrowseInv, NEW f \in Fetches, RateDrivers(f)
  PROVE  BrowseInv'
<1> DEFINE s == fetch[f].seats
           w == fetch[f].wish
           grade(t) == rating[LiftInfo[t].driver]
           passing == {t \in fetch[f].page : Passes(t, w, s[t], grade(t))}
<1>1. /\ fetch[f].at = "seats" /\ FetchTyped(fetch[f])
      /\ UNCHANGED <<roadVars, listPageVars, steady>>
  BY DEF RateDrivers, BrowseInv
<1>2. PICK o \in Sorted(w, s, passing) :
        fetch' = [fetch EXCEPT ![f] =
          [Unfetched EXCEPT !.at = "served", !.wish = w, !.cut = fetch[f].cut,
             !.answer = [i \in DOMAIN o |-> Card(o[i], s[o[i]], grade(o[i]))]]]
  BY DEF RateDrivers
<1> DEFINE list == [i \in DOMAIN o |-> Card(o[i], s[o[i]], grade(o[i]))]
           r == [Unfetched EXCEPT !.at = "served", !.wish = w, !.cut = fetch[f].cut, !.answer = list]
<1>3. /\ r.at = "served" /\ r.wish = w /\ r.cut = fetch[f].cut /\ r.answer = list /\ FetchTyped(r)
  BY DEF FetchTyped, Unfetched
<1>4. LiftsIn(list) = passing
  <2>1. DOMAIN list = DOMAIN o /\ \A i \in DOMAIN o : list[i].trip = o[i]
    BY DEF Card
  <2>2. {o[i] : i \in DOMAIN o} = passing
    BY SortedHasAll
  <2> HIDE DEF list, passing
  <2> QED BY <2>1, <2>2 DEF LiftsIn
<1>5. fetch' = [fetch EXCEPT ![f] = r]
  BY <1>2
<1>6. f = listening => NothingLost(r)
  <2> SUFFICES ASSUME f = listening PROVE NothingLost(r)
    OBVIOUS
  <2>1. NothingLost(fetch[f])
    BY BrowseAssumption DEF BrowseInv
  <2>2. \A t \in steady \cap fetch[f].page : t \in passing
    BY <1>1, <2>1 DEF NothingLost, MeetsNow, Passes, SeatsPass
  <2> HIDE DEF passing, list, r
  <2> QED BY <1>1, <1>3, <1>4, <2>1, <2>2 DEF NothingLost
<1> HIDE DEF r, list, passing
<1> QED BY <1>1, <1>3, <1>5, <1>6, OneFetch

\* Trips, bookings and reviews change: what no longer meets the filters has not
\* met them ever since.
LEMMA ShiftStep ==
  ASSUME BrowseInv, Shift, SeatsTyped'
  PROVE  BrowseInv'
<1> USE DEF BrowseInv, Shift, listPageVars
<1>1. steady' \subseteq steady /\ (listening = NoFetch => steady' = steady)
  OBVIOUS
<1>2. listening # NoFetch => NothingLost(fetch[listening])'
  <2> SUFFICES ASSUME listening # NoFetch PROVE NothingLost(fetch[listening])'
    OBVIOUS
  <2>1. steady' \subseteq MeetsNow(fetch[listening].wish)'
    OBVIOUS
  <2> QED BY <1>1, <2>1 DEF NothingLost, SeatsPass
<1>3. DOMAIN fetch' = Fetches /\ \A f \in Fetches : FetchTyped(fetch[f])'
  BY DEF FetchTyped
<1> QED BY <1>1, <1>2, <1>3 DEF ListSettled, NothingMissed

LEMMA SetFiltersStep ==
  ASSUME BrowseInv, NEW w, SetFilters(w)
  PROVE  BrowseInv'
<1> USE DEF BrowseInv, SetFilters, roadVars
<1>1. listening # NoFetch => NothingLost(fetch[listening])'
  BY DEF NothingLost, SeatsPass, MeetsNow, Candidates
<1>2. DOMAIN fetch' = Fetches /\ \A f \in Fetches : FetchTyped(fetch[f])'
  BY DEF FetchTyped
<1>3. SeatsTyped'
  BY DEF SeatsTyped, Counted
<1> QED BY <1>1, <1>2, <1>3 DEF ListSettled, NothingMissed

\* A request that is sent takes note of all that meets the filters.
LEMMA FiltersSettleStep ==
  ASSUME BrowseInv, NEW f \in Fetches, FiltersSettle(f)
  PROVE  BrowseInv'
<1> USE DEF BrowseInv, FiltersSettle, roadVars
<1> DEFINE r == [Unfetched EXCEPT !.at = "sent", !.wish = wish]
<1>1. fetch' = [fetch EXCEPT ![f] = r]
  BY DEF SendList
<1>2. r.at = "sent" /\ r.wish = wish /\ FetchTyped(r)
  BY DEF FetchTyped, Unfetched
<1> HIDE DEF r
<1>3. DOMAIN fetch' = Fetches /\ fetch'[f] = r /\ \A g \in Fetches : FetchTyped(fetch[g])'
  BY <1>1, <1>2 DEF FetchTyped
<1>4. MeetsNow(wish)' = MeetsNow(wish)
  BY DEF MeetsNow, Candidates
<1>5. NothingLost(fetch[f])'
  BY <1>2, <1>3, <1>4 DEF NothingLost
<1>6. SeatsTyped'
  BY DEF SeatsTyped, Counted
<1> QED BY <1>2, <1>3, <1>5, <1>6, BrowseAssumption DEF ListSettled, NothingMissed

\* The answer comes, or the request fails and the list is empty.
LEMMA AnswerStep ==
  ASSUME BrowseInv, NEW f \in Fetches, ListArrives(f) \/ ListFails(f)
  PROVE  BrowseInv'
<1> USE DEF BrowseInv, roadVars
<1>1. /\ listening = f /\ listening' = NoFetch /\ f # NoFetch
      /\ UNCHANGED <<roadVars, wish, pause, steady>>
  BY BrowseAssumption DEF ListArrives, ListFails
<1>2. PICK stage \in {"shown", "failed"} :
        /\ fetch' = [fetch EXCEPT ![f].at = stage, ![f].answer = <<>>]
        /\ ListArrives(f) => stage = "shown"
        /\ ListFails(f) /\ ~ListArrives(f) => source' = NoFetch
  BY DEF ListArrives, ListFails, Closes, Shows
<1>3. /\ DOMAIN fetch' = Fetches /\ \A g \in Fetches : FetchTyped(fetch[g])'
      /\ fetch'[f].at = stage /\ fetch'[f].wish = fetch[f].wish /\ fetch'[f].cut = fetch[f].cut
  BY <1>2 DEF FetchTyped
<1>4. SeatsTyped'
  BY <1>1 DEF SeatsTyped, Counted
<1>5. CASE ListArrives(f)
  <2>1. source' = f /\ cards' = fetch[f].answer /\ fetch[f].at = "served"
    BY <1>5 DEF ListArrives, Shows
  <2>2. fetch[f].cut \/ steady \subseteq LiftsIn(cards')
    BY <1>1, <2>1 DEF NothingLost
  <2>3. ~pause => fetch[f].wish = wish
    BY <1>1
  <2> QED BY <1>4, <1>1, <1>2, <1>3, <1>5, <2>1, <2>2, <2>3 DEF ListSettled, NothingMissed, LiftsIn
<1>6. CASE ~ListArrives(f)
  BY <1>4, <1>1, <1>2, <1>3, <1>6 DEF ListSettled, NothingMissed
<1> QED BY <1>5, <1>6

LEMMA BrowseInvStep == BrowseInv /\ [BrowseNext]_browseVars => BrowseInv'
<1> SUFFICES ASSUME BrowseInv, [BrowseNext]_browseVars PROVE BrowseInv'
  OBVIOUS
<1>1. CASE RoadMoves
  <2>1. Shift /\ SeatsTyped'
    BY <1>1 DEF RoadMoves, OfferMoves, SeatsMove, RatingMoves, BrowseInv, SeatsTyped, Counted
  <2> QED BY <2>1, ShiftStep
<1>2. CASE ListServer
  BY <1>2, ReadTripsStep, CountSeatsStep, RateDriversStep DEF ListServer
<1>3. CASE ListPage
  BY <1>3, SetFiltersStep, FiltersSettleStep, AnswerStep DEF ListPage
<1>4. CASE UNCHANGED browseVars
  BY <1>4 DEF browseVars, roadVars, listPageVars, BrowseInv, FetchTyped, NothingLost, SeatsPass,
     MeetsNow, Candidates, ListSettled, NothingMissed, SeatsTyped, Counted
<1> QED BY <1>1, <1>2, <1>3, <1>4 DEF BrowseNext

LEMMA BrowseInvAlways == BrowseSpec => []BrowseInv
  BY BrowseInvInit, BrowseInvStep, PTL DEF BrowseSpec

\* Of any number of trips, requests and changes in between: the list answers the
\* filters as they were set last, and misses no trip that met them all along.
THEOREM NothingIsMissed == BrowseSpec => []NothingMissed
<1>1. BrowseInv => NothingMissed
  BY DEF BrowseInv
<1> QED
  BY <1>1, BrowseInvAlways, PTL

-----------------------------------------------------------------------------
(* The list of rides: there is an order to sort by *)

\* Ratios can be compared by their cross products, through a third one.
LEMMA RatiosAreOrdered ==
  ASSUME NEW a \in Nat, NEW b \in Nat, NEW c \in Nat,
         NEW x \in Nat \ {0}, NEW y \in Nat \ {0}, NEW z \in Nat \ {0},
         a * y >= b * x, b * z >= c * y
  PROVE  /\ a * z >= c * x
         /\ a * z = c * x => a * y = b * x /\ b * z = c * y
<1>1. (a * y) * z >= (b * x) * z /\ (b * z) * x >= (c * y) * x
  OBVIOUS
<1>2. /\ (a * y) * z = y * (a * z) /\ (c * y) * x = y * (c * x)
      /\ (b * x) * z = (b * z) * x
  OBVIOUS
<1>3. y * (a * z) >= y * (c * x) /\ a * z \in Nat /\ c * x \in Nat
  BY <1>1, <1>2
<1>4. a * z >= c * x
  BY <1>3
<1>5. ASSUME a * z = c * x PROVE a * y = b * x /\ b * z = c * y
  <2>1. (a * y) * z = (b * x) * z /\ (b * z) * x = (c * y) * x
    BY <1>1, <1>2, <1>5
  <2> QED BY <2>1
<1> QED BY <1>4, <1>5

\* Each of the three orders is one: no two trips tie.
LEMMA BeforeIsOrder ==
  ASSUME NEW w, NEW s, NEW S, Counted(s, S), NEW t \in S, NEW u \in S, NEW v \in S
  PROVE  /\ ~Before(w, s, t, t)
         /\ t # u => Before(w, s, t, u) \/ Before(w, s, u, t)
         /\ Before(w, s, t, u) /\ Before(w, s, u, v) => Before(w, s, t, v)
<1> DEFINE dep(x) == LiftInfo[x].departure
           cap(x) == LiftInfo[x].seats
           fare(x) == FareAt[x][s[x]]
<1>1. \A x \in S : dep(x) \in Nat /\ cap(x) \in Nat \ {0} /\ fare(x) \in Nat /\ s[x] \in Nat
  BY BrowseAssumption DEF Counted
<1>2. t # u => dep(t) # dep(u)
  BY BrowseAssumption DEF Counted
<1>3. CASE w.sort = "cheapest"
  <2>1. \A x, y : Before(w, s, x, y) <=>
                    fare(x) < fare(y) \/ (fare(x) = fare(y) /\ dep(x) < dep(y))
    BY <1>3 DEF Before
  <2> HIDE DEF dep, cap, fare
  <2> QED BY <1>1, <1>2, <2>1
<1>4. CASE w.sort = "likely"
  <2>1. \A x, y : Before(w, s, x, y) <=>
                    \/ s[x] * cap(y) > s[y] * cap(x)
                    \/ s[x] * cap(y) = s[y] * cap(x) /\ dep(x) < dep(y)
    BY <1>4 DEF Before
  <2> HIDE DEF dep, cap, fare
  <2>2. \A x, y \in S : s[x] * cap(y) \in Nat
    BY <1>1
  <2>3. ~Before(w, s, t, t) /\ (t # u => Before(w, s, t, u) \/ Before(w, s, u, t))
    BY <1>1, <1>2, <2>1, <2>2
  <2>4. ASSUME Before(w, s, t, u), Before(w, s, u, v) PROVE Before(w, s, t, v)
    <3>1. s[t] * cap(u) >= s[u] * cap(t) /\ s[u] * cap(v) >= s[v] * cap(u)
      BY <2>1, <2>2, <2>4
    <3>2. /\ s[t] * cap(v) >= s[v] * cap(t)
          /\ s[t] * cap(v) = s[v] * cap(t) =>
               s[t] * cap(u) = s[u] * cap(t) /\ s[u] * cap(v) = s[v] * cap(u)
      <4>1. /\ s[t] \in Nat /\ s[u] \in Nat /\ s[v] \in Nat
            /\ cap(t) \in Nat \ {0} /\ cap(u) \in Nat \ {0} /\ cap(v) \in Nat \ {0}
        BY <1>1
      <4>2. PICK a, b, c \in Nat, x, y, z \in Nat \ {0} :
              a = s[t] /\ b = s[u] /\ c = s[v] /\ x = cap(t) /\ y = cap(u) /\ z = cap(v)
        BY <4>1
      <4>3. a * y >= b * x /\ b * z >= c * y
        BY <3>1, <4>2
      <4>4. a * z >= c * x /\ (a * z = c * x => a * y = b * x /\ b * z = c * y)
        BY <4>3, RatiosAreOrdered
      <4> QED BY <4>2, <4>4
    <3>3. CASE s[t] * cap(v) = s[v] * cap(t)
      <4>1. dep(t) < dep(u) /\ dep(u) < dep(v)
        BY <2>1, <2>2, <2>4, <3>2, <3>3
      <4> QED BY <1>1, <2>1, <3>3, <4>1
    <3>4. CASE s[t] * cap(v) # s[v] * cap(t)
      BY <2>1, <2>2, <3>2, <3>4
    <3> QED BY <3>3, <3>4
  <2> QED BY <2>3, <2>4
<1>5. CASE w.sort \notin {"cheapest", "likely"}
  <2>1. \A x, y : Before(w, s, x, y) <=> dep(x) < dep(y)
    BY <1>5 DEF Before
  <2> HIDE DEF dep, cap, fare
  <2> QED BY <1>1, <1>2, <2>1
<1> QED BY <1>3, <1>4, <1>5

\* A trip comes after as many as are before it.
LEMMA AnyListSorts ==
  ASSUME NEW w, NEW s, NEW S, Counted(s, S)
  PROVE  Sorted(w, s, S) # {}
<1> DEFINE n == Cardinality(S)
           pred(t) == {u \in S : Before(w, s, u, t)}
           rank == [t \in S |-> Cardinality(pred(t)) + 1]
           o == [i \in 1..n |-> CHOOSE t \in S : rank[t] = i]
<1>1. IsFiniteSet(S) /\ n \in Nat
  BY BrowseAssumption, FS_Subset, FS_CardinalityType DEF Counted
<1>2. \A t \in S : IsFiniteSet(pred(t)) /\ Cardinality(pred(t)) \in Nat /\ Cardinality(pred(t)) < n
  <2> SUFFICES ASSUME NEW t \in S
               PROVE  IsFiniteSet(pred(t)) /\ Cardinality(pred(t)) \in Nat /\ Cardinality(pred(t)) < n
    OBVIOUS
  <2>1. pred(t) \subseteq S \ {t}
    BY BeforeIsOrder
  <2>2. IsFiniteSet(S \ {t}) /\ Cardinality(S \ {t}) = n - 1
    BY <1>1, FS_RemoveElement
  <2> HIDE DEF pred, n
  <2>3. IsFiniteSet(pred(t)) /\ Cardinality(pred(t)) <= n - 1
    BY <2>1, <2>2, FS_Subset
  <2> QED BY <1>1, <2>3, FS_CardinalityType
<1>3. rank = [t \in S |-> rank[t]] /\ \A t \in S : rank[t] = Cardinality(pred(t)) + 1
  OBVIOUS
<1> HIDE DEF rank
<1>4. \A t, u \in S : Before(w, s, t, u) => rank[t] < rank[u]
  <2> SUFFICES ASSUME NEW t \in S, NEW u \in S, Before(w, s, t, u)
               PROVE  Cardinality(pred(t)) < Cardinality(pred(u))
    <3> HIDE DEF pred
    <3> QED BY <1>2, <1>3
  <2>1. pred(t) \subseteq pred(u) /\ t \in pred(u) /\ t \notin pred(t)
    BY BeforeIsOrder
  <2> HIDE DEF pred
  <2>2. Cardinality(pred(t)) <= Cardinality(pred(u)) /\ Cardinality(pred(t)) # Cardinality(pred(u))
    BY <1>2, <2>1, FS_Subset
  <2> QED BY <1>2, <2>2
<1> HIDE DEF pred, n
<1>5. \A t \in S : rank[t] \in 1..n
  BY <1>1, <1>2, <1>3
<1>6. \A t, u \in S : rank[t] = rank[u] => t = u
  <2> SUFFICES ASSUME NEW t \in S, NEW u \in S, rank[t] = rank[u], t # u PROVE FALSE
    OBVIOUS
  <2>1. rank[t] < rank[u] \/ rank[u] < rank[t]
    BY <1>4, BeforeIsOrder
  <2> QED BY <1>5, <2>1
<1>7. \A i \in 1..n : \E t \in S : rank[t] = i
  <2>1. rank \in Injection(S, 1..n)
    BY <1>5, <1>6, <1>3 DEF Injection, IsInjective
  <2>2. IsFiniteSet(1..n) /\ Cardinality(1..n) = n
    BY <1>1, FS_Interval
  <2>3. Cardinality(S) = Cardinality(1..n)
    BY <2>2 DEF n
  <2>4. rank \in Surjection(S, 1..n)
    BY <2>1, <2>2, <2>3, FS_Injection
  <2> QED BY <2>4 DEF Surjection
<1>8. \A i \in 1..n : o[i] \in S /\ rank[o[i]] = i
  BY <1>7
<1>9. o \in [1..n -> S]
  BY <1>8
<1>10. \A t \in S : o[rank[t]] = t
  BY <1>5, <1>6, <1>8
<1> HIDE DEF o
<1>11. o \in Bijection(1..n, S)
  BY <1>5, <1>8, <1>9, <1>10 DEF Bijection, Injection, Surjection, IsInjective
<1>12. ASSUME NEW i \in 1..n, NEW j \in 1..n, i < j PROVE Before(w, s, o[i], o[j])
  <2>1. o[i] \in S /\ o[j] \in S /\ rank[o[i]] = i /\ rank[o[j]] = j /\ o[i] # o[j]
    BY <1>8, <1>12
  <2>2. ~Before(w, s, o[j], o[i])
    BY <1>4, <1>12, <2>1
  <2> QED BY <2>1, <2>2, BeforeIsOrder
<1>13. o \in Sorted(w, s, S)
  BY <1>9, <1>11, <1>12 DEF Sorted, n
<1> QED BY <1>13

\* hydrateTrips: whatever has passed the filters, by whatever it is to be sorted
\* and whatever has been counted, the comparison is a strict order of it.
THEOREM ListsAlwaysSort ==
  BrowseSpec => [](\A f \in Fetches : fetch[f].at = "seats" =>
                     \A S \in SUBSET fetch[f].page : Sorted(fetch[f].wish, fetch[f].seats, S) # {})
<1>1. BrowseInv => \A f \in Fetches : fetch[f].at = "seats" =>
                     \A S \in SUBSET fetch[f].page : Sorted(fetch[f].wish, fetch[f].seats, S) # {}
  BY AnyListSorts DEF BrowseInv, FetchTyped, Counted
<1> QED
  BY <1>1, BrowseInvAlways, PTL

-----------------------------------------------------------------------------
(* The pages together *)

\* Each page works by itself while a user goes about the others, so what holds
\* of the pages holds of the frontend that the runs check.
THEOREM PagesKeepTheirSpecs ==
  Spec => GarageSpec /\ TripFormSpec /\ BrowseSpec /\ TripPageSpec /\ DashSpec
<1>1. Init => GarageInit /\ TripFormInit /\ BrowseInit /\ TripPageInit /\ DashInit
  BY DEF Init
<1>2. [Next]_screenVars =>
        /\ [GarageNext]_garageVars /\ [TripFormNext]_tripFormVars /\ [BrowseNext]_browseVars
        /\ [TripPageNext]_tripPageVars /\ [DashNext]_dashVars
  BY DEF Next, screenVars
<1> QED
  BY <1>1, <1>2, PTL DEF Spec, GarageSpec, TripFormSpec, BrowseSpec, TripPageSpec, DashSpec

\* The properties of the pages, of the specification the runs check.
THEOREM ScreensAlwaysRight ==
  Spec => /\ [](StopsAreOneBody /\ TripHasItsVehicle)
          /\ [](ShownConcertIsSent /\ ValidFormIsAccepted /\ NoUnwantedCopy)
          /\ []NothingMissed
          /\ ShownTripNeverStepsBack
          /\ [](DashboardIsRight /\ PendingIsUnderWay)
<1> QED
  BY PagesKeepTheirSpecs, StopsAlwaysOneBody, TripAlwaysHasItsVehicle, ShownConcertIsAlwaysSent,
     ValidFormIsAlwaysAccepted, NoUnwantedCopyEver, NothingIsMissed, ShownTripOnlyMovesOn, DashboardIsAlwaysRight,
     PendingIsAlwaysUnderWay, PTL

=============================================================================
