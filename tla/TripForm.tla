------------------------------ MODULE TripForm ------------------------------
(***************************************************************************)
(* The form a driver offers or edits a trip with (trip-create.ts and       *)
(* trip-schedule.ts, with the concert picker inside), and the service that *)
(* takes what it sends.                                                    *)
(*                                                                         *)
(* Times are instants; a datetime-local input holds the instant plus the   *)
(* zone of the browser, without saying so (local-datetime.ts).  Price,     *)
(* currency, notes and the places of the stops play no part.               *)
(***************************************************************************)
EXTENDS TripRules, Sequences

CONSTANTS
  Cars, CarSeats,    \* the driver's vehicles and their seats
  Gigs, GigStart,    \* concerts and when they start
  Unset,             \* an empty input
  Zones,             \* how far the clock of the browser may be ahead of UTC
  MaxLocal,          \* bound: the times somebody enters
  DepartureLead, DeadlineLead, FallbackLead,
  OldTrips,          \* trips that may be edited
  MaxStops,          \* bound: stops added to a form
  MaxSubmits         \* bound: requests sent by a form

ASSUME LeadsAssumption ==
  /\ DepartureLead \in Nat \ {0}
  /\ DeadlineLead \in Nat \ {0}
  /\ FallbackLead \in Nat \ {0}

ASSUME FormAssumption ==
  /\ CarSeats \in [Cars -> Nat \ {0}] /\ Unset \notin Cars
  /\ GigStart \in [Gigs -> Nat] /\ Unset \notin Gigs
  /\ Zones \subseteq Nat /\ MaxLocal \in Nat /\ Unset \notin Int
  /\ MaxStops \in Nat /\ MaxSubmits \in Nat

Controls ==
  [car : Cars \cup {Unset}, gig : Gigs \cup {Unset}, min : Nat, max : Nat,
   pristine : BOOLEAN, followed : Nat, deadline : Int \cup {Unset},
   departure : Int \cup {Unset}, stops : Seq(Nat)]

\* A trip as the server has it.
Rows ==
  [car : Cars, gig : Gigs, min : Nat, max : Nat, deadline : Int, departure : Int,
   stops : Seq(Nat)]

Numbered(list) == list = [k \in 1 .. Len(list) |-> k]

\* A trip that may be edited went through this form.
ASSUME OldTripsAssumption ==
  OldTrips \subseteq Rows /\ \A t \in OldTrips : Numbered(t.stops)

VARIABLES
  form,      \* the controls of the form
  concertOf, \* selectedConcert: what the picker shows
  picking,   \* the concert the picker was given and is loading, or Unset
  loads,     \* the requests of ngOnInit: vehicles and trip
  editing,   \* editingId: whether a trip is edited
  zone,      \* of the browser
  save,      \* the request under way
  row,       \* the trip as the server has it, or Unset
  editable,  \* whether it is still OPEN
  copies,    \* trips the form has created
  lost,      \* auxiliary: answers to a successful save that got lost
  entered    \* auxiliary: the instants the driver meant, when it was saved

formVars == <<form, concertOf, picking, loads, editing, zone>>
saveVars == <<save, row, editable, copies, lost, entered>>
tripFormVars == <<formVars, saveVars>>

-----------------------------------------------------------------------------
(* trip-schedule.ts and local-datetime.ts *)

\* suggestSchedule, as instants: a day before departure, three hours before
\* the concert, or an hour from now; none when the concert is too soon.
Suggestion(start, now) ==
  LET departure == start - DepartureLead
      dayBefore == departure - DeadlineLead
      deadline  == IF dayBefore <= now THEN now + FallbackLead ELSE dayBefore
  IN IF departure <= now \/ deadline >= departure THEN Unset
     ELSE [deadline |-> deadline, departure |-> departure]

ToLocalInput(instant) == instant + zone

\* new Date(value), in the browser
FromLocalInput(value) == value - zone

\* Faulty variant: the concert is compared with the deadline only.
DepartureUnchecked(deadline, departure, start) ==
  deadline # Unset /\ departure # Unset =>
    /\ deadline < departure
    /\ start # Unset => FromLocalInput(deadline) < start

\* scheduleOrderValidator finds no error.
ScheduleInOrder(deadline, departure, start) ==
  deadline # Unset /\ departure # Unset =>
    /\ deadline < departure
    /\ start # Unset => /\ FromLocalInput(deadline) < start
                        /\ FromLocalInput(departure) <= start

\* capacityValidator finds no error.
CapacityFits(min, max, car) == min <= max /\ (car # Unset => max <= CarSeats[car])

StartShown == IF concertOf = Unset THEN Unset ELSE GigStart[concertOf]

\* form.invalid is recomputed whenever a control or the concert shown changes.
FormValid ==
  /\ form.car # Unset /\ form.gig # Unset
  /\ form.deadline # Unset /\ form.departure # Unset
  /\ ScheduleInOrder(form.deadline, form.departure, StartShown)
  /\ CapacityFits(form.min, form.max, form.car)

-----------------------------------------------------------------------------
(* Opening the page *)

Locals == 0 .. MaxLocal

EmptyForm(gig) ==
  [car |-> Unset, gig |-> gig, min |-> 1, max |-> 1, pristine |-> TRUE,
   followed |-> 0, deadline |-> Unset, departure |-> Unset, stops |-> <<>>]

\* A new trip, perhaps for the concert named in the link, or one to edit.
TripFormInit ==
  /\ zone \in Zones
  /\ \/ editing = FALSE /\ row = Unset /\ \E g \in Gigs \cup {Unset} : form = EmptyForm(g)
     \/ editing = TRUE /\ row \in OldTrips /\ form = EmptyForm(Unset)
  /\ loads = [vehicles |-> "asked", trip |-> IF editing THEN "asked" ELSE "none"]
  /\ concertOf = Unset /\ picking = Unset
  /\ save = [at |-> "none"]
  /\ editable = TRUE /\ copies = 0 /\ lost = 0
  /\ entered = Unset

\* The form, and the picker in it, appear when both requests have ended; the
\* picker then loads the concert the control holds.
Rendered(l) == l.vehicles = "ok" /\ l.trip # "asked"

Load(request, result, controls) ==
  /\ loads[request] = "asked"
  /\ loads' = [loads EXCEPT ![request] = result]
  /\ form' = controls
  /\ picking' = IF Rendered(loads') THEN controls.gig ELSE Unset
  /\ UNCHANGED <<concertOf, editing, zone, saveVars>>

VehiclesArrive == \E result \in {"ok", "failed"} : Load("vehicles", result, form)

\* prefill
TripArrives ==
  Load("trip", "ok",
       [form EXCEPT !.car = row.car, !.gig = row.gig, !.min = row.min, !.max = row.max,
                    !.followed = IF loads.vehicles = "ok" THEN CarSeats[row.car] ELSE row.max,
                    !.deadline = ToLocalInput(row.deadline),
                    !.departure = ToLocalInput(row.departure),
                    !.stops = row.stops])

TripLoadFails == Load("trip", "failed", form)

-----------------------------------------------------------------------------
(* Filling it in *)

\* The form is on the page.  Bounds: it is not changed while a request is under
\* way, which has taken its values, nor after an answer was lost, when the
\* driver sends it once more.
Usable == Rendered(loads) /\ save.at = "none" /\ lost = 0

Fill(controls) ==
  /\ Usable
  /\ form' = controls
  /\ UNCHANGED <<concertOf, picking, loads, editing, zone, saveVars>>

Smaller(a, b) == IF a < b THEN a ELSE b

\* onVehicleChange and applyVehicleCapacity: the seats offered follow the
\* vehicle until the driver enters his own, and never exceed it.
ChooseCar(c) ==
  LET seats == CarSeats[c]
      follows == ~editing /\ (form.pristine \/ form.max = form.followed)
      max == IF form.max > seats \/ follows THEN seats ELSE form.max
  IN Fill([form EXCEPT !.car = c, !.followed = seats, !.max = max,
                       !.min = Smaller(form.min, max)])

EnterMin(n) == Fill([form EXCEPT !.min = n])
EnterMax(n) == Fill([form EXCEPT !.max = n, !.pristine = FALSE])
EnterDeadline(t) == Fill([form EXCEPT !.deadline = t])
EnterDeparture(t) == Fill([form EXCEPT !.departure = t])

AddStop ==
  /\ Len(form.stops) < MaxStops
  /\ Fill([form EXCEPT !.stops = Append(form.stops, Len(form.stops) + 1)])

\* removeStop numbers the stops that are left anew.
RemoveStop(i) == Fill([form EXCEPT !.stops = [k \in 1 .. Len(form.stops) - 1 |-> k]])

\* onConcertChange: empty dates are filled with the suggestion.
WithDates(controls, g) ==
  LET suggested == IF g = Unset THEN Unset ELSE Suggestion(GigStart[g], 0)
  IN IF controls.deadline = Unset /\ controls.departure = Unset /\ suggested # Unset
     THEN [controls EXCEPT !.deadline = ToLocalInput(suggested.deadline),
                           !.departure = ToLocalInput(suggested.departure)]
     ELSE controls

ShowConcert(controls, g) ==
  /\ concertOf' = g
  /\ form' = WithDates(controls, g)
  /\ UNCHANGED <<loads, editing, zone, saveVars>>

\* Faulty variant: the picker can be opened while it loads its concert.
PickEarly(g) ==
  /\ Usable /\ concertOf = Unset
  /\ ShowConcert([form EXCEPT !.gig = g], g)
  /\ UNCHANGED picking

\* select() of the picker: its input is shown when there is no concert and
\* none is being loaded.
Pick(g) ==
  /\ Usable /\ concertOf = Unset /\ picking = Unset
  /\ ShowConcert([form EXCEPT !.gig = g], g)
  /\ UNCHANGED picking

ClearConcert ==
  /\ Usable /\ concertOf # Unset
  /\ ShowConcert([form EXCEPT !.gig = Unset], Unset)
  /\ UNCHANGED picking

\* loadSelected
ConcertArrives ==
  /\ picking # Unset /\ picking' = Unset
  /\ ShowConcert(form, picking)

ConcertLoadFails ==
  /\ picking # Unset /\ picking' = Unset
  /\ ShowConcert([form EXCEPT !.gig = Unset], Unset)

-----------------------------------------------------------------------------
(* Sending it *)

Send ==
  /\ Rendered(loads) /\ FormValid
  /\ copies + lost < MaxSubmits
  /\ save' = [at |-> "sent", body |-> form, shown |-> concertOf]
  /\ UNCHANGED <<formVars, row, editable, copies, lost, entered>>

\* Faulty variant: submit() does not look at pending.
SubmitAgain == save.at \in {"none", "stored"} /\ Send

\* submit(): a valid form, one request at a time.
Submit == save.at = "none" /\ Send

\* What the service makes of the body: a datetime without a zone is taken for
\* UTC, the zone of the server.
Received(b) ==
  [car |-> b.car, gig |-> b.gig, min |-> b.min, max |-> b.max,
   deadline |-> b.deadline, departure |-> b.departure, stops |-> b.stops]

\* The checks of create() and update(), and the unique numbers of the stops.
Accepted(t) ==
  /\ editing => editable
  /\ ValidCapacity(t, CarSeats[t.car])
  /\ ValidSchedule(t, GigStart[t.gig])
  /\ \A i, j \in DOMAIN t.stops : i # j => t.stops[i] # t.stops[j]

Serve ==
  /\ save.at = "sent"
  /\ IF Accepted(Received(save.body))
     THEN /\ row' = Received(save.body)
          /\ copies' = IF editing THEN copies ELSE copies + 1
          /\ entered' = [deadline |-> FromLocalInput(save.body.deadline),
                         departure |-> FromLocalInput(save.body.departure)]
          /\ save' = [save EXCEPT !.at = "stored"]
     ELSE save' = [save EXCEPT !.at = "refused"] /\ UNCHANGED <<row, copies, entered>>
  /\ UNCHANGED <<formVars, editable, lost>>

\* The page goes to the trip, or shows the error and can be sent again.
SaveAnswers ==
  /\ save.at \in {"stored", "refused"}
  /\ save' = [at |-> IF save.at = "stored" THEN "left" ELSE "none"]
  /\ UNCHANGED <<formVars, row, editable, copies, lost, entered>>

\* The request or its answer is lost, which the page cannot tell apart.
SaveLost ==
  /\ save.at \in {"sent", "stored"}
  /\ save' = [at |-> "none"]
  /\ lost' = lost + 1
  /\ UNCHANGED <<formVars, row, editable, copies, entered>>

\* A booking takes the trip out of OPEN.
LeaveOpen ==
  /\ editing /\ editable
  /\ editable' = FALSE
  /\ UNCHANGED <<formVars, save, row, copies, lost, entered>>

-----------------------------------------------------------------------------
FillStep ==
  \/ \E c \in Cars : ChooseCar(c)
  \/ \E n \in {CarSeats[c] : c \in Cars} : EnterMin(n) \/ EnterMax(n)
  \/ \E t \in Locals : EnterDeadline(t) \/ EnterDeparture(t)
  \/ AddStop \/ \E i \in DOMAIN form.stops : RemoveStop(i)

PickerStep ==
  \/ \E g \in Gigs : Pick(g)
  \/ ClearConcert \/ ConcertArrives \/ ConcertLoadFails

TripFormNext ==
  \/ VehiclesArrive \/ TripArrives \/ TripLoadFails
  \/ FillStep \/ PickerStep
  \/ Submit \/ Serve \/ SaveAnswers \/ SaveLost \/ LeaveOpen

TripFormSpec == TripFormInit /\ [][TripFormNext]_tripFormVars

-----------------------------------------------------------------------------
(* Properties *)

\* What the picker shows is what the form will send: the control "stores the
\* selected concert UUID" (concert-picker.ts:44), also when the concert of a
\* link or of an edited trip arrives late or never.
ShownConcertIsSent == Rendered(loads) /\ picking = Unset => form.gig = concertOf

\* The stops of the form, and of the trip, are numbered from 1 without gaps
\* however stops were added and removed.
StopsNumbered == Numbered(form.stops)

\* The validators of the form are those of the service: when the browser is
\* in the zone of the server, a form it lets through with its concert shown is
\* refused for one reason only, the trip has left OPEN.
ValidFormIsAccepted ==
  save.at = "refused" /\ zone = 0 /\ save.shown # Unset => editing /\ ~editable

\* A form creates one trip, and another one only after an answer got lost.
NoUnwantedCopy == copies <= 1 + lost

\* The times of a trip are the instants its driver entered ("stored in UTC
\* (ISO 8601) and displayed in local time", README.md:150).
TimesAreStoredInUtc ==
  entered # Unset => row.deadline = entered.deadline /\ row.departure = entered.departure
=============================================================================
