----------------------------- MODULE Dashboards -----------------------------
(***************************************************************************)
(* The two dashboards of a user, passenger and driver, over one store      *)
(* (bookings.reducer.ts, trips.reducer.ts): the actions their buttons      *)
(* dispatch, the effects, each of which has one request under way at a     *)
(* time and drops further actions (exhaustMap), answers in any order, and  *)
(* the reviews a passenger writes from there (reviews.service.ts).         *)
(***************************************************************************)
EXTENDS FiniteSets, Naturals

CONSTANTS
  Own,       \* bookings of the user, on trips of others
  Incoming,  \* bookings on the user's trips
  TripOf,    \* booking -> its trip
  Driven,    \* trips of the user
  Past,      \* bookings whose concert is over
  NoBooking,
  MaxVisits, \* bound: changes between the dashboards
  MaxPresses, \* bound: buttons pressed, reviews sent
  MaxMoves   \* bound: decisions of other people

Bookings == Own \cup Incoming

ASSUME DashboardAssumption ==
  /\ Own \cap Incoming = {} /\ NoBooking \notin Bookings
  /\ \A b \in Bookings : TripOf[b] \in Driven <=> b \in Incoming
  /\ Past \subseteq Own /\ {MaxVisits, MaxPresses, MaxMoves} \subseteq Nat

VARIABLES
  status, paid, reviewed,  \* the server: bookings, and those with a review
  sent,      \* effect -> its request and what it has read
  held,      \* bookings slice: rows by id
  trips,     \* trips slice: ids
  flags,     \* loading and loaded of both slices, and error
  pendingId,
  page,      \* the dashboard that is open
  visits, presses, moves,
  behind,    \* auxiliary: bookings that have changed unknown to the page
  disturbed  \* auxiliary: a load failed, overlapped another request, or was
             \* one for the other dashboard

bookVars == <<status, paid, reviewed>>
storeVars == <<held, trips, flags, pendingId>>
auxVars == <<visits, presses, moves, behind, disturbed>>
dashVars == <<bookVars, sent, storeVars, page, auxVars>>

Loads == {"loadMine", "loadForDriver", "loadTrips"}
Mutations == {"accept", "reject", "cancel", "setPaid"}
Effects == Loads \cup Mutations \cup {"review"}

NoRequest == [at |-> "idle", id |-> NoBooking, rows |-> {}]
Busy(e) == sent[e].at # "idle"
Quiet == \A e \in Effects : ~Busy(e)

\* ReviewEligibilityGuard: a confirmed passenger, after the concert.
Eligible(b) == b \in Past /\ status[b] = "CONFIRMED"

\* BookingDto: canReview is worked out for the passenger's own list only.
CanReview(b) == Eligible(b) /\ b \notin reviewed
Row(b, reviewable) ==
  [id |-> b, status |-> status[b], paid |-> paid[b], canReview |-> reviewable]

MyRows == {Row(b, CanReview(b)) : b \in Own}
DriverRows == {Row(b, FALSE) : b \in Incoming}

DashInit ==
  /\ status \in [Bookings -> {"PENDING", "CONFIRMED"}]
  /\ \A b \in Past : status[b] = "CONFIRMED"
  /\ paid = [b \in Bookings |-> FALSE]
  /\ reviewed = {}
  /\ sent = [e \in Effects |-> NoRequest]
  /\ held = {} /\ trips = {}
  /\ flags = [loading |-> FALSE, loaded |-> FALSE, tripsLoading |-> FALSE,
              tripsLoaded |-> FALSE, error |-> FALSE]
  /\ pendingId = NoBooking
  /\ page = "none"
  /\ visits = 0 /\ presses = 0 /\ moves = 0
  /\ behind = {} /\ disturbed = FALSE

-----------------------------------------------------------------------------
(* Actions dispatched by the pages *)

\* exhaustMap: the action starts a request, or nothing when one is under way.
Exhaust(requests, e, id) ==
  IF requests[e].at = "idle"
  THEN [requests EXCEPT ![e] = [NoRequest EXCEPT !.at = "sent", !.id = id]]
  ELSE requests

\* The constructor of PassengerDashboard, and the end of a review.
LoadMine(requests, on) ==
  /\ sent' = Exhaust(requests, "loadMine", NoBooking)
  /\ flags' = [flags EXCEPT !.loading = TRUE, !.error = FALSE]
  /\ disturbed' = (on # "passenger" \/ \E e \in Effects : requests[e].at # "idle")

OpenPassenger ==
  /\ page # "passenger" /\ visits < MaxVisits
  /\ page' = "passenger" /\ visits' = visits + 1
  /\ LoadMine(sent, "passenger")
  /\ UNCHANGED <<bookVars, held, trips, pendingId, presses, moves, behind>>

\* The constructor of DriverDashboard.
OpenDriver ==
  /\ page # "driver" /\ visits < MaxVisits
  /\ page' = "driver" /\ visits' = visits + 1
  /\ sent' = Exhaust(Exhaust(sent, "loadTrips", NoBooking), "loadForDriver", NoBooking)
  /\ flags' = [flags EXCEPT !.loading = TRUE, !.tripsLoading = TRUE, !.error = FALSE]
  /\ disturbed' = ~Quiet
  /\ UNCHANGED <<bookVars, held, trips, pendingId, presses, moves, behind>>

\* selectPassengerLoading and selectDriverLoading
PageLoading ==
  \/ flags.loading \/ ~flags.loaded
  \/ page = "driver" /\ (flags.tripsLoading \/ ~flags.tripsLoaded)

\* The buttons of a row (booking-list.html).
ButtonShown(e, row) ==
  /\ ~PageLoading /\ row.id # pendingId
  /\ \/ page = "driver" /\ e \in {"accept", "reject"} /\ row.status = "PENDING"
     \/ page = "driver" /\ e = "setPaid" /\ row.status = "CONFIRMED"
     \/ page = "passenger" /\ e = "cancel" /\ row.status \in {"PENDING", "CONFIRMED"}

Press == presses < MaxPresses /\ presses' = presses + 1

\* The reducer marks the row before the effect decides.
MarkPending(id) == pendingId' = id /\ flags' = [flags EXCEPT !.error = FALSE]

PressButton(e) ==
  /\ Press
  /\ \E row \in held :
       ButtonShown(e, row) /\ sent' = Exhaust(sent, e, row.id) /\ MarkPending(row.id)
  /\ disturbed' = (disturbed \/ \E l \in Loads : Busy(l))
  /\ UNCHANGED <<bookVars, held, trips, page, visits, moves, behind>>

\* submitReview, not through the store; its form is off while one is pending.
SubmitReview ==
  /\ page = "passenger" /\ ~PageLoading
  /\ ~Busy("review") /\ Press
  /\ \E row \in held :
       row.canReview /\ sent' = [sent EXCEPT !["review"] = [NoRequest EXCEPT !.at = "sent", !.id = row.id]]
  /\ UNCHANGED <<bookVars, storeVars, page, visits, moves, behind, disturbed>>

-----------------------------------------------------------------------------
(* The server *)

Answer(e, rows) == sent' = [sent EXCEPT ![e].at = "served", ![e].rows = rows]
Refuse(e) == sent' = [sent EXCEPT ![e].at = "refused"]

ServeLoad(e) ==
  /\ e \in Loads /\ sent[e].at = "sent"
  /\ Answer(e, CASE e = "loadMine" -> MyRows [] e = "loadForDriver" -> DriverRows [] OTHER -> {})
  /\ behind' = behind \ (IF e = "loadMine" THEN Own ELSE IF e = "loadForDriver" THEN Incoming ELSE {})
  /\ UNCHANGED <<bookVars, storeVars, page, visits, presses, moves, disturbed>>

\* The status each decision asks for and leaves behind.
Requires(e) == IF e = "cancel" THEN {"PENDING", "CONFIRMED"}
           ELSE IF e = "setPaid" THEN {"CONFIRMED"} ELSE {"PENDING"}
Leaves(e) == CASE e = "accept" -> "CONFIRMED" [] e = "reject" -> "REJECTED"
               [] e = "cancel" -> "CANCELLED" [] e = "setPaid" -> "CONFIRMED"

ServeMutation(e) ==
  LET b == sent[e].id IN
  /\ e \in Mutations /\ sent[e].at = "sent"
  /\ IF status[b] \in Requires(e)
     THEN /\ status' = [status EXCEPT ![b] = Leaves(e)]
          /\ paid' = IF e = "setPaid" THEN [paid EXCEPT ![b] = ~@] ELSE paid
          /\ Answer(e, {[id |-> b, status |-> status'[b], paid |-> paid'[b], canReview |-> FALSE]})
          /\ behind' = behind \ {b}
     ELSE Refuse(e) /\ UNCHANGED <<status, paid, behind>>
  /\ UNCHANGED <<reviewed, storeVars, page, visits, presses, moves, disturbed>>

\* create: once for each passenger and trip.
CreateReview(b) ==
  IF b \notin reviewed THEN reviewed' = reviewed \cup {b} /\ Answer("review", {})
  ELSE Refuse("review") /\ UNCHANGED reviewed

ServeReview ==
  LET b == sent["review"].id IN
  /\ sent["review"].at = "sent"
  /\ IF Eligible(b) THEN CreateReview(b) ELSE Refuse("review") /\ UNCHANGED reviewed
  /\ UNCHANGED <<status, paid, storeVars, page, auxVars>>

\* The driver of the user's booking, or the passenger of an incoming one,
\* decides.
OthersDecide(b, to) ==
  /\ moves < MaxMoves
  /\ \/ status[b] = "PENDING" /\ to \in (IF b \in Own THEN {"CONFIRMED", "REJECTED"} ELSE {"CANCELLED"})
     \/ status[b] = "CONFIRMED" /\ b \in Incoming /\ to = "CANCELLED"
  /\ status' = [status EXCEPT ![b] = to]
  /\ moves' = moves + 1
  /\ behind' = behind \cup {b}
  /\ UNCHANGED <<paid, reviewed, sent, storeVars, page, visits, presses, disturbed>>

-----------------------------------------------------------------------------
(* Answers: effects and reducers *)

TripsOf(rows) == {TripOf[r.id] : r \in rows}
Ended(e) == [sent EXCEPT ![e] = NoRequest]
Upsert(rows) == {r \in held : \A x \in rows : x.id # r.id} \cup rows

\* loadMineSuccess and loadForDriverSuccess with upsertTrips
BookingsArrive(e) ==
  /\ e \in {"loadMine", "loadForDriver"} /\ sent[e].at = "served"
  /\ held' = sent[e].rows
  /\ trips' = trips \cup TripsOf(sent[e].rows)
  /\ flags' = [flags EXCEPT !.loading = FALSE, !.loaded = TRUE]
  /\ pendingId' = NoBooking
  /\ sent' = Ended(e)
  /\ UNCHANGED <<bookVars, page, auxVars>>

\* TripsActions.loadMineSuccess
TripsArrive ==
  /\ sent["loadTrips"].at = "served"
  /\ trips' = Driven
  /\ flags' = [flags EXCEPT !.tripsLoading = FALSE, !.tripsLoaded = TRUE]
  /\ sent' = Ended("loadTrips")
  /\ UNCHANGED <<bookVars, held, pendingId, page, auxVars>>

LoadFails(e) ==
  /\ e \in Loads /\ Busy(e)
  /\ flags' = IF e = "loadTrips" THEN [flags EXCEPT !.tripsLoading = FALSE, !.error = TRUE]
              ELSE [flags EXCEPT !.loading = FALSE, !.error = TRUE]
  /\ sent' = Ended(e)
  /\ disturbed' = TRUE
  /\ UNCHANGED <<bookVars, held, trips, pendingId, page, visits, presses, moves, behind>>

\* Faulty variant: the answer is not put into the store.
MutationOnlyUnlocks(e) ==
  /\ e \in Mutations /\ sent[e].at = "served"
  /\ trips' = trips \cup TripsOf(sent[e].rows)
  /\ pendingId' = NoBooking
  /\ sent' = Ended(e)
  /\ UNCHANGED <<bookVars, held, flags, page, auxVars>>

\* mutationSuccess with upsertTrip
MutationArrives(e) ==
  /\ e \in Mutations /\ sent[e].at = "served"
  /\ held' = Upsert(sent[e].rows)
  /\ trips' = trips \cup TripsOf(sent[e].rows)
  /\ pendingId' = NoBooking
  /\ sent' = Ended(e)
  /\ UNCHANGED <<bookVars, flags, page, auxVars>>

\* Faulty variant: pendingId stays.
MutationFailsLocked(e) ==
  /\ e \in Mutations /\ Busy(e)
  /\ flags' = [flags EXCEPT !.error = TRUE]
  /\ behind' = IF sent[e].at = "sent" THEN behind ELSE behind \cup {sent[e].id}
  /\ sent' = Ended(e)
  /\ UNCHANGED <<bookVars, held, trips, pendingId, page, visits, presses, moves, disturbed>>

\* mutationFailure: a refusal, or a request or an answer that is lost.
MutationFails(e) ==
  /\ e \in Mutations /\ Busy(e)
  /\ flags' = [flags EXCEPT !.error = TRUE]
  /\ pendingId' = NoBooking
  /\ behind' = IF sent[e].at = "sent" THEN behind ELSE behind \cup {sent[e].id}
  /\ sent' = Ended(e)
  /\ UNCHANGED <<bookVars, held, trips, page, visits, presses, moves, disturbed>>

\* A review is followed by loadMine, whichever dashboard is open by then.
ReviewArrives ==
  /\ sent["review"].at = "served"
  /\ LoadMine(Ended("review"), page)
  /\ UNCHANGED <<bookVars, held, trips, pendingId, page, visits, presses, moves, behind>>

ReviewFails ==
  /\ Busy("review")
  /\ behind' = IF sent["review"].at = "sent" THEN behind ELSE behind \cup {sent["review"].id}
  /\ sent' = Ended("review")
  /\ UNCHANGED <<bookVars, storeVars, page, visits, presses, moves, disturbed>>

-----------------------------------------------------------------------------
DashNext ==
  \/ OpenPassenger \/ OpenDriver \/ SubmitReview
  \/ ServeReview \/ ReviewArrives \/ ReviewFails
  \/ TripsArrive
  \/ \E e \in Effects :
       \/ PressButton(e)
       \/ ServeLoad(e) \/ BookingsArrive(e) \/ LoadFails(e)
       \/ ServeMutation(e) \/ MutationArrives(e) \/ MutationFails(e)
  \/ \E b \in Bookings, to \in {"CONFIRMED", "REJECTED", "CANCELLED"} : OthersDecide(b, to)

DashSpec == DashInit /\ [][DashNext]_dashVars

-----------------------------------------------------------------------------
(* Properties *)

ShownBookings == IF page = "passenger" THEN Own ELSE Incoming

\* At rest a dashboard shows the bookings it is for, and the driver's shows
\* the user's trips ("own bookings", "own trips"), each booking as the server
\* has it, as far as the last load was its own, did not fail or overlap another
\* request, and nobody else has decided since.
DashboardIsRight ==
  Quiet /\ page # "none" /\ ~disturbed =>
    /\ ~PageLoading
    /\ {r.id : r \in held} = ShownBookings
    /\ \A r \in held : r.id \notin behind => r = Row(r.id, page = "passenger" /\ CanReview(r.id))
    /\ page = "driver" => trips = Driven

\* A row whose buttons are off waits for a request: also a click that was
\* dropped, and two decisions at once, give them back.
PendingIsUnderWay == pendingId # NoBooking => \E e \in Mutations : Busy(e)

\* The dashboards share a store: at rest each shows its own bookings.  The
\* code does not keep this when answers of the other one arrive late, or its
\* own load fails.
DashboardsKeepApart ==
  Quiet /\ page # "none" /\ ~PageLoading => {r.id : r \in held} = ShownBookings

\* What a failed load says is shown.  The code does not keep this for the first
\* load: selectDriverLoading and selectPassengerLoading hide it for ever.
ErrorIsShown == Quiet /\ flags.error => ~PageLoading
=============================================================================
