------------------------------ MODULE TripPage ------------------------------
(***************************************************************************)
(* The page of one trip (trip-details.ts), with the feature flags it waits *)
(* for (features.service.ts) and the seven requests it can have under way  *)
(* at once.  What the server does with a request is one step here; the     *)
(* services themselves are in TripsService, BookingsService and            *)
(* WaitlistService.                                                        *)
(***************************************************************************)
EXTENDS Naturals

CONSTANT MaxClicks  \* bound: requests the user starts

ASSUME ClicksAssumption == MaxClicks \in Nat

VARIABLES
  role,      \* isDriver: of the person who looks at the page
  chatOn,    \* the feature flag of the server
  tripStatus, seated, booked, queued,
             \* the server: status of the trip, whether it has confirmed seats,
             \* the status of the person's booking, his entry in the waitlist
  ask,       \* request -> where it stands, and what was read for it
  seen,      \* trip(): its status and confirmed seats, as shown
  chatFlag,  \* features(): "unknown", "on" or "off"
  requested, \* membershipRequested
  confirmed, \* isConfirmedPassenger()
  entry,     \* waitlistEntry(), whether there is one
  clicks

serverVars == <<chatOn, tripStatus, seated, booked, queued>>
shownVars == <<seen, chatFlag, requested, confirmed, entry>>
tripPageVars == <<role, serverVars, ask, shownVars, clicks>>

Bookable == {"OPEN", "FULL", "READY"}
Over == {"COMPLETED", "CANCELLED"}
Statuses == Bookable \cup Over \cup {"CONFIRMED"}

Asks == {"features", "trip", "membership", "entries",
         "confirm", "cancel", "export", "request", "join", "leave"}

Unloaded == [status |-> "none", seated |-> FALSE]
Loaded == seen # Unloaded

\* Nothing has been read for a request that is only asked.
Stage(at) == [at |-> at, read |-> "nothing"]
Unasked == Stage("idle")
Sent == Stage("sent")
Answered(r) == ask[r].at \in {"served", "refused"}
Pending(r) == ask[r].at = "sent" \/ Answered(r)
Acting == {"confirm", "cancel", "export"}
ActionPending == \E r \in Acting : Pending(r)
WaitlistPending == Pending("join") \/ Pending("leave")

IsDriver == role = "driver" /\ Loaded

\* The constructor asks for the flags and for the trip.
TripPageInit ==
  /\ role \in {"driver", "passenger"}
  /\ chatOn \in BOOLEAN
  /\ tripStatus \in Bookable
  /\ booked \in IF role = "driver" THEN {"none"} ELSE {"none", "CONFIRMED"}
  /\ seated = (booked = "CONFIRMED" \/ tripStatus # "OPEN")
  /\ queued = FALSE
  /\ ask = [r \in Asks |-> IF r \in {"features", "trip"} THEN Sent ELSE Unasked]
  /\ seen = Unloaded /\ chatFlag = "unknown"
  /\ requested = FALSE /\ confirmed = FALSE /\ entry = FALSE
  /\ clicks = 0

-----------------------------------------------------------------------------
(* The server *)

TripRead == [status |-> tripStatus, seated |-> seated]

\* listMine: whether it has an entry for this trip.
ListMine == queued

Reads(r) ==
  CASE r = "features" -> IF chatOn THEN "on" ELSE "off"
    [] r \in {"trip", "export"} -> TripRead
    [] r = "membership" -> booked = "CONFIRMED"
    [] r = "entries" -> ListMine

Served(r, read) == ask' = [ask EXCEPT ![r] = [at |-> "served", read |-> read]]
Refuses(r) == ask' = [ask EXCEPT ![r] = Stage("refused")]

ServeRead(r) ==
  /\ ask[r].at = "sent"
  /\ Served(r, Reads(r))
  /\ UNCHANGED <<role, serverVars, shownVars, clicks>>

ServeConfirm ==
  /\ ask["confirm"].at = "sent"
  /\ IF tripStatus = "READY"
     THEN tripStatus' = "CONFIRMED" /\ Served("confirm", [status |-> "CONFIRMED", seated |-> seated])
     ELSE UNCHANGED tripStatus /\ Refuses("confirm")
  /\ UNCHANGED <<role, chatOn, seated, booked, queued, shownVars, clicks>>

ServeCancel ==
  /\ ask["cancel"].at = "sent"
  /\ IF tripStatus \notin Over
     THEN tripStatus' = "CANCELLED" /\ Served("cancel", [status |-> "CANCELLED", seated |-> seated])
     ELSE UNCHANGED tripStatus /\ Refuses("cancel")
  /\ UNCHANGED <<role, chatOn, seated, booked, queued, shownVars, clicks>>

ServeRequest ==
  /\ ask["request"].at = "sent"
  /\ IF tripStatus \in {"OPEN", "READY"} /\ booked = "none"
     THEN booked' = "PENDING" /\ Served("request", "ok")
     ELSE UNCHANGED booked /\ Refuses("request")
  /\ UNCHANGED <<role, chatOn, tripStatus, seated, queued, shownVars, clicks>>

ServeJoin ==
  /\ ask["join"].at = "sent"
  /\ IF tripStatus = "FULL" /\ booked = "none" /\ ~queued
     THEN queued' = TRUE /\ Served("join", "ok")
     ELSE UNCHANGED queued /\ Refuses("join")
  /\ UNCHANGED <<role, chatOn, tripStatus, seated, booked, shownVars, clicks>>

ServeLeave ==
  /\ ask["leave"].at = "sent"
  /\ queued' = FALSE
  /\ IF queued THEN Served("leave", "ok") ELSE Refuses("leave")
  /\ UNCHANGED <<role, chatOn, tripStatus, seated, booked, shownVars, clicks>>

\* Meanwhile others book and cancel, and the sweep ends the trip.
TripMoves(to) ==
  /\ \/ tripStatus \in Bookable /\ to \in Bookable \cup {"CANCELLED"}
     \/ tripStatus = "CONFIRMED" /\ to = "COMPLETED"
  /\ to # tripStatus
  /\ tripStatus' = to
  /\ seated' = (booked = "CONFIRMED" \/ to # "OPEN")
  /\ UNCHANGED <<role, chatOn, booked, queued, ask, shownVars, clicks>>

\* The driver decides on the person's request; he is taken off, too.
BookingMoves(to) ==
  /\ <<booked, to>> \in {<<"PENDING", "CONFIRMED">>, <<"PENDING", "none">>, <<"CONFIRMED", "none">>}
  /\ booked' = to
  /\ seated' = (seated \/ to = "CONFIRMED")
  /\ UNCHANGED <<role, chatOn, tripStatus, queued, ask, shownVars, clicks>>

-----------------------------------------------------------------------------
(* Answers *)

ToMembership(asks, has, flag) ==
  IF ~requested /\ has # Unloaded /\ flag = "on" /\ role # "driver"
  THEN [asks EXCEPT !["membership"] = Sent] ELSE asks

\* The answer to load(), or its failure, which counts as chat switched off.
FlagsAnswered(flag) ==
  \/ ask["features"].at = "served" /\ flag = ask["features"].read
  \/ ask["features"].at \in {"sent", "served"} /\ flag = "off"

\* Faulty variant: the flags do not look for the trip when they come second.
FlagsArriveAlone(flag) ==
  /\ FlagsAnswered(flag)
  /\ chatFlag' = flag
  /\ ask' = [ask EXCEPT !["features"] = Stage("done")]
  /\ UNCHANGED <<role, serverVars, seen, requested, confirmed, entry, clicks>>

\* The flags arrive; then maybeLoadMembership.
FlagsArrive(flag) ==
  /\ FlagsAnswered(flag)
  /\ chatFlag' = flag
  /\ ask' = ToMembership([ask EXCEPT !["features"] = Stage("done")], seen, flag)
  /\ requested' = (requested \/ Loaded)
  /\ UNCHANGED <<role, serverVars, seen, confirmed, entry, clicks>>

\* The trip arrives: maybeLoadMembership, then loadWaitlistMembership.
TripArrivesAtPage ==
  /\ ask["trip"].at = "served"
  /\ seen' = ask["trip"].read
  /\ LET done == ToMembership([ask EXCEPT !["trip"] = Unasked], seen', chatFlag)
     IN ask' = IF seen'.status = "FULL" /\ role # "driver"
               THEN [done EXCEPT !["entries"] = Sent] ELSE done
  /\ requested' = (requested \/ chatFlag # "unknown")
  /\ UNCHANGED <<role, serverVars, chatFlag, confirmed, entry, clicks>>

Ends(r) == ask' = [ask EXCEPT ![r] = Unasked]

MembershipArrives ==
  /\ ask["membership"].at = "served"
  /\ confirmed' = ask["membership"].read
  /\ Ends("membership")
  /\ UNCHANGED <<role, serverVars, seen, chatFlag, requested, entry, clicks>>

EntriesArrive ==
  /\ ask["entries"].at = "served"
  /\ entry' = ask["entries"].read
  /\ Ends("entries")
  /\ UNCHANGED <<role, serverVars, seen, chatFlag, requested, confirmed, clicks>>

\* confirm and cancel put the trip they answer with on the page, the manifest
\* does not; a refusal is shown as an error.
ActionArrives(r) ==
  /\ r \in Acting /\ Answered(r)
  /\ seen' = IF r = "export" \/ ask[r].at = "refused" THEN seen ELSE ask[r].read
  /\ Ends(r)
  /\ UNCHANGED <<role, serverVars, chatFlag, requested, confirmed, entry, clicks>>

QueueArrives(r) ==
  /\ r \in {"request", "join", "leave"} /\ Answered(r)
  /\ entry' = IF r = "request" \/ ask[r].at = "refused" THEN entry ELSE r = "join"
  /\ Ends(r)
  /\ UNCHANGED <<role, serverVars, seen, chatFlag, requested, confirmed, clicks>>

\* A request or its answer is lost: an error is shown, or nothing.
AskFails(r) ==
  /\ r # "features" /\ Pending(r)
  /\ ask' = [ask EXCEPT ![r] = Stage("failed")]
  /\ UNCHANGED <<role, serverVars, shownVars, clicks>>

-----------------------------------------------------------------------------
(* Buttons *)

Click(r) ==
  /\ Loaded /\ clicks < MaxClicks
  /\ ~Pending(r)
  /\ ask' = [ask EXCEPT ![r] = Sent]
  /\ clicks' = clicks + 1
  /\ UNCHANGED <<role, serverVars, shownVars>>

CanRequestBooking == ~IsDriver /\ seen.status \in {"OPEN", "READY"}
CanJoinWaitlist == ~IsDriver /\ seen.status = "FULL"
CanExportCsv == IsDriver /\ seen.seated

Offered(r) ==
  CASE r = "confirm" -> IsDriver /\ seen.status = "READY"
    [] r = "cancel"  -> IsDriver /\ seen.status \notin Over
    [] r = "export"  -> CanExportCsv
    [] r = "request" -> CanRequestBooking
    [] r = "join"    -> CanJoinWaitlist /\ ~entry
    [] r = "leave"   -> CanJoinWaitlist /\ entry

\* Faulty variant: each button looks after itself only.
ActAnyTime(r) == r \in Acting /\ Loaded /\ Offered(r) /\ Click(r)

\* confirm, cancel and exportCsv share actionPending.
Act(r) == r \in Acting /\ Loaded /\ Offered(r) /\ ~ActionPending /\ Click(r)

RequestSeats == Loaded /\ Offered("request") /\ Click("request")

\* joinWaitlist and leaveWaitlist share waitlistPending.
Queue(r) ==
  /\ r \in {"join", "leave"} /\ Loaded /\ Offered(r)
  /\ ~WaitlistPending /\ Click(r)

ShowChat == chatFlag = "on" /\ (IsDriver \/ confirmed)

-----------------------------------------------------------------------------
TripServer ==
  \/ \E r \in {"features", "trip", "export", "membership", "entries"} : ServeRead(r)
  \/ ServeConfirm \/ ServeCancel \/ ServeRequest \/ ServeJoin \/ ServeLeave

TripWorld ==
  \/ \E to \in Statuses : TripMoves(to)
  \/ \E to \in {"CONFIRMED", "none"} : BookingMoves(to)

TripAnswers ==
  \/ \E flag \in {"on", "off"} : FlagsArrive(flag)
  \/ TripArrivesAtPage \/ MembershipArrives \/ EntriesArrive
  \/ \E r \in Asks : ActionArrives(r) \/ QueueArrives(r)

TripClicks == (\E r \in Asks : Act(r) \/ Queue(r)) \/ RequestSeats

TripPageNext ==
  \/ TripServer \/ TripWorld \/ TripAnswers \/ TripClicks
  \/ \E r \in Asks : AskFails(r)

TripPageSpec == TripPageInit /\ [][TripPageNext]_tripPageVars

-----------------------------------------------------------------------------
(* Properties *)

Rank(status) == IF status \in Bookable THEN 0 ELSE IF status = "CONFIRMED" THEN 1 ELSE 2

\* A page that has shown the trip confirmed does not show it open again, nor
\* one it has shown as over, though confirm, cancel and the manifest answer
\* in any order (actionPending of trip-details.ts).
ShownTripNeverStepsBack ==
  [][Loaded => seen' # Unloaded /\ Rank(seen'.status) >= Rank(seen.status)]_tripPageVars

\* A passenger whose booking is and stays confirmed gets the chat whenever it
\* is switched on and his three requests are answered, whichever of the flags
\* and the trip comes first (maybeLoadMembership runs for both).
ChatShowsForMember ==
  chatOn /\ [](booked = "CONFIRMED") /\ [](chatFlag # "off")
    /\ [](\A r \in {"trip", "membership"} : ask[r].at # "failed")
  => <>ShowChat
=============================================================================
