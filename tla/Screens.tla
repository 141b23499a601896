------------------------------- MODULE Screens -------------------------------
(***************************************************************************)
(* The pages of the frontend a driver or a passenger works with: vehicles, *)
(* the trip form, the list of rides, the page of a trip, the dashboards.   *)
(* A user has one of them open; they keep no state in common.              *)
(***************************************************************************)
EXTENDS Garage, TripForm, TripBrowse, TripPage, Dashboards

VARIABLE screen  \* the page that is open

screenVars == <<screen, garageVars, tripFormVars, browseVars, tripPageVars, dashVars>>

\* A page that is not open stays in one of its initial states.
Init ==
  /\ screen \in {"vehicles", "form", "browse", "trip", "dashboards"}
  /\ GarageInit /\ TripFormInit /\ BrowseInit /\ TripPageInit /\ DashInit
  /\ screen # "vehicles" =>
       ride = [t \in Rides |-> Nothing] /\ given = {CHOOSE v \in Vehicles : TRUE}
  /\ screen # "form" => form.gig = Unset /\ ~editing /\ zone = 0
  /\ screen # "browse" =>
       wish = (CHOOSE w \in Wishes : TRUE) /\ offer = [t \in Lifts |-> "offered"]
  /\ screen # "trip" => role = "driver" /\ chatOn /\ tripStatus = "OPEN"
  /\ screen # "dashboards" => \A b \in Bookings \ Past : status[b] = "PENDING"

Next ==
  /\ UNCHANGED screen
  /\ \/ /\ screen = "vehicles" /\ GarageNext
        /\ UNCHANGED <<tripFormVars, browseVars, tripPageVars, dashVars>>
     \/ /\ screen = "form" /\ TripFormNext
        /\ UNCHANGED <<garageVars, browseVars, tripPageVars, dashVars>>
     \/ /\ screen = "browse" /\ BrowseNext
        /\ UNCHANGED <<garageVars, tripFormVars, tripPageVars, dashVars>>
     \/ /\ screen = "trip" /\ TripPageNext
        /\ UNCHANGED <<garageVars, tripFormVars, browseVars, dashVars>>
     \/ /\ screen = "dashboards" /\ DashNext
        /\ UNCHANGED <<garageVars, tripFormVars, browseVars, tripPageVars>>

Spec == Init /\ [][Next]_screenVars

\* While the page of a trip is open the server answers what it was asked, and
\* answers arrive; each may also be lost.  Nobody need click.
Fairness ==
  /\ \A r \in {"features", "trip", "membership"} :
       WF_tripPageVars(screen = "trip" /\ ServeRead(r))
  /\ WF_tripPageVars(screen = "trip" /\ \E flag \in {"on", "off"} : FlagsArrive(flag))
  /\ WF_tripPageVars(screen = "trip" /\ TripArrivesAtPage)
  /\ WF_tripPageVars(screen = "trip" /\ MembershipArrives)

FairSpec == Spec /\ Fairness

\* A passenger who looks at a trip gets its chat (ChatShowsForMember).
MemberGetsChat == screen = "trip" => ChatShowsForMember
=============================================================================
