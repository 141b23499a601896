----------------------------- MODULE TripBrowse -----------------------------
(***************************************************************************)
(* The list of shared rides: the page with its filters (trip-list.ts) and  *)
(* TripsService.list, which reads the trips, their confirmed seats and the *)
(* ratings of their drivers one after the other while bookings, reviews    *)
(* and the sweep go on.                                                    *)
(*                                                                         *)
(* The price at a number of seats is PricingService.calculate (LivePrice), *)
(* a rating the rounded average of a driver's reviews.                     *)
(***************************************************************************)
EXTENDS Naturals, FiniteSets, Functions

CONSTANTS
  Lifts,       \* trips that exist or will
  LiftInfo,    \* lift -> kind (concert and vehicle type), first stop, driver, seats, departure
  Drivers,
  Grades,      \* ratings
  Unrated,
  FareAt,      \* lift -> confirmed seats -> price of a seat
  NoFilter,    \* a filter left empty
  Wishes,      \* what somebody sets the filters to
  Fetches,     \* list requests of the page
  NoFetch,
  PageSize,    \* TRIPS_PAGE_SIZE
  MaxShifts    \* bound: changes of trips, bookings and reviews

ASSUME BrowseAssumption ==
  /\ IsFiniteSet(Lifts)
  /\ \A t \in Lifts :
       /\ LiftInfo[t].driver \in Drivers /\ LiftInfo[t].seats \in Nat \ {0}
       /\ LiftInfo[t].departure \in Nat
       /\ \A n \in 0..LiftInfo[t].seats : FareAt[t][n] \in Nat
  /\ \A t, u \in Lifts : LiftInfo[t].departure = LiftInfo[u].departure => t = u
  /\ Grades \subseteq Nat /\ Unrated \notin Grades
  /\ NoFetch \notin Fetches
  /\ PageSize \in Nat \ {0} /\ MaxShifts \in Nat

VARIABLES
  offer,     \* lift -> "unborn", "offered", or "hidden" (BROWSE_HIDDEN_STATUSES)
  taken,     \* lift -> its confirmed seats
  rating,    \* driver -> his rating
  wish,      \* the filters as they are set
  pause,     \* whether debounceTime is running
  fetch,     \* request -> where it stands, and what has been read for it
  listening, \* the request switchMap listens to
  cards,     \* trips(): the list on the page, in order
  waiting,   \* loading()
  shifts,
  source,    \* auxiliary: the request the list came from
  steady     \* auxiliary: lifts that have met its filters ever since it was sent

roadVars == <<offer, taken, rating, shifts>>
listPageVars == <<wish, pause, listening, cards, waiting, source>>
browseVars == <<roadVars, listPageVars, fetch, steady>>

Unfetched == [at |-> "idle", wish |-> NoFilter, page |-> {}, cut |-> FALSE, seats |-> NoFilter, answer |-> <<>>]

-----------------------------------------------------------------------------
(* The server *)

Wants(filter, holds) == filter = NoFilter \/ holds

\* The filters of the query of loadTripsWithRelations.
Candidates(w) ==
  {t \in Lifts : offer[t] = "offered" /\ Wants(w.kind, w.kind = LiftInfo[t].kind)}

\* matchesDeparture
StartsFrom(t, place) == LiftInfo[t].from = place

SeatsLeft(t, seats) == LiftInfo[t].seats - seats

\* The filters of hydrateTrips; a driver without reviews meets no minimum.
Passes(t, w, seats, grade) ==
  /\ Wants(w.maxPrice, FareAt[t][seats] <= w.maxPrice)
  /\ Wants(w.seatsMin, SeatsLeft(t, seats) >= w.seatsMin)
  /\ Wants(w.from, StartsFrom(t, w.from))
  /\ Wants(w.minRating, grade # Unrated /\ grade >= w.minRating)

\* The order of the list; Array.sort is stable, and starts from departures.
Before(w, s, t, u) ==
  LET m == s[t] * LiftInfo[u].seats
      n == s[u] * LiftInfo[t].seats
      sooner == LiftInfo[t].departure < LiftInfo[u].departure
  IN CASE w.sort = "cheapest" ->
            FareAt[t][s[t]] < FareAt[u][s[u]] \/ (FareAt[t][s[t]] = FareAt[u][s[u]] /\ sooner)
       [] w.sort = "likely" -> m > n \/ (m = n /\ sooner)
       [] OTHER -> sooner

\* Array.sort: the trips of S, in that order.
Sorted(w, s, S) ==
  {o \in Bijection(1..Cardinality(S), S) :
     \A i, j \in DOMAIN o : i < j => Before(w, s, o[i], o[j])}

\* The earliest PageSize of some trips.
FirstPage(S) ==
  {t \in S : Cardinality({u \in S : LiftInfo[u].departure < LiftInfo[t].departure}) < PageSize}

SendList(f, w) == fetch' = [fetch EXCEPT ![f] = [Unfetched EXCEPT !.at = "sent", !.wish = w]]

Finds(f, page) ==
  LET w == fetch[f].wish
  IN fetch' = [fetch EXCEPT ![f].at = "trips", ![f].page = page,
                            ![f].cut = Cardinality(Candidates(w)) > PageSize]

\* Faulty variant: hidden trips take up the page before they are left out.
ReadTripsThenHide(f) ==
  /\ fetch[f].at = "sent"
  /\ Finds(f, FirstPage({t \in Lifts : offer[t] # "unborn"}) \cap Candidates(fetch[f].wish))
  /\ UNCHANGED <<roadVars, listPageVars, steady>>

\* loadTripsWithRelations
ReadTrips(f) ==
  /\ fetch[f].at = "sent"
  /\ Finds(f, FirstPage(Candidates(fetch[f].wish)))
  /\ UNCHANGED <<roadVars, listPageVars, steady>>

\* countConfirmedSeatsFor
CountSeats(f) ==
  /\ fetch[f].at = "trips"
  /\ fetch' = [fetch EXCEPT ![f].at = "seats", ![f].seats = [t \in fetch[f].page |-> taken[t]]]
  /\ UNCHANGED <<roadVars, listPageVars, steady>>

Card(t, seats, grade) == [trip |-> t, seats |-> seats, rating |-> grade]

\* aggregateByDriverIds, and the rest of hydrateTrips.
RateDrivers(f) ==
  /\ fetch[f].at = "seats"
  /\ LET s == fetch[f].seats
         w == fetch[f].wish
         grade(t) == rating[LiftInfo[t].driver]
         passing == {t \in fetch[f].page : Passes(t, w, s[t], grade(t))}
     IN \E sorted \in Sorted(w, s, passing) :
        fetch' = [fetch EXCEPT ![f] =
          [Unfetched EXCEPT !.at = "served", !.wish = w, !.cut = fetch[f].cut,
             !.answer = [i \in DOMAIN sorted |-> Card(sorted[i], s[sorted[i]], grade(sorted[i]))]]]
  /\ UNCHANGED <<roadVars, listPageVars, steady>>

-----------------------------------------------------------------------------
(* Trips, bookings and reviews *)

MeetsNow(w) ==
  {t \in Candidates(w) : Passes(t, w, taken[t], rating[LiftInfo[t].driver])}

Shift ==
  /\ shifts < MaxShifts /\ shifts' = shifts + 1
  /\ UNCHANGED <<listPageVars, fetch>>
  /\ steady' = IF listening = NoFetch THEN steady ELSE steady \cap MeetsNow(fetch[listening].wish)'

\* A driver publishes a trip; it is cancelled, or it takes place.
OfferMoves(t, to) ==
  /\ <<offer[t], to>> \in {<<"unborn", "offered">>, <<"offered", "hidden">>}
  /\ offer' = [offer EXCEPT ![t] = to]
  /\ UNCHANGED <<taken, rating>>
  /\ Shift

\* Bookings are accepted and cancelled.
SeatsMove(t, seats) ==
  /\ offer[t] = "offered" /\ seats # taken[t]
  /\ taken' = [taken EXCEPT ![t] = seats]
  /\ UNCHANGED <<offer, rating>>
  /\ Shift

\* A review changes the average.
RatingMoves(d, grade) ==
  /\ grade # rating[d]
  /\ rating' = [rating EXCEPT ![d] = grade]
  /\ UNCHANGED <<offer, taken>>
  /\ Shift

-----------------------------------------------------------------------------
(* The page *)

\* The page opens with any filters (bound: one trip to come, one that is over).
BrowseInit ==
  /\ offer \in [Lifts -> {"unborn", "offered", "hidden"}]
  /\ \A t, u \in Lifts : offer[t] = offer[u] /\ t # u => offer[t] = "offered"
  /\ taken = [t \in Lifts |-> 0]
  /\ rating = [d \in Drivers |-> Unrated]
  /\ wish \in Wishes
  /\ pause = TRUE
  /\ fetch = [f \in Fetches |-> Unfetched]
  /\ listening = NoFetch
  /\ cards = <<>>
  /\ waiting = TRUE
  /\ shifts = 0
  /\ source = NoFetch
  /\ steady = {}

\* A control of the filters emits; the debounce starts again.
SetFilters(w) ==
  /\ \E f \in Fetches : fetch[f].at = "idle"
  /\ w # wish
  /\ wish' = w
  /\ pause' = TRUE
  /\ UNCHANGED <<roadVars, fetch, steady, listening, cards, waiting, source>>

\* 300 ms later: the request under way is dropped, a new one is sent.
FiltersSettle(f) ==
  /\ pause /\ fetch[f].at = "idle"
  /\ SendList(f, wish)
  /\ pause' = FALSE
  /\ listening' = f
  /\ steady' = MeetsNow(wish)
  /\ UNCHANGED <<roadVars, wish, cards, waiting, source>>

Shows(list, f) ==
  /\ cards' = list
  /\ waiting' = FALSE
  /\ source' = f

Closes(f, at) == fetch' = [fetch EXCEPT ![f].at = at, ![f].answer = <<>>]

\* The answer to the current request.
ListArrives(f) ==
  /\ listening = f /\ fetch[f].at = "served"
  /\ Shows(fetch[f].answer, f) /\ Closes(f, "shown")
  /\ listening' = NoFetch
  /\ UNCHANGED <<roadVars, wish, pause, steady>>

\* It fails, or it is refused: catchError makes that an empty list.
ListFails(f) ==
  /\ listening = f
  /\ Shows(<<>>, NoFetch) /\ Closes(f, "failed")
  /\ listening' = NoFetch
  /\ UNCHANGED <<roadVars, wish, pause, steady>>

-----------------------------------------------------------------------------
RoadMoves ==
  \/ \E t \in Lifts, to \in {"offered", "hidden"} : OfferMoves(t, to)
  \/ \E t \in Lifts : \E seats \in 0..LiftInfo[t].seats : SeatsMove(t, seats)
  \/ \E d \in Drivers, grade \in Grades : RatingMoves(d, grade)

ListServer == \E f \in Fetches : ReadTrips(f) \/ CountSeats(f) \/ RateDrivers(f)

ListPage ==
  \/ \E w \in Wishes : SetFilters(w)
  \/ \E f \in Fetches : FiltersSettle(f) \/ ListArrives(f) \/ ListFails(f)

BrowseNext == RoadMoves \/ ListServer \/ ListPage

BrowseSpec == BrowseInit /\ [][BrowseNext]_browseVars

-----------------------------------------------------------------------------
(* Properties *)

ListSettled == ~pause /\ listening = NoFetch /\ source # NoFetch

\* The list on the page answers the filters as they were set last, and misses no
\* trip that was on offer and met them all from the moment it was asked for until
\* it came, whatever the trips, bookings and reviews did between its three reads;
\* a page of PageSize trips may (loadTripsWithRelations, hydrateTrips; switchMap).
NothingMissed ==
  ListSettled =>
    /\ fetch[source].wish = wish
    /\ fetch[source].cut \/ steady \subseteq {cards[i].trip : i \in DOMAIN cards}
=============================================================================
