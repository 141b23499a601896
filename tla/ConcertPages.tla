---------------------------- MODULE ConcertPages ----------------------------
(***************************************************************************)
(* Pages over the concert cache: the search page and the picker of the     *)
(* trip form, which share one pipeline (debounce, distinct, switchMap:     *)
(* concert-search.ts, concert-picker.ts), and the details page with the    *)
(* weather of the concert's day (concert-details.ts, concerts.service.ts,  *)
(* open-meteo.service.ts, open-meteo.forecast.ts).                         *)
(***************************************************************************)
EXTENDS ConcertCache, Integers

CONSTANTS
  Default,    \* the query a page starts with
  NoSearch,
  DayLength,  \* instants of a day
  Offset,     \* utc_offset_seconds of the venues
  Window,     \* local days in the answer of Open-Meteo
  Located     \* concerts with coordinates

ASSUME PageAssumption ==
  /\ Default \in Queries
  /\ NoSearch \notin Searches
  /\ DayLength \in Nat \ {0} /\ Offset \in Int
  /\ Window \subseteq Int
  /\ Located \subseteq Concerts

VARIABLES
  kind,     \* the page somebody looks at
  typed,    \* the filters its form has emitted last
  emptied,  \* whether the picker has emptied the input since
  timer,    \* whether debounceTime is running
  asked,    \* what distinctUntilChanged has let through
  current,  \* the request switchMap listens to
  loading,  \* loading()
  failed,   \* searchFailed()
  shown,    \* results()
  from,     \* auxiliary: the request that results() came from
  details,  \* the details page: its concert and both requests
  starts    \* auxiliary: starts its row has had since the page was opened

pageVars == <<kind, typed, emptied, timer, asked, current, loading, failed, shown, from>>
detailVars == <<details, starts>>
vars == <<cacheVars, pageVars, detailVars>>

-----------------------------------------------------------------------------
(* The weather.                                                            *)

\* Faulty variant: the day of an instant in UTC.
UtcDay(t) == t \div DayLength

\* localDateFromUtc
LocalDay(t) == (t + Offset) \div DayLength

NoForecast == [status |-> "none"]

\* mapDailyForecast: the row of the concert's local day. A row that lacks a
\* number is an unavailable provider, which GetWeatherFails stands for.
MapDailyForecast(t) ==
  IF LocalDay(t) \in Window THEN [status |-> "ok", day |-> LocalDay(t)]
  ELSE [status |-> "out_of_range"]

-----------------------------------------------------------------------------
(* The pipeline of the search page and of the picker.                      *)

Kinds == {"list", "details"}
HasPipeline == kind = "list"
Closed == [at |-> "closed"]

Init ==
  /\ CacheInit
  /\ kind \in Kinds
  /\ typed = Default
  /\ emptied = FALSE
  /\ timer = HasPipeline
  /\ asked = NoQuery
  /\ current = NoSearch
  /\ loading = HasPipeline
  /\ failed = FALSE
  /\ shown = {}
  /\ from = NoSearch
  /\ details = Closed
  /\ starts = {}

Unsent == {s \in Searches : search[s] = "idle"}

\* A keystroke. It restarts the debounce.
Type(q) ==
  /\ HasPipeline /\ Unsent # {} /\ (q # typed \/ emptied)
  /\ typed' = q
  /\ emptied' = FALSE
  /\ timer' = TRUE
  /\ UNCHANGED <<cacheVars, kind, asked, current, loading, failed, shown, from, detailVars>>

\* 300 ms without a keystroke, and the same query as before.
DebounceSame ==
  /\ timer /\ typed = asked
  /\ timer' = FALSE
  /\ UNCHANGED <<cacheVars, kind, typed, emptied, asked, current, loading, failed, shown, from, detailVars>>

\* 300 ms without a keystroke, and another query: the request under way is
\* dropped (the server goes on with it), a new one is sent.
DebounceFires(s) ==
  /\ timer /\ typed # asked
  /\ SendSearch(s, typed)
  /\ timer' = FALSE
  /\ asked' = typed
  /\ current' = s
  /\ loading' = TRUE
  /\ failed' = FALSE
  /\ UNCHANGED <<kind, typed, emptied, shown, from, detailVars>>

\* Faulty variant: mergeMap, which listens to every request.
AnyAnswerArrives(s) ==
  /\ search[s] = "done" /\ current # NoSearch /\ from # s
  /\ shown' = answer[s]
  /\ loading' = FALSE
  /\ from' = s
  /\ current' = IF current = s THEN NoSearch ELSE current
  /\ UNCHANGED <<cacheVars, kind, typed, emptied, timer, asked, failed, detailVars>>

\* The answer of the current request.
AnswerArrives(s) ==
  /\ current = s /\ search[s] = "done"
  /\ shown' = answer[s]
  /\ loading' = FALSE
  /\ from' = s
  /\ current' = NoSearch
  /\ UNCHANGED <<cacheVars, kind, typed, emptied, timer, asked, failed, detailVars>>

\* Faulty variant: no catchError, and the stream ends with loading() still set.
StreamDies(s) ==
  /\ current = s
  /\ failed' = TRUE
  /\ shown' = {}
  /\ from' = NoSearch
  /\ current' = NoSearch
  /\ UNCHANGED <<cacheVars, kind, typed, emptied, timer, asked, loading, detailVars>>

\* The request fails on its way; catchError keeps the stream alive.
RequestFails(s) ==
  /\ current = s
  /\ failed' = TRUE
  /\ shown' = {}
  /\ loading' = FALSE
  /\ from' = NoSearch
  /\ current' = NoSearch
  /\ UNCHANGED <<cacheVars, kind, typed, emptied, timer, asked, detailVars>>

\* select() of the picker: the input is emptied without an event, so neither the
\* debounce nor the request under way hears of it.
PickerSelects ==
  /\ HasPipeline /\ shown # {}
  /\ emptied' = TRUE
  /\ UNCHANGED <<cacheVars, kind, typed, timer, asked, current, loading, failed, shown, from, detailVars>>

-----------------------------------------------------------------------------
(* The details page: both requests at once, zipped.                        *)

OpenDetails(c) ==
  /\ kind = "details" /\ details = Closed /\ c \in stored
  /\ details' = [at |-> "asked", concert |-> c, data |-> "asked", weather |-> "asked",
                 start |-> startAt[c], forecast |-> NoForecast]
  /\ starts' = {startAt[c]}
  /\ UNCHANGED <<cacheVars, pageVars>>

Waits(request) == details.at = "asked" /\ details[request] = "asked"

\* getDetails: hidden or not, the concert and its trips are found.
GetDetails ==
  /\ Waits("data")
  /\ details' = [details EXCEPT !.data = "ok"]
  /\ UNCHANGED <<cacheVars, pageVars, starts>>

\* getWeather, up to its first await: the concert's row and its coordinates.
FindWeather ==
  /\ Waits("weather")
  /\ details' = IF details.concert \in Located
                  THEN [details EXCEPT !.weather = "forecast", !.start = startAt[details.concert]]
                  ELSE [details EXCEPT !.weather = "ok"]
  /\ UNCHANGED <<cacheVars, pageVars, starts>>

\* getForecastForDate, with an answer of Open-Meteo
GetForecast ==
  /\ details.at = "asked" /\ details.weather = "forecast"
  /\ details' = [details EXCEPT !.weather = "ok", !.forecast = MapDailyForecast(details.start)]
  /\ UNCHANGED <<cacheVars, pageVars, starts>>

\* getForecastForDate failing, or the request for the weather: caught, the
\* page shows the rest.
GetWeatherFails ==
  /\ details.at = "asked" /\ details.weather \in {"asked", "forecast"}
  /\ details' = [details EXCEPT !.weather = "ok", !.forecast = NoForecast]
  /\ UNCHANGED <<cacheVars, pageVars, starts>>

\* zip emits when both have answered.
ShowDetails ==
  /\ details.at = "asked" /\ details.data = "ok" /\ details.weather = "ok"
  /\ details' = [details EXCEPT !.at = "shown"]
  /\ UNCHANGED <<cacheVars, pageVars, starts>>

\* The request for the details fails: the page gives up at once.
DetailsFail ==
  /\ Waits("data")
  /\ details' = [details EXCEPT !.at = "failed"]
  /\ UNCHANGED <<cacheVars, pageVars, starts>>

CloseDetails ==
  /\ details.at \in {"shown", "failed"}
  /\ details' = Closed
  /\ starts' = {}
  /\ UNCHANGED <<cacheVars, pageVars>>

-----------------------------------------------------------------------------

\* On the details page, the requests are those of other visitors (bound: of
\* one query).
OthersSearch(s) == ~HasPipeline /\ SendSearch(s, Default)

\* A step of the cache, with the history of the row the details page is about.
Server ==
  /\ CacheNext \/ \E s \in Searches : OthersSearch(s)
  /\ starts' = IF details.at = "closed" THEN starts ELSE starts \cup {startAt'[details.concert]}
  /\ UNCHANGED <<pageVars, details>>

PageStep ==
  \/ \E q \in Queries : Type(q)
  \/ DebounceSame
  \/ \E s \in Searches : DebounceFires(s) \/ AnswerArrives(s) \/ RequestFails(s)
  \/ PickerSelects

WeatherStep == FindWeather \/ GetForecast \/ GetWeatherFails

DetailStep ==
  \/ \E c \in Concerts : OpenDetails(c)
  \/ GetDetails \/ WeatherStep \/ ShowDetails \/ DetailsFail \/ CloseDetails

Next == Server \/ PageStep \/ DetailStep

Spec == Init /\ [][Next]_vars

(***************************************************************************)
(* Handlers and timers run on; every call to a provider has a time limit,  *)
(* and answers that are there are delivered. Nothing obliges a provider to *)
(* answer, a person to type, or an admin to finish.                        *)
(***************************************************************************)
Fairness ==
  /\ \A s \in Searches :
       /\ WF_vars(SearchStep(s) /\ UNCHANGED <<pageVars, details>>
                  /\ starts' = IF details.at = "closed" THEN starts
                               ELSE starts \cup {startAt'[details.concert]})
       /\ WF_vars(AnswerArrives(s))
  /\ WF_vars(DebounceSame \/ \E s \in Searches : DebounceFires(s))
  /\ WF_vars(GetDetails) /\ WF_vars(WeatherStep) /\ WF_vars(ShowDetails)

FairSpec == Spec /\ Fairness

-----------------------------------------------------------------------------
(* Properties.                                                             *)

\* The type of every variable.
TypeOK ==
  /\ CacheTypeOK
  /\ kind \in Kinds
  /\ typed \in Queries
  /\ emptied \in BOOLEAN
  /\ timer \in BOOLEAN
  /\ asked \in Queries \cup {NoQuery}
  /\ current \in Searches \cup {NoSearch}
  /\ loading \in BOOLEAN
  /\ failed \in BOOLEAN
  /\ shown \subseteq Concerts
  /\ from \in Searches \cup {NoSearch}
  /\ details.at \in {"closed", "asked", "shown", "failed"}
  /\ starts \subseteq Starts

Settled == HasPipeline /\ ~timer /\ ~loading /\ ~failed

\* Once a page has settled, its results answer the query it asked last, and are
\* what the cache held at a moment after it was asked. That is the query typed last:
\* late answers to older queries never show.
SettledPageIsRight ==
  Settled =>
    /\ from # NoSearch /\ asks[from] = asked
    /\ shown \in moments[from]
    /\ asked = typed

\* A forecast on the details page is that of the venue's own calendar day of a
\* start the concert has had while the page was loading, and never of another day.
ForecastIsOfTheDay ==
  details.at = "shown" /\ details.forecast.status = "ok" =>
    LET midnight == details.forecast.day * DayLength - Offset
    IN \E t \in starts : midnight <= t /\ t < midnight + DayLength

\* A page stops loading, and the details page shows or gives up, even when no
\* provider ever answers.
PagesSettle ==
  /\ loading ~> ~loading
  /\ details.at = "asked" ~> details.at # "asked"

=============================================================================
