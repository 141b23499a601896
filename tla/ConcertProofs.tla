---------------------------- MODULE ConcertProofs ----------------------------
(***************************************************************************)
(* What the concert cache and its pages keep true for any events, queries, *)
(* requests and time zones.                                                *)
(***************************************************************************)
EXTENDS ConcertPages, TLAPS

-----------------------------------------------------------------------------
(* The day of an instant *)

\* LocalDay finds the day an instant lies in, whatever the offset.
LEMMA InstantOfItsDay ==
  ASSUME NEW t \in Int
  PROVE  /\ LocalDay(t) \in Int
         /\ LocalDay(t) * DayLength - Offset <= t
         /\ t < LocalDay(t) * DayLength - Offset + DayLength
<1> DEFINE n == t + Offset
<1>1. n \in Int /\ DayLength \in Nat \ {0} /\ Offset \in Int
  BY PageAssumption
<1>2. /\ n \div DayLength \in Int
      /\ (n \div DayLength) * DayLength <= n
      /\ n < (n \div DayLength) * DayLength + DayLength
  BY <1>1, SMT
<1> QED
  BY <1>1, <1>2 DEF LocalDay

-----------------------------------------------------------------------------
(* The cache *)

Found == [at : {"found"}, concert : Concerts, hide : BOOLEAN, start : Starts]

Compared == [at : {"compared"}, concert : Concerts, hide : BOOLEAN, start : Starts,
             flip : BOOLEAN, move : BOOLEAN]

RowsTyped ==
  /\ startAt \in [Concerts -> Starts]
  /\ stored \in SUBSET Concerts
  /\ announced \in [Events -> Starts]
  /\ \A s \in Searches : DOMAIN fetched[s] \subseteq Events /\ \A e \in DOMAIN fetched[s] : fetched[s][e] \in Starts
  /\ fetched = [s \in Searches |-> fetched[s]]
  /\ admin \in {Nothing} \cup Found \cup Compared

SearchesTyped ==
  /\ search \in [Searches -> SearchStages]
  /\ asks = [s \in Searches |-> asks[s]]
  /\ answer = [s \in Searches |-> answer[s]]
  /\ moments = [s \in Searches |-> moments[s]]

\* A request under way has witnessed what the cache holds now; one that went to
\* the provider has seen it empty.
MomentsInv ==
  \A s \in Searches :
    /\ Running(s) => SearchCache(asks[s]) \in moments[s]
    /\ search[s] = "provider" => {} \in moments[s]
    /\ search[s] = "done" => answer[s] \in moments[s]
    /\ search[s] # "idle" => asks[s] \in Queries

CacheInv == RowsTyped /\ SearchesTyped /\ MomentsInv

\* An answer, once given, is not taken back; nor is a question.
AnswersKept ==
  \A s \in Searches :
    /\ search[s] # "idle" => search'[s] # "idle" /\ asks'[s] = asks[s]
    /\ search[s] = "done" => search'[s] = "done" /\ answer'[s] = answer[s]

-----------------------------------------------------------------------------

LEMMA CacheInvInit == Init => CacheInv
<1> SUFFICES ASSUME Init PROVE CacheInv
  OBVIOUS
<1>1. (CHOOSE t \in Starts : TRUE) \in Starts
  BY CacheAssumption
<1>2. Events \subseteq Concerts
  BY DEF Concerts
<1>3. RowsTyped
  BY <1>1, <1>2 DEF Init, CacheInit, RowsTyped, Found, Compared
<1>4. SearchesTyped /\ MomentsInv
  BY DEF Init, CacheInit, SearchesTyped, MomentsInv, SearchStages, Running
<1> QED
  BY <1>3, <1>4 DEF CacheInv

\* A step that leaves the rows and Observes nothing.
LEMMA OneSearchMoves ==
  ASSUME CacheInv, NEW s \in Searches, NEW stage \in SearchStages \ {"idle"}, NEW found,
         search[s] \notin {"idle", "done"},
         UNCHANGED <<stored, hidden, asks, moments>>,
         search' = [search EXCEPT ![s] = stage],
         \/ answer' = answer /\ stage # "done"
         \/ answer' = [answer EXCEPT ![s] = found] /\ found \in moments[s],
         stage = "provider" => {} \in moments[s]
  PROVE  SearchesTyped' /\ MomentsInv' /\ AnswersKept
<1>1. SearchesTyped'
  BY DEF CacheInv, SearchesTyped
<1>2. \A q \in Searches \ {s} : search'[q] = search[q] /\ answer'[q] = answer[q]
  BY DEF CacheInv, SearchesTyped
<1>3. search'[s] = stage /\ (answer'[s] = found \/ (answer'[s] = answer[s] /\ stage # "done"))
  BY DEF CacheInv, SearchesTyped
<1>4. \A q \in Searches : SearchCache(asks[q])' = SearchCache(asks[q])
  BY DEF SearchCache
<1>5. Running(s)
  BY DEF Running
<1>6. ASSUME NEW q \in Searches
      PROVE  /\ Running(q)' => SearchCache(asks[q])' \in moments'[q]
             /\ search'[q] = "provider" => {} \in moments'[q]
             /\ search'[q] = "done" => answer'[q] \in moments'[q]
             /\ search'[q] # "idle" => asks'[q] \in Queries
  <2>1. CASE q = s
    BY <1>3, <1>4, <1>5, <2>1 DEF CacheInv, MomentsInv
  <2>2. CASE q # s
    BY <1>2, <1>4, <2>2 DEF CacheInv, MomentsInv, Running
  <2> QED
    BY <2>1, <2>2
<1>7. MomentsInv'
  BY <1>6 DEF MomentsInv
<1>8. AnswersKept
  BY <1>2, <1>3 DEF AnswersKept
<1> QED
  BY <1>1, <1>7, <1>8

\* A step that changes rows: every request under way witnesses them.
LEMMA ObserveKeeps ==
  ASSUME CacheInv, Observe, UNCHANGED <<asks, answer>>,
         search' \in [Searches -> SearchStages],
         \A s \in Searches :
           search'[s] = search[s] \/ (search[s] = "upsert" /\ search'[s] = "requery")
  PROVE  SearchesTyped' /\ MomentsInv' /\ AnswersKept
<1>1. SearchesTyped'
  BY DEF CacheInv, SearchesTyped, Observe
<1>2. ASSUME NEW s \in Searches
      PROVE  /\ Running(s)' => SearchCache(asks[s])' \in moments'[s]
             /\ search'[s] = "provider" => {} \in moments'[s]
             /\ search'[s] = "done" => answer'[s] \in moments'[s]
             /\ search'[s] # "idle" => asks'[s] \in Queries
  <2>1. moments[s] \subseteq moments'[s]
    BY DEF Observe
  <2>2. Running(s)' => Running(s)
    BY DEF Running
  <2>3. Running(s) => SearchCache(asks[s])' \in moments'[s]
    BY DEF Observe, SearchCache
  <2> QED
    BY <2>1, <2>2, <2>3 DEF CacheInv, MomentsInv
<1>3. MomentsInv'
  BY <1>2 DEF MomentsInv
<1>4. AnswersKept
  BY DEF AnswersKept
<1> QED
  BY <1>1, <1>3, <1>4

\* A step that touches no request and no visible row.
LEMMA QuietKeeps ==
  ASSUME CacheInv, UNCHANGED <<stored, hidden, asks, search, answer, moments>>
  PROVE  SearchesTyped' /\ MomentsInv' /\ AnswersKept
  BY DEF CacheInv, SearchesTyped, MomentsInv, Running, SearchCache, AnswersKept

LEMMA SendKeeps ==
  ASSUME CacheInv, NEW s \in Searches, NEW q \in Queries, SendSearch(s, q)
  PROVE  CacheInv' /\ AnswersKept /\ search'[s] = "cache" /\ asks'[s] = q
<1>1. /\ search[s] = "idle" /\ search' = [search EXCEPT ![s] = "cache"]
      /\ asks' = [asks EXCEPT ![s] = q]
      /\ moments' = [moments EXCEPT ![s] = {SearchCache(q)}]
      /\ UNCHANGED <<stored, hidden, startAt, announced, fetched, answer, admin>>
  BY DEF SendSearch, rowVars, providerVars, adminVars
<1>2. RowsTyped'
  BY <1>1 DEF CacheInv, RowsTyped
<1>3. SearchesTyped'
  BY <1>1 DEF CacheInv, SearchesTyped, SearchStages
<1>4. /\ search'[s] = "cache" /\ asks'[s] = q /\ moments'[s] = {SearchCache(q)}
      /\ \A r \in Searches \ {s} :
           search'[r] = search[r] /\ asks'[r] = asks[r] /\ moments'[r] = moments[r]
  BY <1>1 DEF CacheInv, SearchesTyped
<1>5. \A r : SearchCache(r)' = SearchCache(r)
  BY <1>1 DEF SearchCache
<1>6. ASSUME NEW r \in Searches
      PROVE  /\ Running(r)' => SearchCache(asks[r])' \in moments'[r]
             /\ search'[r] = "provider" => {} \in moments'[r]
             /\ search'[r] = "done" => answer'[r] \in moments'[r]
             /\ search'[r] # "idle" => asks'[r] \in Queries
  <2>1. CASE r = s
    BY <1>1, <1>4, <2>1 DEF SearchCache
  <2>2. CASE r # s
    BY <1>1, <1>4, <2>2 DEF CacheInv, MomentsInv, Running, SearchCache
  <2> QED
    BY <2>1, <2>2
<1>7. MomentsInv'
  BY <1>6 DEF MomentsInv
<1>8. AnswersKept
  BY <1>1, <1>4 DEF AnswersKept
<1> QED
  BY <1>2, <1>3, <1>4, <1>7, <1>8 DEF CacheInv

LEMMA CacheStep == CacheInv /\ CacheNext => CacheInv' /\ AnswersKept
<1> SUFFICES ASSUME CacheInv, CacheNext PROVE CacheInv' /\ AnswersKept
  OBVIOUS
<1> USE DEF rowVars, providerVars, searchVars, adminVars
<1>t. RowsTyped /\ SearchesTyped /\ MomentsInv /\ search \in [Searches -> SearchStages]
  BY DEF CacheInv, SearchesTyped
<1>1. ASSUME NEW s \in Searches, ReadCache(s) PROVE CacheInv' /\ AnswersKept
  <2> DEFINE found == SearchCache(asks[s])
  <2>1. found \in moments[s]
    BY <1>1, <1>t DEF ReadCache, MomentsInv, Running
  <2>2. PICK stage \in {"provider", "done"} :
          /\ search' = [search EXCEPT ![s] = stage]
          /\ stage = "provider" => answer' = answer /\ found = {}
          /\ stage = "done" => answer' = [answer EXCEPT ![s] = found]
    BY <1>1 DEF ReadCache, Answer
  <2>3. search[s] = "cache" /\ UNCHANGED <<rowVars, providerVars, asks, fetched, adminVars, moments>>
    BY <1>1 DEF ReadCache
  <2> HIDE DEF found
  <2>4. SearchesTyped' /\ MomentsInv' /\ AnswersKept
    BY <2>1, <2>2, <2>3, OneSearchMoves DEF SearchStages
  <2>5. RowsTyped'
    BY <1>t, <2>3 DEF RowsTyped
  <2> QED
    BY <2>4, <2>5 DEF CacheInv
<1>2. ASSUME NEW s \in Searches, ProviderFails(s) PROVE CacheInv' /\ AnswersKept
  <2>1. /\ search[s] = "provider" /\ {} \in moments[s]
        /\ search' = [search EXCEPT ![s] = "done"] /\ answer' = [answer EXCEPT ![s] = {}]
        /\ UNCHANGED <<rowVars, providerVars, asks, fetched, adminVars, moments>>
    BY <1>2, <1>t DEF ProviderFails, Answer, MomentsInv
  <2>2. SearchesTyped' /\ MomentsInv' /\ AnswersKept
    BY <2>1, OneSearchMoves DEF SearchStages
  <2> QED
    BY <1>t, <2>1, <2>2 DEF CacheInv, RowsTyped
<1>3. ASSUME NEW s \in Searches, ProviderAnswers(s) PROVE CacheInv' /\ AnswersKept
  <2> DEFINE found == ToProviderConcerts(Offers[asks[s]])
  <2>1. search[s] = "provider" /\ {} \in moments[s]
        /\ UNCHANGED <<rowVars, providerVars, asks, adminVars, moments>>
    BY <1>3, <1>t DEF ProviderAnswers, MomentsInv
  <2>2. \/ /\ search' = [search EXCEPT ![s] = "done"] /\ answer' = [answer EXCEPT ![s] = {}]
           /\ fetched' = fetched
        \/ /\ search' = [search EXCEPT ![s] = "upsert"] /\ answer' = answer
           /\ fetched' = [fetched EXCEPT ![s] = found]
    BY <1>3 DEF ProviderAnswers, Answer
  <2> HIDE DEF found
  <2>3. SearchesTyped' /\ MomentsInv' /\ AnswersKept
    BY <2>1, <2>2, OneSearchMoves DEF SearchStages
  <2>4. asks[s] \in Queries /\ Offers[asks[s]] \subseteq Events
    BY <2>1, <1>t, CacheAssumption DEF MomentsInv
  <2>5. DOMAIN found \subseteq Events /\ \A e \in DOMAIN found : found[e] \in Starts
    BY <1>t, <2>4 DEF found, ToProviderConcerts, RowsTyped
  <2>6. RowsTyped'
    BY <1>t, <2>1, <2>2, <2>5 DEF RowsTyped
  <2> QED
    BY <2>3, <2>6 DEF CacheInv
<1>4. ASSUME NEW s \in Searches, Upsert(s) PROVE CacheInv' /\ AnswersKept
  <2>1. /\ search[s] = "upsert" /\ search' = [search EXCEPT ![s] = "requery"]
        /\ UNCHANGED <<hidden, providerVars, asks, fetched, answer, adminVars>> /\ Observe
        /\ stored' = stored \cup DOMAIN fetched[s]
        /\ startAt' = [c \in Concerts |-> IF c \in DOMAIN fetched[s] THEN fetched[s][c] ELSE startAt[c]]
    BY <1>4 DEF Upsert
  <2>2. search' \in [Searches -> SearchStages]
    BY <1>t, <2>1 DEF SearchStages
  <2>3. SearchesTyped' /\ MomentsInv' /\ AnswersKept
    BY <1>t, <2>1, <2>2, ObserveKeeps
  <2>4. RowsTyped'
    BY <1>t, <2>1 DEF RowsTyped, Concerts
  <2> QED
    BY <2>3, <2>4 DEF CacheInv
<1>5. ASSUME NEW s \in Searches, Requery(s) PROVE CacheInv' /\ AnswersKept
  <2> DEFINE found == SearchCache(asks[s])
  <2>1. /\ search[s] = "requery" /\ found \in moments[s]
        /\ search' = [search EXCEPT ![s] = "done"] /\ answer' = [answer EXCEPT ![s] = found]
        /\ UNCHANGED <<rowVars, providerVars, asks, fetched, adminVars, moments>>
    BY <1>5, <1>t DEF Requery, Answer, MomentsInv, Running
  <2> HIDE DEF found
  <2>2. SearchesTyped' /\ MomentsInv' /\ AnswersKept
    BY <2>1, OneSearchMoves DEF SearchStages
  <2> QED
    BY <1>t, <2>1, <2>2 DEF CacheInv, RowsTyped
<1>6. ASSUME NEW c \in Concerts, NEW hide \in BOOLEAN, FindConcert(c, hide)
      PROVE  CacheInv' /\ AnswersKept
  <2>1. UNCHANGED <<rowVars, providerVars, searchVars, moments>>
    BY <1>6 DEF FindConcert
  <2>2. admin' \in Found
    BY <1>6, <1>t DEF FindConcert, Found, RowsTyped
  <2> QED
    BY <1>t, <2>1, <2>2, QuietKeeps DEF CacheInv, RowsTyped
<1>7. ASSUME CompareConcert PROVE CacheInv' /\ AnswersKept
  <2>1. admin \in Found /\ UNCHANGED <<rowVars, providerVars, searchVars, moments>>
    BY <1>7, <1>t DEF CompareConcert, RowsTyped, Nothing, Compared
  <2>2. admin' \in {Nothing} \cup Compared
    BY <1>7, <2>1 DEF CompareConcert, Compared, Found
  <2> QED
    BY <1>t, <2>1, <2>2, QuietKeeps DEF CacheInv, RowsTyped
<1>8. ASSUME SaveConcert PROVE CacheInv' /\ AnswersKept
  <2>1. UNCHANGED <<stored, providerVars, searchVars, edits>> /\ Observe /\ admin' = Nothing
    BY <1>8 DEF SaveConcert
  <2>2. SearchesTyped' /\ MomentsInv' /\ AnswersKept
    BY <1>t, <2>1, ObserveKeeps
  <2>3. admin \in Compared
    BY <1>8, <1>t DEF SaveConcert, RowsTyped, Nothing, Found
  <2>4. startAt' \in [Concerts -> Starts]
    BY <1>8, <1>t, <2>3 DEF SaveConcert, RowsTyped, Compared
  <2> QED
    BY <1>t, <2>1, <2>2, <2>4 DEF CacheInv, RowsTyped
<1>9. ASSUME NEW e \in Events, NEW t \in Starts, Move(e, t) PROVE CacheInv' /\ AnswersKept
  <2>1. UNCHANGED <<rowVars, searchVars, adminVars, moments>> /\ announced' \in [Events -> Starts]
    BY <1>9, <1>t DEF Move, RowsTyped
  <2> QED
    BY <1>t, <2>1, QuietKeeps DEF CacheInv, RowsTyped
<1>10. ASSUME NEW c \in Submissions, Submit(c) PROVE CacheInv' /\ AnswersKept
  <2>1. /\ UNCHANGED <<hidden, startAt, providerVars, searchVars, adminVars>> /\ Observe
        /\ stored' = stored \cup {c}
    BY <1>10 DEF Submit
  <2>2. SearchesTyped' /\ MomentsInv' /\ AnswersKept
    BY <1>t, <2>1, ObserveKeeps
  <2> QED
    BY <1>t, <2>1, <2>2 DEF CacheInv, RowsTyped, Concerts
<1> QED
  BY <1>1, <1>2, <1>3, <1>4, <1>5, <1>6, <1>7, <1>8, <1>9, <1>10
     DEF CacheNext, SearchStep, AdminStep, World

-----------------------------------------------------------------------------
(* The pages *)

\* Results are the answer of a finished request, which the current request is a
\* successor of; and the page is idle only when it has asked for what was typed.
PipelineInv ==
  /\ current # NoSearch =>
       /\ current \in Searches /\ search[current] # "idle" /\ asks[current] = asked
       /\ loading /\ ~failed
  /\ from # NoSearch =>
       from \in Searches /\ search[from] = "done" /\ shown = answer[from]
  /\ HasPipeline /\ ~loading /\ ~failed => from # NoSearch /\ asks[from] = asked
  /\ HasPipeline /\ ~timer => asked = typed
  /\ timer => HasPipeline
  /\ typed \in Queries

Forecasts == {NoForecast, [status |-> "out_of_range"]} \cup [status : {"ok"}, day : Int]

DetailStages == {"asked", "shown", "failed"}

Opened ==
  [at : DetailStages, concert : Concerts, data : {"asked", "ok"},
   weather : {"asked", "forecast", "ok"}, start : Starts, forecast : Forecasts]

\* A forecast is that of the day of a start the concert has had.
DetailsInv ==
  /\ starts \subseteq Starts
  /\ details \in {Closed} \cup Opened
  /\ details # Closed =>
       /\ details.start \in starts /\ startAt[details.concert] \in starts
       /\ details.forecast.status = "ok" => \E t \in starts : details.forecast.day = LocalDay(t)

ConcertInv == CacheInv /\ PipelineInv /\ DetailsInv

LEMMA ConcertInvInit == Init => ConcertInv
  BY CacheInvInit, PageAssumption DEF Init, ConcertInv, PipelineInv, DetailsInv, HasPipeline

LEMMA PipelineKept ==
  ASSUME PipelineInv, AnswersKept, UNCHANGED pageVars
  PROVE  PipelineInv'
  BY DEF PipelineInv, AnswersKept, pageVars, HasPipeline

LEMMA DetailsKept ==
  ASSUME DetailsInv, UNCHANGED <<startAt, details, starts>>
  PROVE  DetailsInv'
  BY DEF DetailsInv, LocalDay

LEMMA CacheKept ==
  ASSUME CacheInv, UNCHANGED cacheVars
  PROVE  CacheInv' /\ AnswersKept
  BY DEF CacheInv, RowsTyped, SearchesTyped, MomentsInv, Running, SearchCache, AnswersKept,
     cacheVars, rowVars, providerVars, searchVars, adminVars

LEMMA ServerKeeps ==
  ASSUME ConcertInv, Server
  PROVE  ConcertInv'
<1>1. CacheInv' /\ AnswersKept
  BY CacheStep, SendKeeps, PageAssumption DEF Server, OthersSearch, ConcertInv
<1>2. UNCHANGED <<pageVars, details>>
  BY DEF Server
<1>3. PipelineInv'
  BY <1>1, <1>2, PipelineKept DEF ConcertInv
<1>4. DetailsInv'
  <2>1. startAt' \in [Concerts -> Starts]
    BY <1>1 DEF CacheInv, RowsTyped
  <2>2. CASE details = Closed
    BY <1>2, <2>2 DEF Server, ConcertInv, DetailsInv, Closed
  <2>3. CASE details # Closed
    <3>1. details \in Opened /\ details.at # "closed" /\ details.concert \in Concerts
      BY <2>3 DEF ConcertInv, DetailsInv, Opened, DetailStages
    <3>2. starts' = starts \cup {startAt'[details.concert]}
      BY <3>1 DEF Server
    <3> QED
      BY <1>2, <2>1, <3>1, <3>2 DEF ConcertInv, DetailsInv, LocalDay
  <2> QED
    BY <2>2, <2>3
<1> QED
  BY <1>1, <1>3, <1>4 DEF ConcertInv

LEMMA PageKeeps ==
  ASSUME ConcertInv, PageStep
  PROVE  ConcertInv'
<1>1. ASSUME NEW q \in Queries, Type(q) PROVE ConcertInv'
  BY <1>1, CacheKept, DetailsKept
     DEF Type, ConcertInv, PipelineInv, HasPipeline, cacheVars, rowVars, searchVars, detailVars
<1>2. ASSUME DebounceSame PROVE ConcertInv'
  BY <1>2, CacheKept, DetailsKept
     DEF DebounceSame, ConcertInv, PipelineInv, HasPipeline, cacheVars, rowVars, searchVars, detailVars
<1>3. ASSUME NEW s \in Searches, DebounceFires(s) PROVE ConcertInv'
  <2>1. SendSearch(s, typed) /\ typed \in Queries
    BY <1>3 DEF DebounceFires, ConcertInv, PipelineInv
  <2>2. CacheInv' /\ AnswersKept /\ search'[s] = "cache" /\ asks'[s] = typed
    BY <2>1, SendKeeps DEF ConcertInv
  <2>3. PipelineInv'
    BY <1>3, <2>2, PageAssumption
       DEF DebounceFires, ConcertInv, PipelineInv, AnswersKept, HasPipeline
  <2>4. startAt' = startAt
    BY <2>1 DEF SendSearch, rowVars
  <2> QED
    BY <1>3, <2>2, <2>3, <2>4, DetailsKept DEF DebounceFires, ConcertInv, detailVars
<1>4. ASSUME NEW s \in Searches, AnswerArrives(s) PROVE ConcertInv'
  BY <1>4, CacheKept, DetailsKept, PageAssumption
     DEF AnswerArrives, ConcertInv, PipelineInv, HasPipeline, cacheVars, rowVars, searchVars, detailVars
<1>5. ASSUME NEW s \in Searches, RequestFails(s) PROVE ConcertInv'
  BY <1>5, CacheKept, DetailsKept
     DEF RequestFails, ConcertInv, PipelineInv, HasPipeline, cacheVars, rowVars, searchVars, detailVars
<1>6. ASSUME PickerSelects PROVE ConcertInv'
  BY <1>6, CacheKept, DetailsKept
     DEF PickerSelects, ConcertInv, PipelineInv, HasPipeline, cacheVars, rowVars, searchVars, detailVars
<1> QED
  BY <1>1, <1>2, <1>3, <1>4, <1>5, <1>6 DEF PageStep

LEMMA DetailsKeeps ==
  ASSUME ConcertInv, DetailStep
  PROVE  ConcertInv'
<1>1. UNCHANGED <<cacheVars, pageVars>>
  BY DEF DetailStep, WeatherStep, OpenDetails, GetDetails, FindWeather, GetForecast,
     GetWeatherFails, ShowDetails, DetailsFail, CloseDetails
<1>2. CacheInv' /\ PipelineInv' /\ startAt' = startAt /\ startAt \in [Concerts -> Starts]
  BY <1>1, CacheKept, PipelineKept DEF ConcertInv, CacheInv, RowsTyped, cacheVars, rowVars
<1>t. DetailsInv
  BY DEF ConcertInv
<1>3. ASSUME NEW c \in Concerts, OpenDetails(c) PROVE DetailsInv'
  BY <1>3, <1>2 DEF OpenDetails, DetailsInv, Opened, DetailStages, Forecasts, NoForecast
<1>4. ASSUME GetDetails \/ ShowDetails \/ DetailsFail PROVE DetailsInv'
  <2>1. details \in Opened /\ starts' = starts
    BY <1>4, <1>t DEF GetDetails, ShowDetails, DetailsFail, Waits, DetailsInv, Closed
  <2>2. /\ details' \in Opened
        /\ details'.start = details.start /\ details'.concert = details.concert
        /\ details'.forecast = details.forecast
    BY <1>4, <2>1 DEF GetDetails, ShowDetails, DetailsFail, Opened, DetailStages
  <2>3. details # Closed
    BY <2>1 DEF Opened, Closed, DetailStages
  <2> QED
    BY <1>2, <1>t, <2>1, <2>2, <2>3 DEF DetailsInv, LocalDay
<1>5. ASSUME FindWeather PROVE DetailsInv'
  <2>1. details \in Opened /\ starts' = starts
    BY <1>5, <1>t DEF FindWeather, Waits, DetailsInv, Closed
  <2>2. details # Closed
    BY <2>1 DEF Opened, Closed, DetailStages
  <2>3. /\ details' \in Opened /\ details'.concert = details.concert
        /\ details'.forecast = details.forecast
        /\ details'.start \in {details.start, startAt[details.concert]}
    BY <1>5, <1>2, <2>1 DEF FindWeather, Opened
  <2> QED
    BY <1>2, <1>t, <2>1, <2>2, <2>3 DEF DetailsInv, LocalDay
<1>6. ASSUME GetForecast \/ GetWeatherFails PROVE DetailsInv'
  <2>1. details \in Opened /\ starts' = starts
    BY <1>6, <1>t DEF GetForecast, GetWeatherFails, DetailsInv, Closed
  <2>2. details # Closed
    BY <2>1 DEF Opened, Closed, DetailStages
  <2>3. LocalDay(details.start) \in Int
    <3>1. details.start \in Starts
      BY <2>1 DEF Opened
    <3>2. \A t \in Starts : LocalDay(t) \in Int
      BY InstantOfItsDay, CacheAssumption
    <3> QED
      BY <3>1, <3>2
  <2>4. MapDailyForecast(details.start) \in Forecasts /\ NoForecast \in Forecasts
    BY <2>3 DEF MapDailyForecast, Forecasts
  <2>5. PICK f \in {MapDailyForecast(details.start), NoForecast} :
          details' = [details EXCEPT !.weather = "ok", !.forecast = f]
    BY <1>6 DEF GetForecast, GetWeatherFails
  <2>6. /\ details' \in Opened /\ details'.concert = details.concert
        /\ details'.start = details.start /\ details'.forecast = f
    BY <2>1, <2>4, <2>5 DEF Opened
  <2>7. f.status = "ok" => f.day = LocalDay(details.start)
    BY DEF MapDailyForecast, NoForecast
  <2> QED
    BY <1>2, <1>t, <2>1, <2>2, <2>6, <2>7 DEF DetailsInv, LocalDay
<1>7. ASSUME CloseDetails PROVE DetailsInv'
  BY <1>7 DEF CloseDetails, DetailsInv
<1> QED
  BY <1>2, <1>3, <1>4, <1>5, <1>6, <1>7 DEF DetailStep, WeatherStep, ConcertInv

LEMMA ConcertInvStep == ConcertInv /\ [Next]_vars => ConcertInv'
<1>1. ASSUME ConcertInv, UNCHANGED vars PROVE ConcertInv'
  <2>1. UNCHANGED <<cacheVars, pageVars, details, starts>>
    BY <1>1 DEF vars, detailVars
  <2>2. CacheInv' /\ AnswersKept
    BY <1>1, <2>1, CacheKept DEF ConcertInv
  <2> QED
    BY <1>1, <2>1, <2>2, PipelineKept, DetailsKept DEF ConcertInv, cacheVars, rowVars
<1> QED
  BY <1>1, ServerKeeps, PageKeeps, DetailsKeeps DEF Next

-----------------------------------------------------------------------------
(* Theorems *)

\* Of any number of searches, upserts, submissions and edits, an answer is what
\* the cache held at one moment between request and answer.
THEOREM SearchIsAlwaysAtomic == Spec => []SearchIsAtomic
<1>1. ConcertInv => SearchIsAtomic
  BY DEF ConcertInv, CacheInv, MomentsInv, SearchIsAtomic
<1> QED
  BY <1>1, ConcertInvInit, ConcertInvStep, PTL DEF Spec

\* However many answers are late or lost, a page that has settled shows what the
\* cache held for the query typed last.
THEOREM SettledPageIsAlwaysRight == Spec => []SettledPageIsRight
<1>1. ConcertInv => SettledPageIsRight
  BY DEF ConcertInv, CacheInv, MomentsInv, PipelineInv, SettledPageIsRight, Settled
<1> QED
  BY <1>1, ConcertInvInit, ConcertInvStep, PTL DEF Spec

\* For any offset of the venue and any length of a day, a forecast that is shown
\* is of the calendar day of a start the concert has had.
THEOREM ForecastIsAlwaysOfTheDay == Spec => []ForecastIsOfTheDay
<1>1. ASSUME ConcertInv PROVE ForecastIsOfTheDay
  <2> SUFFICES ASSUME details.at = "shown", details.forecast.status = "ok"
               PROVE  \E t \in starts :
                        /\ details.forecast.day * DayLength - Offset <= t
                        /\ t < details.forecast.day * DayLength - Offset + DayLength
    BY DEF ForecastIsOfTheDay
  <2>1. details # Closed
    BY DEF Closed
  <2>2. PICK t \in starts : details.forecast.day = LocalDay(t)
    BY <1>1, <2>1 DEF ConcertInv, DetailsInv
  <2>3. t \in Int
    BY <1>1, CacheAssumption DEF ConcertInv, DetailsInv
  <2> QED
    BY <2>2, <2>3, InstantOfItsDay
<1> QED
  BY <1>1, ConcertInvInit, ConcertInvStep, PTL DEF Spec

=============================================================================
