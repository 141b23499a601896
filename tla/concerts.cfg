\* Two searches, moving events, an admin, slow and failing providers.
SPECIFICATION FairSpec
CONSTANTS
  e1 = e1  e2 = e2  c1 = c1  q1 = q1  q2 = q2  s1 = s1  s2 = s2
  Events = {e1, e2}
  Submissions = {c1}
  Unusable = {e2}
  Queries <- MCQueries
  Accepts <- MCAccepts
  Offers <- MCOffers
  Starts = {3, 4}
  Searches = {s1, s2}
  NoQuery = NoQuery
  NoSearch = NoSearch
  MaxMoves = 1
  MaxEdits = 1
  Default = q1
  DayLength = 4
  Offset <- MCOffset
  Window = {0, 1}
  Located = {e1, c1}
INVARIANTS SearchIsAtomic SettledPageIsRight ForecastIsOfTheDay
PROPERTY PagesSettle
CHECK_DEADLOCK FALSE
