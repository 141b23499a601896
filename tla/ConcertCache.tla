---------------------------- MODULE ConcertCache ----------------------------
(***************************************************************************)
(* The concerts table as a cache of Ticketmaster: the cache-first search,  *)
(* the upsert of what the provider sends, concerts submitted by users, and *)
(* an admin who hides and shows concerts (concerts.service.ts,             *)
(* ticketmaster.service.ts).                                               *)
(*                                                                         *)
(* Everything the provider says of an event is abstracted to its start.    *)
(***************************************************************************)
EXTENDS Naturals, FiniteSets

CONSTANTS
  Events,       \* events of the provider; the row of one is named after it
  Submissions,  \* concerts users may submit
  Unusable,     \* events without a usable id, name or start date
  Queries,      \* search filters
  Accepts,      \* query -> concerts the filters of searchCache accept
  Offers,       \* query -> events the provider returns
  Starts,       \* instants at which a concert may start
  Searches,     \* GET /concerts/search requests
  NoQuery,
  MaxMoves,     \* bound: how often the provider moves an event
  MaxEdits      \* bound: how often an admin hides or shows a concert

Concerts == Events \cup Submissions

ASSUME CacheAssumption ==
  /\ Events \cap Submissions = {}
  /\ Accepts \in [Queries -> SUBSET Concerts]
  /\ Offers \in [Queries -> SUBSET Events]
  /\ Starts \subseteq Nat /\ Starts # {}
  /\ NoQuery \notin Queries
  /\ MaxMoves \in Nat /\ MaxEdits \in Nat

VARIABLES
  stored,    \* concerts that have a row
  hidden,    \* rows with hidden = true
  startAt,   \* concert -> startAt of its row
  announced, \* event -> its start according to the provider
  moves,     \* moves of events so far (bound)
  search,    \* request -> where it stands
  asks,      \* request -> its filters
  fetched,   \* request -> the provider's answer: events and their starts
  answer,    \* request -> the concerts it answers with
  admin,     \* the PATCH of the admin
  edits,     \* edits so far (bound)
  moments    \* auxiliary: request -> every result the cache has had meanwhile

rowVars == <<stored, hidden, startAt>>
providerVars == <<announced, moves>>
searchVars == <<search, asks, fetched, answer>>
adminVars == <<admin, edits>>
cacheVars == <<rowVars, providerVars, searchVars, adminVars, moments>>

-----------------------------------------------------------------------------

\* A request: not sent, about to read the cache, at the provider, about to
\* upsert, about to read again, answered.
SearchStages == {"idle", "cache", "provider", "upsert", "requery", "done"}
Running(s) == search[s] \notin {"idle", "done"}

Nothing == [at |-> "idle"]

\* searchCache: the rows the filters accept, without the hidden ones. Pages of
\* twenty and the order are left out.
SearchCache(q) == Accepts[q] \cap (stored \ hidden)

\* What the requests under way could have read, were this the moment.
Observe ==
  moments' = [s \in Searches |->
    IF Running(s) THEN moments[s] \cup {Accepts[asks[s]] \cap (stored' \ hidden')} ELSE moments[s]]

CacheInit ==
  /\ stored = {}
  /\ hidden = {}
  /\ announced = [e \in Events |-> CHOOSE t \in Starts : TRUE]
  /\ startAt = [c \in Concerts |-> CHOOSE t \in Starts : TRUE]
  /\ moves = 0
  /\ search = [s \in Searches |-> "idle"]
  /\ asks = [s \in Searches |-> NoQuery]
  /\ fetched = [s \in Searches |-> [e \in {} |-> 0]]
  /\ answer = [s \in Searches |-> {}]
  /\ admin = Nothing
  /\ edits = 0
  /\ moments = [s \in Searches |-> {}]

\* A request for q begins; the caller says which.
SendSearch(s, q) ==
  /\ search[s] = "idle"
  /\ search' = [search EXCEPT ![s] = "cache"]
  /\ asks' = [asks EXCEPT ![s] = q]
  /\ moments' = [moments EXCEPT ![s] = {SearchCache(q)}]
  /\ UNCHANGED <<rowVars, providerVars, fetched, answer, adminVars>>

Answer(s, found) ==
  /\ search' = [search EXCEPT ![s] = "done"]
  /\ answer' = [answer EXCEPT ![s] = found]

\* search(), first read: whatever is cached is the answer.
ReadCache(s) ==
  /\ search[s] = "cache"
  /\ LET found == SearchCache(asks[s])
     IN IF found # {} THEN Answer(s, found)
        ELSE search' = [search EXCEPT ![s] = "provider"] /\ UNCHANGED answer
  /\ UNCHANGED <<rowVars, providerVars, asks, fetched, adminVars, moments>>

\* searchEvents() without an API key, on an HTTP error, or after five seconds.
ProviderFails(s) ==
  /\ search[s] = "provider"
  /\ Answer(s, {})
  /\ UNCHANGED <<rowVars, providerVars, asks, fetched, adminVars, moments>>

\* toProviderConcert of each event, without the unusable ones.
ToProviderConcerts(events) == [e \in events \ Unusable |-> announced[e]]

\* searchEvents() with an answer; an empty list ends the search.
ProviderAnswers(s) ==
  /\ search[s] = "provider"
  /\ LET found == ToProviderConcerts(Offers[asks[s]])
     IN IF DOMAIN found = {} THEN Answer(s, {}) /\ UNCHANGED fetched
        ELSE /\ fetched' = [fetched EXCEPT ![s] = found]
             /\ search' = [search EXCEPT ![s] = "upsert"]
             /\ UNCHANGED answer
  /\ UNCHANGED <<rowVars, providerVars, asks, adminVars, moments>>

\* Faulty variant: search() answers with what the provider sent.
UpsertAndAnswer(s) ==
  /\ search[s] = "upsert"
  /\ stored' = stored \cup DOMAIN fetched[s]
  /\ startAt' = [c \in Concerts |-> IF c \in DOMAIN fetched[s] THEN fetched[s][c] ELSE startAt[c]]
  /\ Answer(s, DOMAIN fetched[s])
  /\ UNCHANGED <<hidden, providerVars, asks, fetched, adminVars>>
  /\ Observe

\* upsertProviderConcerts: INSERT ... ON CONFLICT (externalId) DO UPDATE, one
\* statement. It names no hidden column, so a hidden row stays hidden.
Upsert(s) ==
  /\ search[s] = "upsert"
  /\ stored' = stored \cup DOMAIN fetched[s]
  /\ startAt' = [c \in Concerts |-> IF c \in DOMAIN fetched[s] THEN fetched[s][c] ELSE startAt[c]]
  /\ search' = [search EXCEPT ![s] = "requery"]
  /\ UNCHANGED <<hidden, providerVars, asks, fetched, answer, adminVars>>
  /\ Observe

\* search(), second read
Requery(s) ==
  /\ search[s] = "requery"
  /\ Answer(s, SearchCache(asks[s]))
  /\ UNCHANGED <<rowVars, providerVars, asks, fetched, adminVars, moments>>

\* create(): the row of a user has no externalId, so no upsert ever meets it.
\* Its start is the one startAt has given it from the beginning.
Submit(c) ==
  /\ c \in Submissions \ stored
  /\ stored' = stored \cup {c}
  /\ UNCHANGED <<hidden, startAt, providerVars, searchVars, adminVars>>
  /\ Observe

\* setHidden, first read. The entity in hand carries every column.
FindConcert(c, hide) ==
  /\ admin.at = "idle" /\ edits < MaxEdits /\ c \in stored
  /\ admin' = [at |-> "found", concert |-> c, hide |-> hide, start |-> startAt[c]]
  /\ edits' = edits + 1
  /\ UNCHANGED <<rowVars, providerVars, searchVars, moments>>

\* save() reads the row again and marks the columns that differ.
CompareConcert ==
  /\ admin.at = "found"
  /\ LET flip == admin.hide # (admin.concert \in hidden)
         move == admin.start # startAt[admin.concert]
     IN admin' = IF flip \/ move
                   THEN [at |-> "compared", concert |-> admin.concert, hide |-> admin.hide,
                         start |-> admin.start, flip |-> flip, move |-> move]
                   ELSE Nothing
  /\ UNCHANGED <<rowVars, providerVars, searchVars, edits, moments>>

\* save() updates them: a start read before an upsert is written back.
SaveConcert ==
  /\ admin.at = "compared"
  /\ hidden' = IF ~admin.flip THEN hidden
               ELSE IF admin.hide THEN hidden \cup {admin.concert} ELSE hidden \ {admin.concert}
  /\ startAt' = IF admin.move THEN [startAt EXCEPT ![admin.concert] = admin.start] ELSE startAt
  /\ admin' = Nothing
  /\ UNCHANGED <<stored, providerVars, searchVars, edits>>
  /\ Observe

\* The provider moves an event (of the unusable ones nobody would know).
Move(e, t) ==
  /\ moves < MaxMoves /\ e \notin Unusable /\ announced[e] # t
  /\ announced' = [announced EXCEPT ![e] = t]
  /\ moves' = moves + 1
  /\ UNCHANGED <<rowVars, searchVars, adminVars, moments>>

SearchStep(s) ==
  ReadCache(s) \/ ProviderFails(s) \/ ProviderAnswers(s) \/ Upsert(s) \/ Requery(s)

AdminStep ==
  \/ \E c \in Concerts, hide \in BOOLEAN : FindConcert(c, hide)
  \/ CompareConcert
  \/ SaveConcert

World ==
  \/ \E e \in Events, t \in Starts : Move(e, t)
  \/ \E c \in Submissions : Submit(c)

CacheNext == (\E s \in Searches : SearchStep(s)) \/ AdminStep \/ World

-----------------------------------------------------------------------------

\* The type of every variable of the cache.
CacheTypeOK ==
  /\ stored \subseteq Concerts
  /\ hidden \subseteq Concerts
  /\ startAt \in [Concerts -> Starts]
  /\ announced \in [Events -> Starts]
  /\ moves \in 0 .. MaxMoves
  /\ search \in [Searches -> SearchStages]
  /\ asks \in [Searches -> Queries \cup {NoQuery}]
  /\ \A s \in Searches : fetched[s] \in [DOMAIN fetched[s] -> Starts] /\ DOMAIN fetched[s] \subseteq Events
  /\ answer \in [Searches -> SUBSET Concerts]
  /\ admin.at \in {"idle", "found", "compared"}
  /\ edits \in 0 .. MaxEdits
  /\ moments \in [Searches -> SUBSET SUBSET Concerts]

\* The cache is the source of truth: the answer of a search is what the cache
\* held at one moment between request and answer, whatever the provider did, and
\* however many upserts, submissions and edits came between its two reads.
SearchIsAtomic ==
  \A s \in Searches : search[s] = "done" => answer[s] \in moments[s]

=============================================================================
