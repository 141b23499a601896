# GigDrive in TLA+

GigDrive is a ride-sharing service for concerts: a driver publishes a trip,
passengers request seats, the driver accepts, the price of a seat falls as seats
fill, and a scheduled job cancels trips that miss their minimum. The backend is
NestJS over PostgreSQL (`src/backend`), the client Angular with NgRx
(`src/frontend`).

Nothing in the backend keeps state between requests except the chat gateway; all
coordination goes through rows that concurrent handlers read, decide on and save.
The client keeps signals and stores that answers reach in any order. Those two are
where the program is hard to test, and what this project models: the handlers, one
action per awaited call, and the pages with the requests they have under way.

Paths below are relative to `src/backend/src` unless they start with `src/`.

## 1. Inventory

| Component | State | Operations | What makes it correct | Module |
|---|---|---|---|---|
| Trip lifecycle (`trips/`) | trip row: status, min, max, deadline, departure; its stops | create, update, confirm, cancel, `recomputeStatus`, `sweepExpired` (hourly), lists, manifest | its status is the one its seats call for; it stays valid (FR-TRIP-02); terms are fixed once committed; expired and departed trips end; stops are of one body | `TripsService`, `Garage`, `TripBrowse` |
| Bookings (`bookings/`) | booking rows: passenger, seats, status, paid | request, accept (transaction + row lock), reject, cancel, setPaid | never more confirmed seats than capacity; one active booking per passenger; decisions are final | `BookingsService` |
| Waitlist (`waitlist/`) | entries by `createdAt` | join, leave, `notifyOnSeatFreed` | whoever waits is told when a seat is freed | `WaitlistService` |
| Pricing (`trips/pricing.service.ts`, `pricing.ts`, `earnings.ts` of the client) | none (a function of the rows) | `calculate`, `aggregateEarnings` | the live price is in the band shown, covers the cost, and only falls as seats fill | `LivePrice` |
| Chat (`chat/`, both ends) | sockets: user and joined trip; messages; the panel | connect, join, message, history | only members read and write; order; no message lost between history and live | `Chat` |
| Accounts (`users/`, `auth/`, the client's session) | user rows; a token in localStorage, `currentUser`, a shared load | register, login, `validate`, profile, disable, enable; guards, logout, reload | a disabled user is out, whatever token he holds; one admin remains; one load of the session | `Accounts` |
| Vehicles (`vehicles/`, the vehicles page) | vehicle rows; the list shown | create, update, remove | the vehicle of a trip is there | `Garage` |
| Concerts (`concerts/`, `integrations/ticketmaster`, `open-meteo`, three pages) | concert rows (a cache of the provider); results shown | search, upsert, hide, submit, details, weather | a search answers with what the cache had; a page shows the answer to its last query; the forecast is of the right day | `ConcertCache`, `ConcertPages` |
| Reminders, mail (`notifications/`) | none | hourly reminder, recipients, mailer | a trip is reminded once; the cancelled are told | `Outreach` |
| Signal (`integrations/signal/`) | group id and link of a trip | `onTripConfirmed` | a failure never holds up a confirmation | `Outreach` |
| Reviews (`reviews/`) | review rows | create, aggregate | one review per passenger and trip, after the concert | `Dashboards`, `TripBrowse` |
| Client stores (`src/frontend/.../store`) | NgRx entities, pending id, loading, error | effects and reducers | a dashboard at rest shows what the server has; a locked row waits for a request | `Dashboards` |
| Client pages (`trip-create`, `trip-list`, `trip-details`, ...) | signals and forms | their handlers, requests and answers | what is shown is what is sent; nothing on offer is missed; a page never steps back | `TripForm`, `TripBrowse`, `TripPage` |
| Admin, health, configuration, database | – | toggles (in `Accounts`, `ConcertCache`), counts, lists, migrations, seed | – | – |

Interactions. Controllers call the services after a guard has checked the actor.
`accept` and `cancel` of a booking call `TripsService.recomputeStatus`; `cancel`
then calls `WaitlistService.notifyOnSeatFreed`. Trip services hand mails to the
notification ports after they have saved, and a confirmation calls the Signal
automation. `TripSweepJob` and `TripReminderJob` run in the same process as the
requests. The client loads lists, sends mutations and re-reads trips; its guards
wait for one load of the session.

What is hard. Every handler is a chain of awaited queries, and between any two of
them any other handler may run: the entity in a handler's hands may be stale
when it is tested, and again when it is saved. TypeORM's `save()` is itself a
SELECT and an UPDATE of *all* columns that differ, so a stale entity undoes the
work of others. One transaction in the whole core (`accept`) takes a row lock.
The sweep races with all of them. Jobs work through lists and mails may fail in the
middle of them. The chat adds sockets that come and go, and a panel fed from two
sides. Each page has several requests under way, through RxJS operators that drop
(`exhaustMap`), replace (`switchMap`) or delay (`debounceTime`). The complete list,
with lines, is `PROJECT.json` "hazards".

## 2. Modules

```
TripRules            pure rules: TripStateMachine, validations
   |
 Store               rows, workers, save(), recomputeStatus, notifications
   |--------------------|----------------------|
BookingsService     TripsService        WaitlistService
   |--------------------|----------------------|
 GigDrive            their composition, properties, invariants ---- INSTANCE SeatLedger
   |                                                                      |
 GigDriveProofs -> SerialProofs      MCGigDrive                  LivePrice (EXTENDS SeatLedger)
                                                                  |               |
                                                           LivePriceProofs   MCLivePrice
```

Beside the trip core stand

```
Chat             <- MCChat, ChatProofs               one room, both ends
Accounts         <- MCAccounts, AccountsProofs       users, tokens, one browser
ConcertCache  <- ConcertPages <- MCConcertPages, ConcertProofs
TripRules     <- Outreach     <- MCOutreach, OutreachProofs   jobs, mails, Signal, crashes
Garage      \
TripForm     |
TripBrowse   +- Screens <- MCScreens, ScreensProofs
TripPage     |
Dashboards  /
```

Each of them sees of the core what its own component sees of it: `Chat` whether a
booking is CONFIRMED, `Outreach` the rows its lists and mails are made from.

`TripRules` has one operator per rule of `trip-state-machine.ts` and per
validation of `trips.service.ts`.

`Store` holds the state. Trips share no rows of the three tables, so one trip is
modelled, with all its bookings and waitlist entries.

| Variable | Code |
|---|---|
| `trip`, `booking`, `waitlist` | the committed rows (`trip.entity.ts`, `booking.entity.ts`, `waitlist-entry.entity.ts`) |
| `lock` | the handler whose transaction holds the trip row `FOR UPDATE` |
| `pc[w]`, `call[w]` | where a handler stands and its arguments |
| `tripSeen[w]`, `bookSeen[w]` | the entities it loaded and mutates |
| `dirty[w]` | the columns `save()` found changed |
| `clock` | `new Date()` |
| `mail`, `owed` | history only: notifications sent; waiting passengers not yet told of a freed seat |

A worker is an HTTP request in flight or the cron process. The first action of a
handler reads what the code reads before its first decision (`RequestBooking`,
`AcceptBooking`, `UpdateTrip`, `Sweep`, ...); each later action is one awaited
call (`RequestCheckActive`, `AcceptLock`, `RecomputeFind`, ...). An early return
or an exception is the disjunct that ends the handler. `save()` is two actions,
`TripSaveLoad`/`TripSaveUpdate` and the same for a booking. The notification that
follows a save is part of the save's UPDATE: it changes no row, and no property
distinguishes an order of mails. Definitions marked "Faulty variant" are
plausible bugs; the specification never uses them. They exist to show that each
property can fail.

How the database is modelled (external; from how the services use it). Isolation
is READ COMMITTED, so a read sees the last commit. `FOR UPDATE` waits for the
row, then sees its latest version; while it is held, an UPDATE of the trip row
and an INSERT whose foreign key points at it wait (`TripRowFree`), plain reads and
updates of bookings do not. An UPDATE of a single statement commits at once.
`save()` of an unchanged entity sends no UPDATE. The unique index on
`(trip, passenger)` of the waitlist makes a second insert throw.

Abstracted: the columns nobody decides on (price, notes, `decidedAt`, ...), stops,
vehicle and concert (constants of the one trip), `seats` of a waitlist entry,
guards of the controllers (a request reaches a handler only with the right
actor), mail text. Ids of new rows come from a finite set that bounds the
requests of a run.

`SeatLedger` is the abstract specification of capacity (docs/features/06-bookings.md,
4.4): a booking takes all its seats at once, only while they fit, and gives them
all back. `GigDrive!Ledger` instantiates it with `taken <- SeatsHeld` and
`capacity <- trip.max`; `KeepsLedger` is the refinement.

`LivePrice` puts `PricingService.calculate` and the client's `aggregateEarnings`
over that ledger, so that a price is judged along every history of confirmations
and cancellations and not for one input. The terms of the trip do not change
there: an edit is only possible while the trip is OPEN and makes another band.
Amounts are whole minor units, as in the code; `Math.ceil` of a quotient is
exact integer division.

`Chat` is the room of one trip, both ends of it.

| Variable | Code |
|---|---|
| `confirmed` | who has a CONFIRMED booking; `Confirm` and `Cancel` stand for the booking service |
| `log` | rows of `chat_messages`, in the order of the history |
| `sent[m]` | a message: author and stage, from the input of the panel through Socket.IO and the three awaits of `handleMessage` |
| `session[u]`, `join[u]`, `inbox[u]` | the socket of a panel: connecting, `connectedUsers`, `joinedTrips`, events under way |
| `hist[u]`, `page[u]`, `view[u]` | the history request, what its SELECT returned, `messages()` of the panel |
| `admitted`, `vouched`, `owed`, `due` | history only, for the properties |

The handlers of the gateway are one action per awaited call: `HandleJoin`,
`CheckJoiner`, `EnterRoom`; `HandleMessage`, `CheckAuthor`, `PersistMessage`,
`EmitMessage`. NestJS dispatches a `join` without waiting for `handleConnection`
in some versions, so the model lets it come before `Authenticate`, and then
`requireUser` refuses it; every property holds with and without that order. Socket.IO
is external: it sends what it buffered while disconnected before it reports
'connect', so ahead of the join; it keeps the order of one socket; what is under
way when a connection ends is lost. Queries do not fail. `trip` and `driver` of a
room never change, so the membership check is one read of the booking. Two
inserts are stored in the order they commit.

`Accounts` has one action per awaited call of `register`, `login`, `disable`,
`enable` and `updateProfile`, behind `JwtStrategy.validate`, which reads the row
again for every request; and the client's `AuthService`: `token`, `user` and `load`
are its localStorage entry, `currentUser` and `sessionLoad$`. `Deliver`,
`AnswerLost`, `Logout`, `Reload` happen at any time. `OthersSend` are requests with
any token ever issued. `witnessed` is history only. Passwords match or not, at random.

`ConcertCache` is the cache-first `search` with the provider beside it: `ReadCache`,
`ProviderAnswers` or `ProviderFails`, `Upsert`, `Requery` are the awaited calls.
An event of the provider is its start (others of its columns behave like it), and
moves; `setHidden` is `FindConcert`, `CompareConcert`, `SaveConcert`. `ConcertPages`
adds the pipeline of the search page and the picker (debounce, `distinctUntilChanged`,
`switchMap`, `catchError` per request) and the details page with its two requests.
`LocalDay` and `MapDailyForecast` are translated as they compute: an offset in
instants, a day by integer division. `moments`, `from`, `starts` are history only.

`Outreach` has the jobs, one action per trip of a list, the request beside them, the
mails one recipient at a time, and the Signal calls. `Hour` moves the clock when the
work of the hour is done; `Crash` drops all that is in memory, `Restart` starts
again without it. Who gets a mail is read after the save (`Recipients`). Steps inside
`accept` and `recomputeStatus` are split up in the trip core and are one here.

`Garage` splits `create` and `update` of trips where the trip core does not: the row,
the delete of its stops and their insert. Foreign keys and the unique index on
`(tripId, seq)` are external and refuse. The vehicles page runs beside.

`TripForm` is the form of `trip-create.ts` with the picker inside, up to the service
that takes what it sends. A time is an instant; an input holds the instant plus the
zone of the browser. Its validators and those of the service (`ValidCapacity`,
`ValidSchedule` of `TripRules`) are translated from each side on its own, and
`ValidFormIsAccepted` compares them.

`TripBrowse` has `TripsService.list` as its three reads (trips, seats, ratings), the
filters in SQL and those in memory, both sorts, the page of 50; and the list page.
`TripPage` has the seven requests the page of a trip may have under way.
`Dashboards` has both dashboards over one store: actions, effects, reducers,
selectors, buttons, and reviews.

`Screens` composes the five. A user has one page open, and the pages keep no common
state in the client (the session is in `Accounts`), so a behaviour is one of one page;
a page that is not open rests in one of its initial states. Composing them checks
every page in one run without a product of their states.

The services behind the pages are one step where another module splits them up, and
other people (`TripMoves`, `OfferMoves`, ...) change their rows at any moment.

## 3. Runs

Two workers finish each run within a few minutes, most within one.

| Run | What runs together | Checks |
|---|---|---|
| `serial` | one handler at a time, all operations except PATCH; 3 bookings, 2 passengers, trips (min,max) = (1,1), (1,2), (2,2) | `OneActiveBooking`, `StatusTracksSeats`, `EndIsMailedOnce`, `WaitersAreTold` |
| `editing` | one at a time, with PATCH bodies that are valid and invalid | `TripStaysValid`, `TermsFixedOnceCommitted`, `ConfirmedWithMinimum` |
| `seats` | two handlers at a time, the sweep among them; bookings of 1 or 2 seats | `SeatsFit`, `KeepsLedger` |
| `liveness` | two requests and the sweep, fairness | `HandlersEnd`, `ExpiredTripEnds`, `DepartedTripEnds` |
| `prices` | three bookings of 1 to 3 seats, capacities 1 to 6, costs 1, 7, 12, 100 | `PriceInBand`, `CostCovered`, `PriceFallsAsSeatsFill` |
| `chat` | a driver and a passenger, two messages, one panel each, one lost connection, a booking that comes and goes | `ShownIsStored`, `FormerMemberIsMute`, `OutsiderSeesNothing`, `NothingMissedLive` |
| `accounts` | two admins and someone who registers, two requests, one browser | `AdminRemains`, `DisabledIsOut`, `LoadIsShared` |
| `concerts` | two searches, two queries, two events (one unusable), a submission, a move, a hiding | `SearchIsAtomic`, `SettledPageIsRight`, `ForecastIsOfTheDay`, `PagesSettle` |
| `outreach` | two trips, a passenger, both jobs, one request at a time, one failure | `RemindedOnce`, `CancelledAreTold`, `OverdueIsSwept`, `RequestsAreAnswered` |
| `pages` | one page of the client, whichever, and the handlers behind it | `StopsAreOneBody`, `TripHasItsVehicle`, `ShownConcertIsSent`, `ValidFormIsAccepted`, `NoUnwantedCopy`, `NothingMissed`, `DashboardIsRight`, `PendingIsUnderWay`, `ShownTripNeverStepsBack`, `MemberGetsChat` |
| `accept_race` | accept beside reject and cancel | refutes `AcceptsOnlyPending` |
| `zone_drift` | the trip form in a browser whose zone is not the server's | refutes `TimesAreStoredInUtc` |

The serial runs show that the services are right when their handlers do not
overlap: that is what the unit tests exercise, over far more sequences. The
concurrent runs show what survives overlapping: capacity does, because of the
row lock; the vehicle of a trip and its stops do, because of a foreign key and a
unique index; what a search answers does, because it always reads the cache last.
The client keeps its lists right by `switchMap`, its rows by the answer to each
mutation. Section 4 lists what does not survive.

Bounds. In the trip core, two passengers and two bookings are the smallest numbers with which
two bookings compete, and capacities 1 and 2 with bookings of 1 and 2 seats make
every comparison with the capacity go both ways, exactly and by one. The third
booking of `serial` lets a passenger ask again after a rejection or cancellation.
Two handlers are enough for each race found: one that holds the lock or is about
to save, one that waits for it or reads without it; the proofs cover any number. The clock has a value
before, at and after the deadline (1), and departure and concert are at 2.
`MailCap` only keeps the history counters finite: 2 is enough to tell "twice" from
"once", and 0 switches the counting off in the runs that do not ask about mail.
`MaxInFlight` bounds the busy workers.

In `chat`, two messages are needed for one that arrives live before the
history that lacks it, one lost connection for a second join, and one panel each is
enough for a panel that is opened after messages were stored.

In `accounts`, two admins are what it takes for the last one to be refused, and two
requests for one to change what the other has read: an admin who has passed the guards may
be disabled before he counts. `MaxSaves = 1` lets one request at a time be between its
last read (the count, for an admin) and its save: section 4 says what two of them do.

In `concerts`, two searches are one that overtakes the other; days have four instants
and starts lie on both sides of midnight at the venue (offset -1), so the day in UTC
differs from the local one. `MaxMoves` and `MaxEdits` bound the changes other people
make, `Window` the days of the forecast.

In `outreach`, the trips are two that expire in one hour, so that a failure may hit
the first of a list, or one confirmed (its driver wants no mails) beside one that may
be. The clock stops at `Horizon = 4`, at or after every deadline, window and departure, and
the jobs go on every hour. One fault is any of: a save that throws, a mail that
bounces, a Signal call that fails, a crash.

In `pages`: three requests at a time on two vehicles and one trip; bodies with more and
fewer stops and another vehicle; two cars and two concerts, one too soon for the leads;
two zones; three bookings; three lifts with a page of two and each filter used once, two list
requests; up to three clicks on a trip page. `MaxVisits`, `MaxPresses`, `MaxMoves`,
`MaxShifts`, `MaxSubmits` and `MaxStops` bound what people do.

Symmetry over passengers, bookings, requests and admins is used in safety runs only; no
property names one of them. `CHECK_DEADLOCK FALSE` is set where the system may stop:
where nobody does anything more and nothing is scheduled. With the sweep it never stops.

Fairness. In `GigDrive!Fairness` a started handler goes on: Node runs its
continuation when the query has returned, and a query waits only for a row lock.
PostgreSQL queues the waiters of a row lock, so a handler that finds the lock
free again and again gets it: strong fairness of each worker's step. The cron
expression fires every hour: weak fairness of `Sweep`. No fairness is assumed
for requests, and none for time: the liveness properties start from a clock that
has passed the deadline or departure. `HandlersEnd` depends on each exit of `accept`
ending its transaction.

`Outreach!Fairness`: hours pass, the scheduler fires, and each worker goes on. The Signal
call goes on because `signal-cli` is asked with a timeout; the mailer catches what
fails. None is assumed for a restart, since nothing in the repository restarts the process:
`OverdueIsSwept` says `<>[]up`. `ConcertPages!Fairness`: the server goes on with a
search, an answer (or an error) arrives, the timer of `debounceTime` fires. Providers are
not fair, but their calls time out. `Screens!Fairness` is the trip page's: its three
reads are answered as long as they do not fail (`MemberGetsChat` says so).

## 4. What the code does not keep

Two statements are refuted by runs of their own, `accept_race` and `zone_drift`
(`PROJECT.json` "findings"). The others below are defined in the modules, or are the checked
properties under another bound; each is refuted by the configuration named, a copy of an
existing one with the difference given.

| Statement | Configuration | What happens |
|---|---|---|
| `OneActiveBooking`: "prevent a passenger from double-booking a trip" (`bookings.service.ts:22-24`) | `accept_race`, `Ops = {"request"}` | two requests pass the check before either inserts |
| `PaidIsInformational`: "Informational only" (`bookings.service.ts:197`) | `accept_race`, `Ops` with `"accept"`, `"cancelBooking"`, `"setPaid"` | setPaid revives a cancelled booking |
| `RecomputeSparesTerminal`: "Terminal statuses are left untouched" (`trips.service.ts:248`) | `accept_race`, `Ops` with `"cancelBooking"`, `"cancelTrip"` | a cancelled trip is open again |
| `OpenIsShortOfMinimum`: "OPEN ──(min reached)──> READY" (`trip-state-machine.ts:22`) | `editing`, with this invariant | serial: after an edit the trip stays OPEN |
| `StatusTracksSeats`: recomputed "whenever the booking set changes" (`trips.service.ts:247`) | `seats`, with this invariant | of two overlapping accepts the older count is saved last |
| `TripStaysValid` (FR-TRIP-02, `docs/features/05-trips.md:34`) | `editing`, two requests in flight | two edits are each validated against the row before the other |
| `ConfirmedWithMinimum`: "Only READY trips (minimum reached)" (`trip-state-machine.ts:75`) | `editing`, two requests in flight | a confirmation between a cancellation and its recomputation |
| `WaitersAreTold` (`docs/features/14-waitlist.md:30`) | `serial`, two requests in flight | `cancel` read the booking as PENDING, so it announces the seats to nobody |
| `MembersReceive`: "Multiple concurrent members receive messages in real time" (`docs/features/10-trip-chat.md:40`) | `chat`, `MaxDrops = 0` | the history that answers late removes a live message from the panel |
| `AdminRemains`: the last remaining admin cannot be disabled (`docs/features/16-admin-dashboard.md:15`) | `accounts`, `MaxSaves = 2` | two admins disable each other: each counts the other before either saves |
| `ProfileLeavesDisabled`: "Apply only provided fields" (`users.service.ts:38`) | `accounts`, `MaxSaves = 2` | a profile saved from an entity loaded before a disable enables the account again |
| `EachTripIsReminded`: "each trip is reminded once" (`trip-reminder.job.ts`) | `outreach`, `MaxFaults = 0`, `TripChoices <- MCToConfirm` | a trip confirmed less than 24 hours ahead is in no window |
| `TripFitsVehicle` (FR-TRIP-02) | `pages`, with this invariant | the seats of a vehicle are lowered below those of its trip |
| `DashboardsKeepApart` (`passenger-dashboard.ts:21`, `driver-dashboard.ts:28`) | `pages`, with this invariant | the answer for one dashboard arrives when the other is open, into one store |
| `ErrorIsShown` (`dashboards.selectors.ts:36`, `:42`) | `pages`, with this invariant | a first load that fails leaves the page loading for ever |

Met on the way, in the models or plain in the code, without a property of their own:

- Trips. READY is mailed again after a cancellation and a new acceptance, though a
  comment says "first reaches READY" (`trips.service.ts:249`). `leave()` never reads the
  trip, while `docs/features/14-waitlist.md:29` allows leaving "only while the trip is FULL".
  A trip whose last seat is taken is FULL, and only READY trips are confirmed: a
  sold-out trip waits until somebody cancels; the documented diagram has the same edges.
  `update` may lower the maximum below the seats confirmed.
- Chat. A message that is handled before the join of its socket has finished, or
  that was typed while the connection was down, is refused with an event the client
  does not listen to (`chat.gateway.ts:99`), and the input is empty by then. After a
  reconnection the panel joins again and does not reload the history. The first
  failed attempt to connect ends the subscription (client `chat.service.ts:50`).
  A passenger who cancels stays in the socket's room and goes on receiving, and so does
  a disabled user, for sockets are authenticated once. Two overlapping messages may be
  shown live in the opposite order of the history.
- Accounts. Of two simultaneous registrations of one address the second gets a 500 (the
  unique index) and not the 409 of the check. The profile form cannot clear the phone.
- Concerts. A search asks the provider again whenever all its rows are hidden. A
  `setHidden` that overlaps an upsert may write the old start back; so may the slower of
  two upserts.
- Outreach. A crash between a save and its mails loses them, and a save that fails ends
  the list until the next hour. A trip that is cancelled while its reminder is under way
  is reminded all the same. A sweep and a driver may cancel one trip, and mail it, twice.
  A Signal group that was made and whose link could not be read stays without members.
- Vehicles and trips. A removed vehicle comes back when `update` saves the entity it has
  loaded. A failure between the delete and the insert of stops leaves none. A list that
  answers late overwrites a vehicle just added on the page.
- Trip form. A retry after a lost answer creates a second trip. Notes cannot be cleared
  (`trip-create.ts:346`). An edit form is valid before its concert has been loaded, and
  then the server alone judges the schedule.
- Trip list. A failed request is shown as an empty list; a filter of 0 counts as unset;
  the filters in memory look at a page of 50 only (FR-TRIP-03,
  `docs/features/05-trips.md:35`).
- Trip page. A late answer to the waitlist query hides the entry just made; each 409 is
  reported as missing seats; `isConfirmedPassenger` is never read again.
- Dashboards. `exhaustMap` drops a second accept, for whichever booking; a list read
  before a mutation and arriving after it shows the older row.

## 5. Proofs

Checked by TLAPS for every value of the constants that satisfies the named
assumptions in the component's module (finite bookings and workers, seats and bounds that
are naturals, PATCH bodies over the columns of a trip, ...).

| Theorem | Statement |
|---|---|
| `GigDriveProofs!TypeCorrect` | `Spec => []TypeOK` |
| `GigDriveProofs!CapacityCorrect`, `NoOverbooking`, `ImplementsLedger` | `Spec` implies `CapacityInv`, `SeatsFit` and `KeepsLedger`, if `"update"` and `"setPaid"` are not in `Ops` |
| `SerialProofs!OneActiveBookingAlways`, `TripStaysValidAlways`, `TermsFixed`, `ConfirmedHasMinimum`, `WaitersAreToldAlways` | if `MaxInFlight = 1`, `Spec` implies the property of the run `serial` or `editing` |
| `SerialProofs!StatusTracksSeatsAlways` | the same, if moreover `"update"` is not in `Ops` |
| `SerialProofs!EndIsMailedOnceAlways` | the same, if moreover mails are counted (`MailCap # 0`) |
| `ChatProofs!TypeCorrect`, `FormerMembersAreMute`, `OutsidersSeeNothing`, `ShownOnceAndStored`, `ReloadsShowAll`, `NothingIsMissedLive` | `Spec` of `Chat` implies its types, the four invariants of the run `chat`, and that a reload brings what was stored (`ReloadShowsAll`) |
| `LivePriceProofs!TermsCorrect`, `PriceStaysInBand`, `CostIsCovered`, `PriceFalls` | `PriceSpec` implies that the terms stay valid, and the three properties of the run `prices` |
| `AccountsProofs!DisabledIsAlwaysOut`, `LoadIsAlwaysShared` | `Spec` of `Accounts` implies `DisabledIsOut` and `LoadIsShared` |
| `AccountsProofs!AdminAlwaysRemains` | `Spec` implies `AdminRemains`, if `MaxSaves = 1` and there is an admin to begin with |
| `ConcertProofs!SearchIsAlwaysAtomic`, `SettledPageIsAlwaysRight`, `ForecastIsAlwaysOfTheDay` | `Spec` of `ConcertPages` implies the three invariants of the run `concerts` |
| `OutreachProofs!NobodyIsRemindedTwice`, `CancelledAreAlwaysTold` | `Spec` of `Outreach` implies the two invariants of the run `outreach` |
| `ScreensProofs!TripAlwaysHasItsVehicle`, `StopsAlwaysOneBody` | `GarageSpec` implies the two invariants of vehicles and stops |
| `ScreensProofs!ShownConcertIsAlwaysSent`, `ValidFormIsAlwaysAccepted`, `NoUnwantedCopyEver` | `TripFormSpec` implies the three invariants of the form |
| `ScreensProofs!ShownTripOnlyMovesOn` | `TripPageSpec => ShownTripNeverStepsBack` |
| `ScreensProofs!DashboardIsAlwaysRight`, `PendingIsAlwaysUnderWay` | `DashSpec` implies the two invariants of the dashboards |
| `ScreensProofs!NothingIsMissed`, `ListsAlwaysSort` | `BrowseSpec` implies `NothingMissed`, and that a list that has been read can be sorted |
| `ScreensProofs!PagesKeepTheirSpecs`, `ScreensAlwaysRight` | `Spec` of `Screens`, which the runs check, implies the specification of each page, and so all these properties |

`TypeOK` is not inductive: a handler that is about to insert or save relies on its
arguments and on the rows it has loaded. `TypeInv` adds `Loaded` (at each label,
the arguments and entities the handler has) and `Reserved` (the id a request has
chosen has no row and is nobody else's).

`SeatsFit` needs more. `CapacityInv` adds `LockHeld` (the trip row is locked by
exactly the accept that is inside its transaction), `SameCapacity` (no handler's
copy of the trip has another capacity), `Decided` (only accept saves CONFIRMED,
with the seats of the row) and `RoomKept` (what an accept has checked stays free
until it commits). The argument: between the count and the commit of an accept
nobody else can add confirmed seats, for that takes the lock; everybody else only
removes them. The count is the cardinality of a set of (booking, seat) pairs, so
that a step changes it by adding or removing one booking's pairs, and the
library's facts about finite sets apply.

The three theorems about seats assume `"update" \notin Ops` and
`"setPaid" \notin Ops`. Both are necessary. `update` may lower `max` below the
seats confirmed even with one request at a time. `setPaid` can confirm a
booking without the lock (section 4), and then the capacity is not safe.

The refinement proof maps each action: the UPDATE of an accepted booking is
`Take`, that of a cancelled confirmed one is `Release`, everything else leaves the
ledger as it is.

One handler at a time. `OneActiveBooking` and most of the other properties of `serial` and `editing`
fail once two handlers may overlap (section 4), so their theorems assume `MaxInFlight = 1`: they
say what holds of the handlers as they are written, by themselves, in any sequence of any
length. None is inductive. `SerialInv` adds `Alone` (no handler beside another) and `Fresh`: the
entity in a handler's hands is the row, save for the columns the handler itself has
changed. On it rest, each with an invariant of its own, `NoneActive` (an INSERT comes from a
request that has found no active booking), `StatusFollows` (the status is the one of the
seats, or the handler that moved them has its recomputation still to do), `ReadyHasMinimum`
(a READY trip has its minimum, or the status has yet to catch up), `MailedOnce` and
`OwedIsComing` (who is owed a mail is in the list of the handler that owes it).
`StatusTracksSeats` excludes `update`, which recomputes nothing. The minimum of a trip is
not 0, an assumption on the trips a run starts from (`@Min(1)`,
`trips/dto/create-trip.dto.ts:51`).

Prices: the divisor is `max(min, confirmed, 1)`, which lies between `min` and `max`
in every reachable state, and `ceil(c/n)` is antitone in `n`. The lemmas about
`CeilDiv` are stated once and cited.

Chat: each invariant has a strengthening of its own. `MuteInv`: whoever is a member
vouches for all they have sent, and what passed the check was vouched for, so a seat
lost and won again in between does no harm. `OutsiderInv`: every stage behind a
membership read belongs to somebody admitted. `StoredInv`: the log has no
duplicates, for a message is inserted from the stage before the log only; pages,
panels and inboxes are drawn from it. `ReloadInv`: the page is read after the panel
was opened, and the log only grows. `LiveInv`: nothing is due before the history is
loaded, so the answer that replaces the panel takes nothing due away.

Accounts: `AccountsInv` says of each request under way that it has witnessed every account
active since it was sent, and that whoever it acts for is among them once it has got past
its checks (for a login, once it has found the row); and that rows, tokens and the session
are accounts that exist. It says nothing of the saves, so any number of them may overlap.
`AdminRemains` is another matter: two admins who disable each other do so unless they save one
after the other (section 4). `AdminInv` says that one request at most is about to save, however
many have passed their guards; that a disable which is about to leaves another active admin; and
that any other save is an admin's enable, or writes `disabledAt` as the row has it.

Concerts: `MomentsInv` ties each search to the results the cache has had since it was sent; a search
that gives up after its first read answers with one of them, and a re-query reads
another. `PipelineInv` ties the request listened to, and the results shown, to what was
asked, and that to what was typed unless the timer runs. `DetailsInv` ties the answers of the
details page to starts the row has had; that `LocalDay` finds the day an instant lies in is
a lemma of its own, for any length of a day and any offset.

Outreach: `OutreachInv`. `ReminderInv` keeps the list and the hand of the reminder job to trips of
this hour's window, each once; `RemindedInv` says that who has been reminded of a trip was so
in its window, and that in the window's own hour the job has come past the trip, and in its
mails past him. An hour ends when the jobs are done, windows of two hours share no trip, and a
process that is started again does not make up for a job: so nothing needs to be assumed of
failures. `TellInv` follows a cancellation: from the save on, somebody has it in hand, from
the dispatch on with everybody on the trip in the list, until each is mailed or found muted;
meanwhile a cancelled trip only loses riders. The trips of a run are assumed to be over when
the hours stop counting (`ChoicesAssumption`): the clock of the model saturates there, and a
window that never closes is none the program has.

Garage: `StopsInv` says that the stops of a trip come from a request that has succeeded, whose body
changes no more; the unique index admits an insert only where no number is taken, and
bodies number from 1. A trip's vehicle has a row because the foreign key is checked when
a trip is saved and when a vehicle is deleted.

Trip form: `PickerInv` follows the concert of the form while the picker is not there, is
loading, or shows one. `Sound` is what the validators have let through, in local time; in the
server's zone it gives the inequalities of `ValidSchedule`. `CopiesInv` counts a trip for an
answer that may yet be lost.

Trip page: `PageInv` says that at most one of the driver's actions is under way (`ActionInv`), on a
page that has loaded its trip, a confirm only while READY is shown and a cancel only while the
status shown is not over; and that what a served action answers is the status it has set
(`AnswerInv`). So no answer brings back a trip that was shown as over.

Dashboards: `DashInv` is about a dashboard that nothing has disturbed (`Steady`). `LoadsInv` ties the
flags of the store to the loads under way, `HeldInv` each row held to the server's, but for
bookings a served answer is about to bring, `AnsweredInv` and `MutationsInv` what such an answer
says to what was asked. At rest no answer is under way, and the rows are the server's.

Trip list: `NothingLost` follows the request the page waits for through the three reads. What has met
the filters ever since it was sent is in the page unless that was cut, meets the filters on
seats as they were counted, and those on the rating and the first stop when they are read
last; each filter looks at one read only, which is why the reads need not agree on a moment.
That the sort loses nothing is by definition of `Sorted`; that there is such an order
for each criterion is `ListsAlwaysSort`, from the position of a trip among those before it (no
induction) and the transitivity of the comparison of ratios.

The proofs of the pages are over their own specifications. `PagesKeepTheirSpecs` carries them to
`Screens`: a step of the open page is a stutter of the others.

Only model-checked: the liveness properties of `liveness`, `concerts`, `outreach` and `pages`
(fairness and ENABLED are outside what the prover handles) and the two refuted statements, whose
counterexamples are runs. Every invariant and every action property of a passing run is
stated by a theorem. No operator is RECURSIVE.

## 6. Not modelled, and what could follow

Left out for good: templates and wording of mails, DTOs and their validation decorators,
migrations and seed data, dependency injection, layout and navigation of the client, maps
(display only), the lists and counts of the admin pages and the driver's own list (queries
that change nothing and decide nothing), the upcoming concerts offered to the picker.

Abstracted within modules: one trip in the trip core and in `Garage`, one room in `Chat`,
one browser in `Accounts`; a disabled user's open socket is not composed with `Chat`. Edits of
trips already listed are not in `TripBrowse`, where equal departures do not occur (their order
would be the database's); it has at most one trip that appears late and one that goes.

Next steps: the parts of `serial` that survive an overlap (which pairs of handlers may run
together without harm) proved for any `MaxInFlight`; a trip list whose rows are edited; a
composition of `Accounts` with `Chat` for sockets that outlive a disabling.
