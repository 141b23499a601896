------------------------------ MODULE Outreach ------------------------------
(***************************************************************************)
(* What the backend does on its own: the two hourly jobs (TripSweepJob,    *)
(* TripReminderJob), the mails that follow a change of a trip or a booking *)
(* and the Signal group made for a confirmed trip, over several trips,     *)
(* with saves, mails and calls that fail and a process that dies.          *)
(*                                                                         *)
(* One request at a time runs beside the jobs; the steps inside accept and *)
(* recomputeStatus are split up in GigDrive and taken as one here.  Every  *)
(* booking is for one seat.                                                *)
(***************************************************************************)
EXTENDS TripRules, FiniteSets

CONSTANTS
  Trips, People,
  Driver,       \* the driver of every trip
  NoOne,
  Lead,         \* hours between the reminder and the departure (24)
  Horizon,      \* bound: the hour after which every hour is like the last
  MaxFaults,    \* bound: calls that fail, crashes
  Signal,       \* FEATURE_SIGNAL is on and a number is configured
  TripChoices   \* trips, bookings and muted users a run may start from

\* The kinds of mail whose delivery is remembered.
Remembered == {"REMINDER", "CANCELLED"}

Users == People \cup {Driver}
Jobs == {"sweep", "reminder"}
Workers == Jobs \cup {"request"}

ASSUME OutreachAssumption ==
  /\ Driver \notin People /\ NoOne \notin Users
  /\ Lead \in Nat /\ Horizon \in Nat /\ MaxFaults \in Nat
  /\ Signal \in BOOLEAN

\* What a run starts from: trips under way, all over when the hours stop counting.
ASSUME ChoicesAssumption ==
  \A c \in TripChoices :
    /\ c.trips \in [Trips -> [status : Band \cup {"CONFIRMED"}, min : Nat, max : Nat,
                              deadline : Nat, departure : 0 .. Horizon]]
    /\ c.booking \in [Trips -> [People -> {"NONE", "PENDING", "CONFIRMED"}]]
    /\ c.muted \subseteq Users

VARIABLES
  clock,    \* the hour
  up,       \* the backend process is running
  due,      \* jobs the scheduler has fired this hour and that have not begun
  trips,    \* the rows of trips
  booking,  \* trip -> passenger -> status of the booking, or "NONE"
  muted,    \* users with emailNotifications = false
  at,       \* worker -> where it stands
  queue,    \* worker -> the trips of its list it has not come to
  hand,     \* worker -> the notification or the save it is at
  mail,     \* worker -> recipients it has not come to
  groups,   \* trip -> its Signal group: none, orphan (link unknown), linked
  faults,   \* failures so far (bound)
  inbox,    \* auxiliary: mails delivered, of the kinds properties ask after
  again     \* auxiliary: mails delivered more than once

dbVars == <<trips, booking>>
workVars == <<at, queue, hand, mail>>
auxVars == <<inbox, again>>
vars == <<clock, up, due, dbVars, muted, workVars, groups, faults, auxVars>>

-----------------------------------------------------------------------------
(* The database, read and written *)

Riders(t, statuses) == {p \in People : booking[t][p] \in statuses}
Seats(t) == Cardinality(Riders(t, {"CONFIRMED"}))

InStatus(statuses) == {t \in Trips : trips[t].status \in statuses}

\* A trip the sweep is to cancel.
Overdue(t) ==
  /\ trips[t].status \in Band
  /\ trips[t].deadline <= clock
  /\ ~HasMinReached(trips[t], Seats(t))

Idle == [trip |-> NoOne, event |-> "none", rider |-> NoOne]
About(t, event) == [trip |-> t, event |-> event, rider |-> NoOne]

\* A call that fails, one more of those the bound allows.
Fault == faults < MaxFaults /\ faults' = faults + 1

\* Worker w goes on at a stage, with h in hand; an idle worker has nothing.
Goto(w, stage, h) ==
  /\ at' = [at EXCEPT ![w] = stage]
  /\ hand' = [hand EXCEPT ![w] = IF stage = "idle" THEN Idle ELSE h]

\* What follows a notification: jobs take the next trip of their list, a
\* confirmed trip gets its Signal group, and a passenger is told that he was
\* accepted after the driver that the trip is READY.
Continue(w) ==
  LET h == hand[w] IN
  CASE w = "sweep" /\ h.event = "COMPLETED"                -> Goto(w, "departed", Idle)
    [] w \in Jobs /\ h.event # "COMPLETED"                 -> Goto(w, "list", Idle)
    [] w = "request" /\ h.event = "CONFIRMED" /\ Signal    -> Goto(w, "group", h)
    [] w = "request" /\ h.event = "READY" /\ h.rider # NoOne ->
         Goto(w, "dispatch", [h EXCEPT !.event = "ACCEPTED"])
    [] OTHER                                               -> Goto(w, "idle", Idle)

\* The mails left to send; after the last one the worker goes on.
Mailing(w, rest) ==
  /\ mail' = [mail EXCEPT ![w] = rest]
  /\ IF rest = {} THEN Continue(w) ELSE Goto(w, "mail", hand[w])

-----------------------------------------------------------------------------
(* Time, the process and the scheduler *)

OutreachInit ==
  /\ clock = 0
  /\ up = TRUE
  /\ due = {}
  /\ \E c \in TripChoices : trips = c.trips /\ booking = c.booking /\ muted = c.muted
  /\ at = [w \in Workers |-> "idle"]
  /\ queue = [w \in Workers |-> {}]
  /\ hand = [w \in Workers |-> Idle]
  /\ mail = [w \in Workers |-> {}]
  /\ groups = [t \in Trips |-> "none"]
  /\ faults = 0
  /\ inbox = {} /\ again = {}

\* The next hour: the scheduler fires both jobs if the process runs.  Jobs are
\* done well within the hour; requests may take longer.
Hour ==
  /\ due = {} /\ \A j \in Jobs : at[j] = "idle"
  /\ clock' = IF clock < Horizon THEN clock + 1 ELSE clock
  /\ due' = IF up THEN Jobs ELSE {}
  /\ UNCHANGED <<up, dbVars, muted, workVars, groups, faults, auxVars>>

\* The process dies: what it had in memory is gone, rows stay.
Crash ==
  /\ up /\ Fault
  /\ up' = FALSE
  /\ due' = {}
  /\ at' = [w \in Workers |-> "idle"]
  /\ queue' = [w \in Workers |-> {}]
  /\ hand' = [w \in Workers |-> Idle]
  /\ mail' = [w \in Workers |-> {}]
  /\ UNCHANGED <<clock, dbVars, muted, groups, auxVars>>

\* A job missed meanwhile is not made up for.
Restart ==
  /\ ~up
  /\ up' = TRUE
  /\ UNCHANGED <<clock, due, dbVars, muted, workVars, groups, faults, auxVars>>

-----------------------------------------------------------------------------
(* TripReminderJob and TripSweepJob *)

\* Faulty variant: the window is an hour too long.
DueInTwoHours(t) ==
  trips[t].departure > clock + Lead /\ trips[t].departure <= clock + Lead + 2

\* The window [now + 24 h, now + 25 h) of a run just after the hour.
DueForReminder(t) ==
  trips[t].departure > clock + Lead /\ trips[t].departure <= clock + Lead + 1

\* What a job reads first.
ListOf(j) ==
  IF j = "sweep" THEN InStatus(Band)
  ELSE {t \in InStatus({"CONFIRMED"}) : DueForReminder(t)}

StartJob(j) ==
  /\ j \in due
  /\ due' = due \ {j}
  /\ \/ Goto(j, "list", Idle) /\ queue' = [queue EXCEPT ![j] = ListOf(j)] /\ UNCHANGED faults
     \/ Fault /\ UNCHANGED <<at, hand, queue>>
  /\ UNCHANGED <<clock, up, dbVars, muted, mail, groups, auxVars>>

\* sendDueReminders: one trip after the other.
RemindNext(t) ==
  /\ at["reminder"] = "list" /\ t \in queue["reminder"]
  /\ queue' = [queue EXCEPT !["reminder"] = @ \ {t}]
  /\ Goto("reminder", "dispatch", About(t, "REMINDER"))
  /\ UNCHANGED <<clock, up, due, dbVars, muted, mail, groups, faults, auxVars>>

\* sweepExpired, first loop: the row is the one of the list, whatever became
\* of it; the seats are counted now.
SweepNext(t) ==
  /\ at["sweep"] = "list" /\ t \in queue["sweep"]
  /\ queue' = [queue EXCEPT !["sweep"] = @ \ {t}]
  /\ IF trips[t].deadline <= clock /\ ~HasMinReached(trips[t], Seats(t))
     THEN Goto("sweep", "save", About(t, "CANCELLED"))
     ELSE UNCHANGED <<hand, at>>
  /\ UNCHANGED <<clock, up, due, dbVars, muted, mail, groups, faults, auxVars>>

\* Second loop: confirmed trips that have departed are completed.
CompleteNext(t) ==
  /\ at["sweep"] = "departed" /\ t \in queue["sweep"]
  /\ queue' = [queue EXCEPT !["sweep"] = @ \ {t}]
  /\ IF trips[t].departure <= clock
     THEN Goto("sweep", "save", About(t, "COMPLETED"))
     ELSE UNCHANGED <<hand, at>>
  /\ UNCHANGED <<clock, up, due, dbVars, muted, mail, groups, faults, auxVars>>

\* The end of a list: the sweep reads the confirmed trips, or the job is over.
ListDone(j) ==
  /\ at[j] \in {"list", "departed"} /\ queue[j] = {}
  /\ IF j = "sweep" /\ at[j] = "list"
     THEN Goto(j, "departed", Idle) /\ queue' = [queue EXCEPT ![j] = InStatus({"CONFIRMED"})]
     ELSE Goto(j, "idle", Idle) /\ UNCHANGED queue
  /\ UNCHANGED <<clock, up, due, dbVars, muted, mail, groups, faults, auxVars>>

-----------------------------------------------------------------------------
(* Requests of the driver and the passengers *)

\* confirm() and cancel(): read and judge; the save is a step of its own.
Decide(t, event) ==
  /\ up /\ at["request"] = "idle"
  /\ \/ event = "CONFIRMED" /\ IsConfirmable(trips[t].status)
     \/ event = "CANCELLED" /\ IsCancellable(trips[t].status)
  /\ Goto("request", "save", About(t, event))
  /\ UNCHANGED <<clock, up, due, dbVars, muted, queue, mail, groups, faults, auxVars>>

\* accept() and cancel() of a booking, with recomputeStatus: a trip that turns
\* READY is announced to the driver before the passenger is told.
Rebook(t, p, from, to) ==
  LET new == [booking EXCEPT ![t][p] = to]
      seats == Cardinality({q \in People : new[t][q] = "CONFIRMED"})
      status == DeriveStatus(trips[t], seats)
      ready == status = "READY" /\ trips[t].status # "READY"
  IN
  /\ up /\ at["request"] = "idle"
  /\ booking[t][p] = from
  /\ booking' = new
  /\ trips' = [trips EXCEPT ![t].status = status]
  /\ Goto("request", IF ready \/ to = "CONFIRMED" THEN "dispatch" ELSE "idle",
       [trip |-> t, event |-> IF ready THEN "READY" ELSE "ACCEPTED",
        rider |-> IF to = "CONFIRMED" THEN p ELSE NoOne])
  /\ UNCHANGED <<clock, up, due, muted, queue, mail, groups, faults, auxVars>>

Accept(t, p) ==
  /\ IsBookable(trips[t].status)
  /\ Seats(t) + 1 <= trips[t].max
  /\ Rebook(t, p, "PENDING", "CONFIRMED")

\* The waitlist told of the seat is WaitlistService's.
Withdraw(t, p) == \E from \in {"PENDING", "CONFIRMED"} : Rebook(t, p, from, "NONE")

\* Faulty variant: an error in the sweep ends the scheduler's loop.
SaveFailsLoud(w) ==
  /\ at[w] = "save" /\ Fault
  /\ Goto(w, IF w = "request" THEN "idle" ELSE "dead", Idle)
  /\ queue' = [queue EXCEPT ![w] = {}]
  /\ UNCHANGED <<clock, up, due, dbVars, muted, mail, groups, auxVars>>

\* A save that throws: the request fails; the job logs it and is over, the
\* trips left in its list wait for the next hour.
SaveFails(w) ==
  /\ at[w] = "save" /\ Fault
  /\ Goto(w, "idle", Idle)
  /\ queue' = [queue EXCEPT ![w] = {}]
  /\ UNCHANGED <<clock, up, due, dbVars, muted, mail, groups, auxVars>>

Save(w) ==
  /\ at[w] = "save"
  /\ trips' = [trips EXCEPT ![hand[w].trip].status = hand[w].event]
  /\ Goto(w, "dispatch", hand[w])
  /\ UNCHANGED <<clock, up, due, booking, muted, queue, mail, groups, faults, auxVars>>

-----------------------------------------------------------------------------
(* Notifications *)

\* Faulty variant: passengers waiting for an answer are not told.
ConfirmedRecipients(h) ==
  CASE h.event = "ACCEPTED"  -> {h.rider}
    [] h.event = "COMPLETED" -> {}
    [] h.event = "READY"     -> {Driver}
    [] OTHER                 -> {Driver} \cup Riders(h.trip, {"CONFIRMED"})

\* resolveRecipients: who is on the trip at the moment of the dispatch.  A
\* completed trip is not mailed; of a booking only the accepting is shown.
Recipients(h) ==
  CASE h.event = "ACCEPTED"  -> {h.rider}
    [] h.event = "COMPLETED" -> {}
    [] h.event = "READY"     -> {Driver}
    [] h.event = "CANCELLED" -> {Driver} \cup Riders(h.trip, {"CONFIRMED", "PENDING"})
    [] OTHER                 -> {Driver} \cup Riders(h.trip, {"CONFIRMED"})

\* dispatch() reads the rows again; if it cannot, notify() logs and returns.
Dispatch(w) ==
  /\ at[w] = "dispatch"
  /\ \/ Mailing(w, Recipients(hand[w])) /\ UNCHANGED faults
     \/ hand[w].event # "COMPLETED" /\ Fault /\ Mailing(w, {})
  /\ UNCHANGED <<clock, up, due, dbVars, muted, queue, groups, auxVars>>

\* sendToUser, the driver first: a muted user is skipped, a transport that
\* fails is logged.
SendToUser(w, u) ==
  LET m == [to |-> u, trip |-> hand[w].trip, event |-> hand[w].event] IN
  /\ at[w] = "mail" /\ u \in mail[w]
  /\ Driver \in mail[w] => u = Driver
  /\ Mailing(w, mail[w] \ {u})
  /\ \/ /\ u \notin muted
        /\ inbox' = IF m.event \in Remembered THEN inbox \cup {m} ELSE inbox
        /\ again' = IF m \in inbox THEN again \cup {m} ELSE again
        /\ UNCHANGED faults
     \/ u \in muted /\ UNCHANGED <<auxVars, faults>>
     \/ u \notin muted /\ Fault /\ UNCHANGED auxVars
  /\ UNCHANGED <<clock, up, due, dbVars, muted, queue, groups>>

-----------------------------------------------------------------------------
(* SignalAutomationService.onTripConfirmed, SignalService *)

\* The group exists from the moment signal-cli has made it; its link is read
\* with a second call, and then mailed.
SignalAnswers ==
  /\ at["request"] \in {"group", "link"}
  /\ LET t == hand["request"].trip
         posted == at["request"] = "group" IN
     /\ groups' = [groups EXCEPT ![t] = IF posted THEN "orphan" ELSE "linked"]
     /\ IF posted THEN Goto("request", "link", hand["request"])
        ELSE Goto("request", "dispatch", About(t, "SIGNAL_INVITE"))
  /\ UNCHANGED <<clock, up, due, dbVars, muted, queue, mail, faults, auxVars>>

\* Faulty variant: the call has no timeout.
SignalHangs ==
  /\ at["request"] \in {"group", "link"} /\ Fault
  /\ Goto("request", "idle", Idle)
  /\ UNCHANGED <<clock, up, due, dbVars, muted, queue, mail, groups, auxVars>>

\* Either call is refused or times out: logged, the confirmation goes on.  A
\* group whose POST timed out may have been made.
SignalGivesUp ==
  /\ at["request"] \in {"group", "link"}
  /\ \/ UNCHANGED groups
     \/ groups' = [groups EXCEPT ![hand["request"].trip] = "orphan"]
  /\ Goto("request", "idle", Idle)
  /\ UNCHANGED <<clock, up, due, dbVars, muted, queue, mail, faults, auxVars>>

-----------------------------------------------------------------------------
\* What a worker does next without anything having to fail or to answer.
Proceed(w) ==
  \/ Save(w) \/ Dispatch(w) \/ (\E u \in Users : SendToUser(w, u))

Work ==
  \/ \E w \in Workers : Proceed(w) \/ SaveFails(w)
  \/ \E j \in Jobs : StartJob(j) \/ ListDone(j)
  \/ \E t \in Trips : RemindNext(t) \/ SweepNext(t) \/ CompleteNext(t)
  \/ SignalAnswers \/ SignalGivesUp

Requests ==
  \/ \E t \in Trips, e \in {"CONFIRMED", "CANCELLED"} : Decide(t, e)
  \/ \E t \in Trips, p \in People : Accept(t, p) \/ Withdraw(t, p)

OutreachNext == Hour \/ Crash \/ Restart \/ Work \/ Requests

Spec == OutreachInit /\ [][OutreachNext]_vars

\* The scheduler fires every hour; running code goes on; calls to signal-cli
\* are aborted in the end.  Nothing restarts a process that died.
Fairness ==
  /\ WF_vars(Hour)
  /\ \A j \in Jobs : WF_vars(StartJob(j)) /\ WF_vars(ListDone(j))
  /\ \A w \in Workers : WF_vars(Proceed(w))
  /\ WF_vars(\E t \in Trips : SweepNext(t) \/ CompleteNext(t))
  /\ WF_vars(\E t \in Trips : RemindNext(t))
  /\ WF_vars(SignalGivesUp)

FairSpec == Spec /\ Fairness

-----------------------------------------------------------------------------
(* Properties *)

Stages ==
  {"idle", "list", "departed", "save", "dispatch", "mail", "group", "link"}

TypeOK ==
  /\ clock \in 0 .. Horizon /\ up \in BOOLEAN /\ due \subseteq Jobs
  /\ \A t \in Trips : trips[t].status \in TripStatus
  /\ at \in [Workers -> Stages]
  /\ queue \in [Workers -> SUBSET Trips]
  /\ mail \in [Workers -> SUBSET Users]
  /\ muted \subseteq Users
  /\ groups \in [Trips -> {"none", "orphan", "linked"}]
  /\ faults \in 0 .. MaxFaults

\* The windows of two runs of the reminder job never share a trip, so nobody
\* is reminded twice of the same trip, whatever fails and however often the
\* process is started again.
RemindedOnce == \A m \in again : m.event # "REMINDER"

\* A worker has still to save or to mail the cancellation of t.
Cancelling(t) ==
  \E w \in Workers : hand[w].trip = t /\ hand[w].event = "CANCELLED"

\* As long as nothing failed, everyone who has a seat on a cancelled trip, or
\* waits for an answer, has been mailed (unless he wants no mails), whether the
\* driver or the sweep cancelled it.
CancelledAreTold ==
  faults = 0 =>
    \A t \in InStatus({"CANCELLED"}) : ~Cancelling(t) =>
      \A u \in ({Driver} \cup Riders(t, {"CONFIRMED", "PENDING"})) \ muted :
        [to |-> u, trip |-> t, event |-> "CANCELLED"] \in inbox

\* A trip past its deadline without its minimum does not stay open as long as
\* the backend runs: a save that fails, and the trips left in the list behind
\* it, are made up for by a later hour.
OverdueIsSwept ==
  <>[]up => \A t \in Trips : Overdue(t) ~> ~Overdue(t)

\* A request always ends, also when signal-cli or the mail server does not
\* play along (a confirmation is never held up by them).
RequestsAreAnswered == at["request"] # "idle" ~> at["request"] = "idle"

\* trip-reminder.job.ts: "each trip is reminded once, without a schema flag".
\* Refuted by a trip confirmed when its window is over; see the README.
EachTripIsReminded ==
  faults = 0 =>
    \A t \in InStatus({"CONFIRMED"}) :
      trips[t].departure <= clock =>
        Driver \in muted \/ [to |-> Driver, trip |-> t, event |-> "REMINDER"] \in inbox
=============================================================================
